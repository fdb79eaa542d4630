-------------------------- MODULE TypeRegistryProofs --------------------------
(***************************************************************************)
(* Proofs about the creation and resolution of types, for all class        *)
(* graphs.  The steps of jpy are first expressed by what they do to the    *)
(* calls of all threads: one goes on, one begins, one returns, or several  *)
(* fail (NextCases).  The invariants say how the calls, JPy_Types and the  *)
(* state of the types fit together:                                        *)
(*   Core        for any threads, callbacks and failures;                  *)
(*   NoFailure   until an allocation fails;                                *)
(*   OneByOne    for one thread, and callbacks that do not ask for types;  *)
(*   MembersOK   for those, until an allocation fails;                     *)
(*   HierarchyOK for those, if no class mentions a grandchild.             *)
(* Failures come with one thread and callbacks that do not ask for types   *)
(* (BoundsAssumption of TypeRegistry).                                     *)
(***************************************************************************)
EXTENDS TypeRegistry, FiniteSetTheorems, TLAPS

-----------------------------------------------------------------------------
(* Frames and stacks *)

\* The open calls of both kinds.
Frames == GetFrames \cup ResolveFrames

\* The calls below the innermost one of s, s with another innermost call, and s
\* after a failure that the i-th call gets over.
Rest(s) == SubSeq(s, 1, Len(s) - 1)
Retop(s, f) == Append(Rest(s), f)
Failed(s, i) ==
  IF PythonAbove(SubSeq(s, 1, i)) THEN SubSeq(s, 1, i)
  ELSE Append(SubSeq(s, 1, i - 1), NextMember(s[i]))

\* What a call is made of, apart from its progress.
SameCall(f, g) == g.op = f.op /\ g.class = f.class

\* A frame knows what it is.
LEMMA FrameFacts ==
  ASSUME NEW f \in Frames
  PROVE  /\ f.op \in {"get", "resolve"} /\ f.class \in Classes
         /\ f.op = "get" => f \in GetFrames
         /\ f.op = "resolve" => f \in ResolveFrames
  BY DEF Frames, GetFrames, ResolveFrames

\* The progress of a frame that creates a type.
LEMMA GetFrameAt ==
  ASSUME NEW f \in GetFrames, NEW label \in {"super", "component", "slots", "resolve"}
  PROVE  /\ [f EXCEPT !.at = label] \in GetFrames
         /\ SameCall(f, [f EXCEPT !.at = label])
         /\ [f EXCEPT !.at = label].at = label
         /\ [f EXCEPT !.at = label].op = "get"
         /\ [f EXCEPT !.at = label].resolve = f.resolve
<1> DEFINE g == [f EXCEPT !.at = label]
<1>1. g \in GetFrames /\ g.at = label /\ g.op = f.op /\ g.class = f.class
      /\ g.op = "get"
  BY DEF GetFrames
<1>2. g.resolve = f.resolve
  BY DEF GetFrames
<1> QED
  BY <1>1, <1>2 DEF SameCall

\* The progress of a frame that resolves one.
LEMMA ResolveFrameAt ==
  ASSUME NEW f \in ResolveFrames, NEW label \in {"base", "member", "callback"}
  PROVE  /\ [f EXCEPT !.at = label] \in ResolveFrames
         /\ SameCall(f, [f EXCEPT !.at = label])
         /\ [f EXCEPT !.at = label].at = label
         /\ [f EXCEPT !.at = label].op = "resolve"
         /\ [f EXCEPT !.at = label].member = f.member
  BY DEF ResolveFrames, SameCall

\* The next class that a member mentions.
LEMMA ResolveFrameUse ==
  ASSUME NEW f \in ResolveFrames
  PROVE  /\ [f EXCEPT !.use = @ + 1] \in ResolveFrames
         /\ SameCall(f, [f EXCEPT !.use = @ + 1])
         /\ [f EXCEPT !.use = @ + 1].at = f.at
         /\ [f EXCEPT !.use = @ + 1].op = "resolve"
         /\ [f EXCEPT !.use = @ + 1].member = f.member
<1>1. f.use + 1 \in Nat \ {0}
  BY DEF ResolveFrames
<1> DEFINE u == f.use + 1
           g == [f EXCEPT !.use = u]
<1>2. u \in Nat \ {0} /\ g = [f EXCEPT !.use = @ + 1]
  BY <1>1
<1> HIDE DEF u
<1>3. g \in ResolveFrames /\ SameCall(f, g) /\ g.at = f.at /\ g.op = "resolve"
      /\ g.member = f.member
  BY <1>2 DEF ResolveFrames, SameCall
<1> HIDE DEF g
<1> QED
  BY <1>2, <1>3

\* The next member.
LEMMA NextMemberFrame ==
  ASSUME NEW f \in ResolveFrames
  PROVE  /\ NextMember(f) \in ResolveFrames
         /\ SameCall(f, NextMember(f))
         /\ NextMember(f).at = "member"
         /\ NextMember(f).op = "resolve"
         /\ NextMember(f).member = f.member + 1
<1>1. f.member + 1 \in Nat \ {0} /\ 1 \in Nat \ {0}
  BY DEF ResolveFrames
<1> DEFINE u == f.member + 1
           g1 == [f EXCEPT !.member = u]
           g2 == [g1 EXCEPT !.use = 1]
           g3 == [g2 EXCEPT !.at = "member"]
<1>2. g3 = NextMember(f)
  BY DEF NextMember
<1>3. u \in Nat \ {0}
  BY <1>1
<1> HIDE DEF u
<1>4. g1 \in ResolveFrames /\ SameCall(f, g1) /\ g1.member = u
  BY <1>3 DEF ResolveFrames, SameCall
<1> HIDE DEF g1
<1>5. g2 \in ResolveFrames /\ SameCall(g1, g2) /\ g2.member = g1.member
  BY <1>1, <1>4 DEF ResolveFrames, SameCall
<1> HIDE DEF g2
<1>6. /\ g3 \in ResolveFrames /\ SameCall(g2, g3) /\ g3.member = g2.member
      /\ g3.at = "member" /\ g3.op = "resolve"
  BY <1>5 DEF ResolveFrames, SameCall
<1> HIDE DEF g3
<1> QED
  BY <1>2, <1>4, <1>5, <1>6 DEF SameCall, u

\* Stacks grow, ...
LEMMA Pushed ==
  ASSUME NEW s \in Seq(Frames), NEW f \in Frames
  PROVE  /\ Append(s, f) \in Seq(Frames)
         /\ Len(s) \in Nat /\ Len(Append(s, f)) = Len(s) + 1
         /\ Append(s, f)[Len(s) + 1] = f
         /\ Append(s, f)[Len(Append(s, f))] = f
         /\ Append(s, f) # <<>>
         /\ \A k \in 1 .. Len(s) : Append(s, f)[k] = s[k] /\ k \in 1 .. Len(Append(s, f))
         /\ \A k \in 1 .. Len(Append(s, f)) : k \in 1 .. Len(s) \/ k = Len(s) + 1
<1>1. Append(s, f) \in Seq(Frames) /\ Len(Append(s, f)) = Len(s) + 1 /\ Len(s) \in Nat
  OBVIOUS
<1>2. Append(s, f)[Len(s) + 1] = f /\ \A k \in 1 .. Len(s) : Append(s, f)[k] = s[k]
  OBVIOUS
<1>3. Append(s, f) # <<>>
  BY <1>1
<1> QED
  BY <1>1, <1>2, <1>3

\* ... and shrink ...
LEMMA CutFacts ==
  ASSUME NEW s \in Seq(Frames), NEW i \in 0 .. Len(s)
  PROVE  /\ SubSeq(s, 1, i) \in Seq(Frames)
         /\ Len(SubSeq(s, 1, i)) = i
         /\ \A k \in 1 .. i : SubSeq(s, 1, i)[k] = s[k] /\ k \in 1 .. Len(s)
<1>1. ASSUME NEW n \in Nat, n <= Len(s)
      PROVE  /\ SubSeq(s, 1, n) \in Seq(Frames) /\ Len(SubSeq(s, 1, n)) = n
             /\ \A k \in 1 .. n : SubSeq(s, 1, n)[k] = s[k]
  BY <1>1
<1>2. i \in Nat /\ i <= Len(s) /\ \A k \in 1 .. i : k \in 1 .. Len(s)
  OBVIOUS
<1> QED
  BY <1>1, <1>2

\* ... have an innermost call ...
LEMMA TopFacts ==
  ASSUME NEW s \in Seq(Frames), s # <<>>
  PROVE  /\ Len(s) \in Nat /\ Len(s) > 0 /\ Len(s) \in 1 .. Len(s) /\ Len(s) - 1 \in 0 .. Len(s)
         /\ s[Len(s)] \in Frames
         /\ Rest(s) \in Seq(Frames) /\ Len(Rest(s)) = Len(s) - 1
         /\ \A k \in 1 .. Len(Rest(s)) : /\ Rest(s)[k] = s[k] /\ k \in 1 .. Len(s)
                                         /\ k < Len(s) /\ k # Len(s)
         /\ \A k \in 1 .. Len(s) : k \in 1 .. Len(Rest(s)) \/ k = Len(s)
<1>1. Len(s) \in Nat /\ Len(s) > 0
  OBVIOUS
<1>2. Len(s) \in 1 .. Len(s) /\ Len(s) - 1 \in 0 .. Len(s) /\ s[Len(s)] \in Frames
  BY <1>1
<1>3. /\ Rest(s) \in Seq(Frames) /\ Len(Rest(s)) = Len(s) - 1
      /\ \A k \in 1 .. Len(s) - 1 : Rest(s)[k] = s[k] /\ k \in 1 .. Len(s)
  BY <1>2, CutFacts DEF Rest
<1> QED
  BY <1>1, <1>2, <1>3

\* ... and have another innermost call.
LEMMA RetopFacts ==
  ASSUME NEW s \in Seq(Frames), s # <<>>, NEW f \in Frames
  PROVE  /\ Retop(s, f) \in Seq(Frames)
         /\ Len(Retop(s, f)) = Len(s)
         /\ Retop(s, f) # <<>>
         /\ Retop(s, f)[Len(s)] = f
         /\ \A k \in 1 .. Len(s) : k # Len(s) => Retop(s, f)[k] = s[k]
<1> DEFINE r == Rest(s)
<1>1. /\ Len(s) \in Nat /\ r \in Seq(Frames) /\ Len(r) = Len(s) - 1
      /\ \A k \in 1 .. Len(r) : r[k] = s[k]
      /\ \A k \in 1 .. Len(s) : k \in 1 .. Len(r) \/ k = Len(s)
  BY TopFacts
<1> HIDE DEF r
<1>2. /\ Append(r, f) \in Seq(Frames) /\ Append(r, f) # <<>>
      /\ Len(Append(r, f)) = Len(r) + 1 /\ Append(r, f)[Len(r) + 1] = f
      /\ \A k \in 1 .. Len(r) : Append(r, f)[k] = r[k]
  BY <1>1, Pushed
<1>3. Len(r) + 1 = Len(s)
  BY <1>1
<1> QED
  BY <1>1, <1>2, <1>3 DEF Retop, r

\* A failure leaves the calls up to the i-th, which goes on with its next member.
LEMMA FailedFacts ==
  ASSUME NEW s \in Seq(Frames), NEW i \in 0 .. Len(s), i > 0 => s[i].op = "resolve"
  PROVE  /\ Failed(s, i) \in Seq(Frames)
         /\ Len(Failed(s, i)) = i
         /\ \A k \in 1 .. i : k \in 1 .. Len(s) /\ SameCall(s[k], Failed(s, i)[k])
         /\ \A k \in 1 .. i : k # i => Failed(s, i)[k] = s[k]
         /\ i > 0 => Failed(s, i)[i] = s[i] \/ Failed(s, i)[i] = NextMember(s[i])
         /\ i > 0 => Failed(s, i)[i].at \in {"callback", "member"}
         /\ i \in Nat /\ i <= Len(s) /\ Len(s) \in Nat
<1> DEFINE cut == SubSeq(s, 1, i)
<1>1. /\ cut \in Seq(Frames) /\ Len(cut) = i
      /\ \A k \in 1 .. i : cut[k] = s[k] /\ k \in 1 .. Len(s)
  BY CutFacts
<1>2. i \in Nat /\ i <= Len(s) /\ Len(s) \in Nat /\ (i > 0 => i \in 1 .. i)
  OBVIOUS
<1>3. CASE PythonAbove(cut)
  <2>1. Failed(s, i) = cut
    BY <1>3 DEF Failed
  <2>2. i > 0 => cut[i].at = "callback"
    BY <1>1, <1>2, <1>3 DEF PythonAbove
  <2> HIDE DEF cut
  <2> QED
    BY <1>1, <1>2, <2>1, <2>2 DEF SameCall
<1>4. CASE ~PythonAbove(cut)
  <2> DEFINE low == SubSeq(s, 1, i - 1)
             x == Append(low, NextMember(s[i]))
  <2>1. i > 0
    BY <1>1, <1>2, <1>4 DEF PythonAbove
  <2>2. i - 1 \in 0 .. Len(s) /\ i \in 1 .. Len(s)
    BY <1>2, <2>1
  <2>3. /\ low \in Seq(Frames) /\ Len(low) = i - 1
        /\ \A k \in 1 .. i - 1 : low[k] = s[k]
    BY <2>2, CutFacts
  <2>4. s[i] \in ResolveFrames
    BY <2>1, <2>2, FrameFacts
  <2>5. /\ NextMember(s[i]) \in Frames /\ SameCall(s[i], NextMember(s[i]))
        /\ NextMember(s[i]).at = "member"
    BY <2>4, NextMemberFrame DEF Frames
  <2>6. Failed(s, i) = x
    BY <1>4 DEF Failed
  <2> HIDE DEF low, cut
  <2>7. /\ x \in Seq(Frames) /\ Len(x) = Len(low) + 1 /\ x[Len(low) + 1] = NextMember(s[i])
        /\ \A k \in 1 .. Len(low) : x[k] = low[k]
    BY <2>3, <2>5, Pushed
  <2>8. Len(low) + 1 = i /\ \A k \in 1 .. i : k # i => k \in 1 .. Len(low)
    BY <1>2, <2>3
  <2> HIDE DEF x
  <2>9. \A k \in 1 .. i : k # i => x[k] = s[k]
    BY <2>3, <2>7, <2>8
  <2>10. \A k \in 1 .. i : SameCall(s[k], x[k])
    BY <2>5, <2>7, <2>8, <2>9 DEF SameCall
  <2> QED
    BY <1>1, <1>2, <2>5, <2>6, <2>7, <2>8, <2>9, <2>10
<1> QED
  BY <1>3, <1>4

\* The calls of all threads.
Stacks == [Threads -> Seq(Frames)]

\* From the calls m to the calls n: t's innermost call goes on as f, ...
Steps(m, n, t, f) ==
  /\ n \in Stacks
  /\ Len(m[t]) \in 1 .. Len(m[t])
  /\ SameCall(m[t][Len(m[t])], f)
  /\ \A u \in Threads : u # t => n[u] = m[u]
  /\ Len(n[t]) = Len(m[t])
  /\ \A i \in 1 .. Len(m[t]) : i # Len(m[t]) => n[t][i] = m[t][i]
  /\ n[t][Len(m[t])] = f

\* ... t makes the call f, ...
Grows(m, n, t, f) ==
  /\ n \in Stacks
  /\ \A u \in Threads : u # t => n[u] = m[u]
  /\ Len(n[t]) = Len(m[t]) + 1
  /\ \A i \in 1 .. Len(m[t]) : n[t][i] = m[t][i]
  /\ n[t][Len(m[t]) + 1] = f

\* ... t's innermost call returns, ...
Shrinks(m, n, t) ==
  /\ n \in Stacks
  /\ Len(m[t]) \in 1 .. Len(m[t])
  /\ \A u \in Threads : u # t => n[u] = m[u]
  /\ Len(n[t]) = Len(m[t]) - 1
  /\ \A i \in 1 .. Len(m[t]) : i # Len(m[t]) => n[t][i] = m[t][i]

\* ... t's calls above the i-th, which create types, fail.
Cuts(m, n, t, i) ==
  /\ n \in Stacks
  /\ i \in 0 .. Len(m[t])
  /\ i > 0 => m[t][i].op = "resolve"
  /\ \A j \in i + 1 .. Len(m[t]) : m[t][j].op = "get"
  /\ \A u \in Threads : u # t => n[u] = m[u]
  /\ Len(n[t]) = i
  /\ \A k \in 1 .. i : k # i => n[t][k] = m[t][k]
  /\ i > 0 => SameCall(m[t][i], n[t][i]) /\ n[t][i].at \in {"callback", "member"}

\* The calls m, those of t replaced by s.
Put(m, t, s) == [m EXCEPT ![t] = s]

\* Put leaves the calls of the other threads alone.
LEMMA PutFacts ==
  ASSUME NEW m \in Stacks, NEW t \in Threads, NEW s \in Seq(Frames)
  PROVE  /\ Put(m, t, s) \in Stacks
         /\ Put(m, t, s)[t] = s
         /\ \A u \in Threads : u # t => Put(m, t, s)[u] = m[u]
         /\ m[t] \in Seq(Frames) /\ Len(m[t]) \in Nat
         /\ \A x : Put(Put(m, t, s), t, x) = Put(m, t, x)
<1>1. m[t] \in Seq(Frames)
  BY DEF Stacks
<1>2. Len(m[t]) \in Nat
  BY <1>1
<1>3. \A x : Put(Put(m, t, s), t, x) = Put(m, t, x)
  BY DEF Put, Stacks
<1> QED
  BY <1>1, <1>2, <1>3 DEF Put, Stacks

\* The actions replace the calls of one thread: the innermost one goes on, ...
LEMMA PutSteps ==
  ASSUME NEW m \in Stacks, NEW t \in Threads, m[t] # <<>>, NEW f \in Frames,
         SameCall(m[t][Len(m[t])], f)
  PROVE  Steps(m, Put(m, t, Retop(m[t], f)), t, f)
<1>1. m[t] \in Seq(Frames)
  BY DEF Stacks
<1> DEFINE s == m[t]
           r == Retop(m[t], f)
           n == Put(m, t, r)
<1>2. /\ r \in Seq(Frames) /\ Len(r) = Len(s) /\ r[Len(s)] = f
      /\ \A k \in 1 .. Len(s) : k # Len(s) => r[k] = s[k]
  BY <1>1, RetopFacts
<1>3. Len(s) \in 1 .. Len(s)
  BY <1>1, TopFacts
<1> HIDE DEF r
<1>4. n \in Stacks /\ n[t] = r /\ \A u \in Threads : u # t => n[u] = m[u]
  BY <1>2, PutFacts
<1> HIDE DEF n
<1>5. Steps(m, n, t, f)
  BY <1>2, <1>3, <1>4 DEF Steps
<1> QED
  BY <1>5 DEF n, r

\* ... makes a call, ...
LEMMA PutGrows ==
  ASSUME NEW m \in Stacks, NEW t \in Threads, NEW f \in Frames
  PROVE  Grows(m, Put(m, t, Append(m[t], f)), t, f)
<1>1. m[t] \in Seq(Frames)
  BY DEF Stacks
<1> DEFINE s == m[t]
           r == Append(m[t], f)
           n == Put(m, t, r)
<1>2. /\ r \in Seq(Frames) /\ Len(r) = Len(s) + 1 /\ r[Len(s) + 1] = f
      /\ \A k \in 1 .. Len(s) : r[k] = s[k]
  BY <1>1, Pushed
<1> HIDE DEF r
<1>4. n \in Stacks /\ n[t] = r /\ \A u \in Threads : u # t => n[u] = m[u]
  BY <1>2, PutFacts
<1> HIDE DEF n
<1>5. Grows(m, n, t, f)
  BY <1>2, <1>4 DEF Grows
<1> QED
  BY <1>5 DEF n, r

\* ... returns, ...
LEMMA PutShrinks ==
  ASSUME NEW m \in Stacks, NEW t \in Threads, m[t] # <<>>
  PROVE  Shrinks(m, Put(m, t, Rest(m[t])), t)
<1>1. m[t] \in Seq(Frames)
  BY DEF Stacks
<1> DEFINE s == m[t]
           r == Rest(m[t])
           n == Put(m, t, r)
<1>2. /\ r \in Seq(Frames) /\ Len(r) = Len(s) - 1 /\ Len(s) \in 1 .. Len(s)
      /\ \A k \in 1 .. Len(r) : r[k] = s[k]
      /\ \A k \in 1 .. Len(s) : k \in 1 .. Len(r) \/ k = Len(s)
  BY <1>1, TopFacts
<1> HIDE DEF r
<1>4. n \in Stacks /\ n[t] = r /\ \A u \in Threads : u # t => n[u] = m[u]
  BY <1>2, PutFacts
<1> HIDE DEF n
<1>5. Shrinks(m, n, t)
  BY <1>2, <1>4 DEF Shrinks
<1> QED
  BY <1>5 DEF n, r

\* ... or fails with those that create types above the i-th.
LEMMA PutCuts ==
  ASSUME NEW m \in Stacks, NEW t \in Threads, NEW i \in 0 .. Len(m[t]),
         i > 0 => m[t][i].op = "resolve",
         \A j \in i + 1 .. Len(m[t]) : m[t][j].op = "get"
  PROVE  Cuts(m, Put(m, t, Failed(m[t], i)), t, i)
<1>1. m[t] \in Seq(Frames)
  BY DEF Stacks
<1> DEFINE s == m[t]
           r == Failed(m[t], i)
           n == Put(m, t, r)
<1>2. /\ r \in Seq(Frames) /\ Len(r) = i
      /\ \A k \in 1 .. i : SameCall(s[k], r[k])
      /\ \A k \in 1 .. i : k # i => r[k] = s[k]
      /\ i > 0 => r[i].at \in {"callback", "member"}
      /\ i \in Nat
  BY <1>1, FailedFacts
<1> HIDE DEF r
<1>3. i > 0 => i \in 1 .. i
  BY <1>2
<1>4. n \in Stacks /\ n[t] = r /\ \A u \in Threads : u # t => n[u] = m[u]
  BY <1>2, PutFacts
<1> HIDE DEF n
<1>5. Cuts(m, n, t, i)
  BY <1>2, <1>3, <1>4 DEF Cuts
<1> QED
  BY <1>5 DEF n, r

-----------------------------------------------------------------------------
(* What a request for the type of c comes to; n are the calls that make it *)

\* JType_ResolveType begins, ...
ResolveCall(c) ==
  [op |-> "resolve", class |-> c, member |-> 1, use |-> 1, at |-> "base"]

\* ... JType_GetType begins.
GetCall(c, r) == [op |-> "get", class |-> c, resolve |-> r, at |-> "super"]

\* There is nothing to do, and Python code may get the type.
Returns(t, c, n) ==
  /\ stack' = n
  /\ \/ given' = given
     \/ /\ PythonAbove(n[t])
        /\ c \in Classes /\ c \in resolved \cup resolving
        /\ given' = [given EXCEPT ![t] = c]
  /\ UNCHANGED <<registered, slotted, mro, resolving, resolved, dict, gil, failures>>

\* JType_ResolveType begins to resolve the type.
Resolves(t, c, n) ==
  /\ c \in Classes /\ c \notin resolved \cup resolving
  /\ Grows(n, stack', t, ResolveCall(c))
  /\ resolving' = resolving \cup {c}
  /\ UNCHANGED <<registered, slotted, mro, resolved, dict, gil, given, failures>>

\* JType_GetType registers a new type.
Creates(t, c, r, n) ==
  /\ c \in Classes /\ c \notin registered
  /\ Grows(n, stack', t, GetCall(c, r))
  /\ registered' = registered \cup {c}
  /\ slotted' = slotted \ {c}
  /\ mro' = [mro EXCEPT ![c] = <<>>]
  /\ resolving' = resolving \ {c}
  /\ resolved' = resolved \ {c}
  /\ dict' = [dict EXCEPT ![c] = {}]
  /\ UNCHANGED <<gil, given, failures>>

\* An allocation fails, and with it the calls above the i-th of t.
Fails(t, n) ==
  /\ failures < MaxFailures
  /\ failures' = failures + 1
  /\ \E i \in 0 .. Len(n[t]) :
       /\ Cuts(n, stack', t, i)
       /\ registered' = registered \ {n[t][j].class : j \in i + 1 .. Len(n[t])}
  /\ UNCHANGED <<slotted, mro, resolving, resolved, dict, gil, given>>

\* What the calls that begin are like.
LEMMA NewCalls ==
  ASSUME NEW c \in Classes, NEW r \in BOOLEAN
  PROVE  /\ ResolveCall(c) \in ResolveFrames /\ ResolveCall(c) \in Frames
         /\ ResolveCall(c).op = "resolve" /\ ResolveCall(c).class = c
         /\ ResolveCall(c).at = "base" /\ ResolveCall(c).member = 1
         /\ GetCall(c, r) \in GetFrames /\ GetCall(c, r) \in Frames
         /\ GetCall(c, r).op = "get" /\ GetCall(c, r).class = c
         /\ GetCall(c, r).at = "super" /\ GetCall(c, r).resolve = r
<1>1. ResolveCall(c) \in ResolveFrames
  BY 1 \in Nat \ {0} DEF ResolveCall, ResolveFrames
<1>2. GetCall(c, r) \in GetFrames
  BY DEF GetCall, GetFrames
<1>3. /\ ResolveCall(c).op = "resolve" /\ ResolveCall(c).class = c
      /\ ResolveCall(c).at = "base" /\ ResolveCall(c).member = 1
  BY DEF ResolveCall
<1>4. /\ GetCall(c, r).op = "get" /\ GetCall(c, r).class = c
      /\ GetCall(c, r).at = "super"
  BY DEF GetCall
<1>5. GetCall(c, r).resolve = r
  BY DEF GetCall
<1> QED
  BY <1>1, <1>2, <1>3, <1>4, <1>5 DEF Frames

\* Fail does what Fails says, ...
LEMMA FailOutcome ==
  ASSUME stack \in Stacks, NEW t \in Threads, NEW s \in Seq(Frames), Fail(t, s)
  PROVE  Fails(t, Put(stack, t, s))
<1>1. PICK i \in 0 .. Len(s) :
        /\ i > 0 => s[i].op = "resolve"
        /\ \A j \in i + 1 .. Len(s) : s[j].op = "get"
        /\ registered' = registered \ {s[j].class : j \in i + 1 .. Len(s)}
        /\ SetStack(t, IF PythonAbove(SubSeq(s, 1, i)) THEN SubSeq(s, 1, i)
                       ELSE Append(SubSeq(s, 1, i - 1), NextMember(s[i])))
  BY DEF Fail
<1> DEFINE n == Put(stack, t, s)
<1>2. n \in Stacks /\ n[t] = s /\ \A x : Put(n, t, x) = Put(stack, t, x)
  BY PutFacts
<1>3. stack' = Put(stack, t, Failed(s, i))
  BY <1>1 DEF SetStack, Failed, Put
<1>4. stack' = Put(n, t, Failed(n[t], i))
  BY <1>2, <1>3
<1> HIDE DEF n
<1>5. Cuts(n, Put(n, t, Failed(n[t], i)), t, i)
  BY <1>1, <1>2, PutCuts
<1>6. Cuts(n, stack', t, i)
  BY <1>4, <1>5
<1>7. registered' = registered \ {n[t][j].class : j \in i + 1 .. Len(n[t])}
  BY <1>1, <1>2
<1>8. i \in 0 .. Len(n[t])
  BY <1>2
<1>9. /\ failures < MaxFailures /\ failures' = failures + 1
      /\ UNCHANGED <<slotted, mro, resolving, resolved, dict, gil, given>>
  BY DEF Fail
<1>10. Fails(t, n)
  BY <1>6, <1>7, <1>8, <1>9 DEF Fails
<1> QED
  BY <1>10 DEF n

\* ... JType_ResolveType returns at once or begins, ...
LEMMA ResolveTypeOutcome ==
  ASSUME stack \in Stacks, given \in [Threads -> Classes \cup {NoClass}],
         NEW t \in Threads, NEW s \in Seq(Frames),
         NEW c \in Classes, ResolveType(t, c, s),
         UNCHANGED <<registered, slotted, mro, resolved, dict, gil, failures>>
  PROVE  Returns(t, c, Put(stack, t, s)) \/ Resolves(t, c, Put(stack, t, s))
<1> DEFINE n == Put(stack, t, s)
<1>2. n \in Stacks /\ n[t] = s /\ \A x : Put(n, t, x) = Put(stack, t, x)
  BY PutFacts
<1>3. CASE c \in resolved \cup resolving
  <2>1. stack' = n /\ Give(t, c, s) /\ UNCHANGED resolving
    BY <1>3 DEF ResolveType, SetStack, Put
  <2>2. given' = given \/ (PythonAbove(s) /\ given' = [given EXCEPT ![t] = c])
    <3>1. CASE PythonAbove(s)
      BY <2>1, <3>1 DEF Give
    <3>2. CASE ~PythonAbove(s)
      <4>1. given' = [given EXCEPT ![t] = given[t]]
        BY <2>1, <3>2 DEF Give
      <4>2. [given EXCEPT ![t] = given[t]] = given
        OBVIOUS
      <4> QED
        BY <4>1, <4>2
    <3> QED
      BY <3>1, <3>2
  <2> HIDE DEF n
  <2>3. Returns(t, c, n)
    BY <1>2, <1>3, <2>1, <2>2 DEF Returns
  <2> QED
    BY <2>3 DEF n
<1>4. CASE c \notin resolved \cup resolving
  <2>1. /\ stack' = Put(stack, t, Append(s, ResolveCall(c)))
        /\ resolving' = resolving \cup {c}
        /\ UNCHANGED given
    BY <1>4 DEF ResolveType, SetStack, Put, ResolveCall
  <2>2. stack' = Put(n, t, Append(n[t], ResolveCall(c)))
    BY <1>2, <2>1
  <2> HIDE DEF n
  <2>3. Grows(n, stack', t, ResolveCall(c))
    BY <1>2, <2>2, NewCalls, PutGrows
  <2>4. Resolves(t, c, n)
    BY <1>4, <2>1, <2>3 DEF Resolves
  <2> QED
    BY <2>4 DEF n
<1> QED
  BY <1>3, <1>4

\* ... and JType_GetType finds a type, creates one, or fails.
LEMMA GetTypeOutcome ==
  ASSUME stack \in Stacks, given \in [Threads -> Classes \cup {NoClass}],
         NEW t \in Threads, NEW s \in Seq(Frames),
         NEW c \in Classes \cup {NoClass}, NEW r \in BOOLEAN, GetType(t, c, r, s)
  PROVE  \/ c \in registered \cup {NoClass} /\ Returns(t, c, Put(stack, t, s))
         \/ c \in registered /\ r /\ Resolves(t, c, Put(stack, t, s))
         \/ Creates(t, c, r, Put(stack, t, s))
         \/ Fails(t, Put(stack, t, s))
<1> DEFINE n == Put(stack, t, s)
<1>1. n \in Stacks /\ n[t] = s /\ \A x : Put(n, t, x) = Put(stack, t, x)
  BY PutFacts
<1>2. CASE c = NoClass
  BY <1>2 DEF GetType, SetStack, Put, Returns
<1>3. CASE c # NoClass /\ Found(t, c, r, s)
  <2>1. c \in Classes /\ c \in registered
    BY <1>3 DEF Found
  <2>2. UNCHANGED <<registered, slotted, mro, resolved, dict, gil, failures>>
    BY <1>3 DEF Found
  <2>3. CASE r
    <3>1. ResolveType(t, c, s)
      BY <1>3, <2>3 DEF Found
    <3> HIDE DEF n
    <3>2. Returns(t, c, Put(stack, t, s)) \/ Resolves(t, c, Put(stack, t, s))
      BY <2>1, <2>2, <3>1, ResolveTypeOutcome
    <3> QED
      BY <2>1, <2>3, <3>2
  <2>4. CASE ~r
    BY <1>3, <2>1, <2>2, <2>4 DEF Found, SetStack, Put, Returns
  <2> QED
    BY <2>3, <2>4
<1>4. CASE c # NoClass /\ Create(t, c, r, s)
  <2>1. c \in Classes /\ stack' = Put(stack, t, Append(s, GetCall(c, r)))
    BY <1>4 DEF Create, SetStack, Put, GetCall
  <2>2. stack' = Put(n, t, Append(n[t], GetCall(c, r)))
    BY <1>1, <2>1
  <2> HIDE DEF n
  <2>3. Grows(n, stack', t, GetCall(c, r))
    BY <1>1, <2>1, <2>2, NewCalls, PutGrows
  <2>4. Creates(t, c, r, n)
    BY <1>4, <2>1, <2>3 DEF Create, Creates
  <2> QED
    BY <2>4 DEF n
<1>5. CASE c # NoClass /\ Fail(t, s)
  BY <1>5, FailOutcome
<1> QED
  BY <1>2, <1>3, <1>4, <1>5 DEF GetType

-----------------------------------------------------------------------------
(* How t's calls stack become the calls n that ask for the type of c *)

\* jpy.get_type, ...
Calls(t, c, n) ==
  /\ n = stack /\ PythonAbove(stack[t]) /\ (stack[t] # <<>> => Reentrant)
  /\ c \in Classes

\* ... JType_GetType, for the super class or the component class, ...
Inherits(t, c, r, n) ==
  \E f \in GetFrames :
    /\ Steps(stack, n, t, f)
    /\ Top(t) \in GetFrames /\ r = Top(t).resolve /\ f.resolve = Top(t).resolve
    /\ \/ Top(t).at = "super" /\ f.at = "component" /\ c = Super[Top(t).class]
       \/ Top(t).at = "component" /\ f.at = "slots" /\ c = Component[Top(t).class]

\* ... JType_ResolveType, for what a member mentions, ...
Mentions(t, c, r, n) ==
  \E f \in ResolveFrames :
    /\ Steps(stack, n, t, f)
    /\ Top(t) \in ResolveFrames /\ r = FALSE /\ c \in MentionedBy(Top(t).class)
    /\ Top(t).at = "member" /\ f.at = "member" /\ f.member = Top(t).member

\* ... JType_GetType, for the type that it returns, to be resolved, ...
Leaves(t, c, r, n) ==
  /\ Shrinks(stack, n, t)
  /\ Top(t) \in GetFrames /\ Top(t).at = "resolve"
  /\ c = Top(t).class /\ r = Top(t).resolve

\* ... and JType_ResolveType, for the base, to be resolved.
Derives(t, c, n) ==
  \E f \in ResolveFrames :
    /\ Steps(stack, n, t, f)
    /\ Top(t) \in ResolveFrames /\ c = Base(Top(t).class)
    /\ Top(t).at = "base" /\ f.at = "member" /\ f.member = Top(t).member

\* JType_GetType is called, ...
Gets(t, c, r, n) ==
  /\ Calls(t, c, n) \/ Inherits(t, c, r, n) \/ Mentions(t, c, r, n)
  /\ \/ c \in registered \cup {NoClass} /\ Returns(t, c, n)
     \/ c \in registered /\ r /\ Resolves(t, c, n)
     \/ Creates(t, c, r, n)
     \/ Fails(t, n)

\* ... or a type that was created is resolved and returned, ...
Completes(t, c, r, n) ==
  /\ Leaves(t, c, r, n)
  /\ Returns(t, c, n) \/ (r /\ Resolves(t, c, n))

\* ... or the base of a type is resolved first.
GoesUp(t, c, n) ==
  /\ Derives(t, c, n)
  /\ Returns(t, c, n) \/ Resolves(t, c, n)

(* The other steps *)

\* JType_InitSlots or PyType_Ready fails.
Abandons(t) ==
  /\ stack[t] # <<>> /\ Top(t) \in GetFrames /\ Top(t).at = "slots"
  /\ Fails(t, stack)

\* JType_InitSlots makes the type a complete Python type.
Readies(t) ==
  \E f \in GetFrames :
    /\ Steps(stack, stack', t, f)
    /\ Top(t) \in GetFrames /\ Top(t).at = "slots"
    /\ f.at = "resolve" /\ f.resolve = Top(t).resolve
    /\ Ready(Top(t).class, Super[Top(t).class])
    /\ slotted' = slotted \cup {Top(t).class}
    /\ UNCHANGED <<registered, resolving, resolved, dict, gil, given, failures>>

\* A callback begins, or a member is done: added, rejected, or dropped since the type has
\* no dictionary.
MovesOn(t) ==
  \E f \in ResolveFrames :
    /\ Steps(stack, stack', t, f)
    /\ Top(t) \in ResolveFrames
    /\ \/ /\ f.at = "callback" /\ f.member = Top(t).member
          /\ dict' = dict
       \/ /\ f.at = "member" /\ f.member = Top(t).member + 1
          /\ \/ <<Top(t).class, Top(t).member>> \in LeftOut /\ dict' = dict
             \/ /\ <<Top(t).class, Top(t).member>> \notin LeftOut
                /\ HasDict(Top(t).class)
                /\ dict' = [dict EXCEPT ![Top(t).class] = @ \cup {Top(t).member}]
             \/ ~HasDict(Top(t).class) /\ dict' = dict
    /\ UNCHANGED <<registered, slotted, mro, resolving, resolved, gil, given, failures>>

\* The type is resolved.
Finishes(t) ==
  /\ Shrinks(stack, stack', t)
  /\ Top(t) \in ResolveFrames
  /\ Top(t).member > Len(Members[Top(t).class])
  /\ resolving' = resolving \ {Top(t).class}
  /\ resolved' = resolved \cup {Top(t).class}
  /\ \/ given' = given
     \/ /\ PythonAbove(stack'[t])
        /\ given' = [given EXCEPT ![t] = Top(t).class]
  /\ UNCHANGED <<registered, slotted, mro, dict, gil, failures>>

-----------------------------------------------------------------------------

\* What Running says of the innermost call of t.
LEMMA RunningFacts ==
  ASSUME TypeOK, NEW t \in Threads, NEW operation, NEW label, Running(t, operation, label)
  PROVE  /\ stack \in Stacks /\ stack[t] \in Seq(Frames) /\ stack[t] # <<>>
         /\ given \in [Threads -> Classes \cup {NoClass}]
         /\ Top(t) \in Frames /\ Top(t) = stack[t][Len(stack[t])]
         /\ Top(t).op = operation /\ Top(t).at = label
         /\ Top(t).class \in Classes
         /\ operation = "get" => Top(t) \in GetFrames
         /\ operation = "resolve" => Top(t) \in ResolveFrames
         /\ Below(t) = Rest(stack[t]) /\ Below(t) \in Seq(Frames)
         /\ \A f : Append(Below(t), f) = Retop(stack[t], f)
<1>1. stack \in Stacks /\ given \in [Threads -> Classes \cup {NoClass}]
  BY DEF TypeOK, Stacks, Frames
<1>2. stack[t] \in Seq(Frames) /\ stack[t] # <<>> /\ Top(t) = stack[t][Len(stack[t])]
      /\ Top(t).op = operation /\ Top(t).at = label
  BY <1>1 DEF Stacks, Running, Top
<1>3. Top(t) \in Frames /\ Rest(stack[t]) \in Seq(Frames)
  BY <1>2, TopFacts
<1>4. /\ Top(t).class \in Classes
      /\ operation = "get" => Top(t) \in GetFrames
      /\ operation = "resolve" => Top(t) \in ResolveFrames
  BY <1>2, <1>3, FrameFacts
<1>5. Below(t) = Rest(stack[t]) /\ \A f : Append(Below(t), f) = Retop(stack[t], f)
  BY DEF Below, Rest, Retop
<1> QED
  BY <1>1, <1>2, <1>3, <1>4, <1>5

\* The innermost call of t goes on as f, and asks.
LEMMA Asking ==
  ASSUME TypeOK, NEW t \in Threads, NEW operation, NEW label, Running(t, operation, label),
         NEW f \in Frames, SameCall(Top(t), f)
  PROVE  /\ Retop(stack[t], f) \in Seq(Frames)
         /\ Put(stack, t, Retop(stack[t], f)) \in Stacks
         /\ Steps(stack, Put(stack, t, Retop(stack[t], f)), t, f)
<1>1. /\ stack \in Stacks /\ stack[t] \in Seq(Frames) /\ stack[t] # <<>>
      /\ Top(t) = stack[t][Len(stack[t])]
  BY RunningFacts
<1>2. Retop(stack[t], f) \in Seq(Frames)
  BY <1>1, RetopFacts
<1>3. Put(stack, t, Retop(stack[t], f)) \in Stacks
  BY <1>1, <1>2, PutFacts
<1>4. Steps(stack, Put(stack, t, Retop(stack[t], f)), t, f)
  BY <1>1, PutSteps
<1> QED
  BY <1>2, <1>3, <1>4

\* The actions of TypeRegistry in these terms, one by one.
LEMMA CallCase ==
  ASSUME TypeOK, NEW t \in Threads, Call(t)
  PROVE  \E n \in Stacks, c \in Classes \cup {NoClass}, r \in BOOLEAN : Gets(t, c, r, n)
<1>1. PICK c \in Classes, r \in BOOLEAN : GetType(t, c, r, stack[t])
  BY DEF Call
<1>2. stack \in Stacks /\ given \in [Threads -> Classes \cup {NoClass}]
  BY DEF TypeOK, Stacks, Frames
<1>3. stack[t] \in Seq(Frames) /\ Put(stack, t, stack[t]) = stack
  BY <1>2 DEF Stacks, Put
<1>4. Calls(t, c, stack)
  BY DEF Calls, Call
<1>5. c \in Classes \cup {NoClass}
  OBVIOUS
<1>6. \/ c \in registered \cup {NoClass} /\ Returns(t, c, Put(stack, t, stack[t]))
      \/ c \in registered /\ r /\ Resolves(t, c, Put(stack, t, stack[t]))
      \/ Creates(t, c, r, Put(stack, t, stack[t]))
      \/ Fails(t, Put(stack, t, stack[t]))
  BY <1>1, <1>2, <1>3, <1>5, GetTypeOutcome
<1>7. Gets(t, c, r, stack)
  BY <1>3, <1>4, <1>6 DEF Gets
<1> QED
  BY <1>2, <1>5, <1>7

\* JType_InitSuperType asks for the super class.
LEMMA InitSuperTypeCase ==
  ASSUME TypeOK, NEW t \in Threads, InitSuperType(t)
  PROVE  \E n \in Stacks, c \in Classes \cup {NoClass}, r \in BOOLEAN : Gets(t, c, r, n)
<1> DEFINE f == [Top(t) EXCEPT !.at = "component"]
           s == Retop(stack[t], f)
           n == Put(stack, t, s)
           c == Super[Top(t).class]
           r == Top(t).resolve
<1>1. Running(t, "get", "super")
  BY DEF InitSuperType
<1>2. /\ stack \in Stacks /\ given \in [Threads -> Classes \cup {NoClass}]
      /\ Top(t) \in GetFrames /\ Top(t).at = "super" /\ Top(t).class \in Classes
      /\ \A g : Append(Below(t), g) = Retop(stack[t], g)
  BY <1>1, RunningFacts
<1>3. f \in GetFrames /\ SameCall(Top(t), f) /\ f.at = "component" /\ f.resolve = Top(t).resolve
  BY <1>2, GetFrameAt
<1>4. c \in Classes \cup {NoClass} /\ r \in BOOLEAN
  BY <1>2, ClassesAssumption DEF GetFrames
<1>5. GetType(t, c, r, s)
  BY <1>2 DEF InitSuperType, At
<1> HIDE DEF f
<1>6. s \in Seq(Frames) /\ n \in Stacks /\ Steps(stack, n, t, f)
  BY <1>1, <1>3, Asking DEF Frames
<1>7. Inherits(t, c, r, n)
  BY <1>2, <1>3, <1>6 DEF Inherits
<1> HIDE DEF s, c, r
<1>8. \/ c \in registered \cup {NoClass} /\ Returns(t, c, n)
      \/ c \in registered /\ r /\ Resolves(t, c, n)
      \/ Creates(t, c, r, n)
      \/ Fails(t, n)
  BY <1>2, <1>4, <1>5, <1>6, GetTypeOutcome
<1> HIDE DEF n
<1>9. Gets(t, c, r, n)
  BY <1>7, <1>8 DEF Gets
<1> QED
  BY <1>4, <1>6, <1>9

\* JType_InitComponentType asks for the component class.
LEMMA InitComponentTypeCase ==
  ASSUME TypeOK, NEW t \in Threads, InitComponentType(t)
  PROVE  \E n \in Stacks, c \in Classes \cup {NoClass}, r \in BOOLEAN : Gets(t, c, r, n)
<1> DEFINE f == [Top(t) EXCEPT !.at = "slots"]
           s == Retop(stack[t], f)
           n == Put(stack, t, s)
           c == Component[Top(t).class]
           r == Top(t).resolve
<1>1. Running(t, "get", "component")
  BY DEF InitComponentType
<1>2. /\ stack \in Stacks /\ given \in [Threads -> Classes \cup {NoClass}]
      /\ Top(t) \in GetFrames /\ Top(t).at = "component" /\ Top(t).class \in Classes
      /\ \A g : Append(Below(t), g) = Retop(stack[t], g)
  BY <1>1, RunningFacts
<1>3. f \in GetFrames /\ SameCall(Top(t), f) /\ f.at = "slots" /\ f.resolve = Top(t).resolve
  BY <1>2, GetFrameAt
<1>4. c \in Classes \cup {NoClass} /\ r \in BOOLEAN
  BY <1>2, ClassesAssumption DEF GetFrames
<1>5. GetType(t, c, r, s)
  BY <1>2 DEF InitComponentType, At
<1> HIDE DEF f
<1>6. s \in Seq(Frames) /\ n \in Stacks /\ Steps(stack, n, t, f)
  BY <1>1, <1>3, Asking DEF Frames
<1>7. Inherits(t, c, r, n)
  BY <1>2, <1>3, <1>6 DEF Inherits
<1> HIDE DEF s, c, r
<1>8. \/ c \in registered \cup {NoClass} /\ Returns(t, c, n)
      \/ c \in registered /\ r /\ Resolves(t, c, n)
      \/ Creates(t, c, r, n)
      \/ Fails(t, n)
  BY <1>2, <1>4, <1>5, <1>6, GetTypeOutcome
<1> HIDE DEF n
<1>9. Gets(t, c, r, n)
  BY <1>7, <1>8 DEF Gets
<1> QED
  BY <1>4, <1>6, <1>9

\* JType_CreateParamDescriptors asks for what a member mentions.
LEMMA ProcessUseCase ==
  ASSUME TypeOK, NEW t \in Threads, ProcessUse(t)
  PROVE  \E n \in Stacks, c \in Classes \cup {NoClass}, r \in BOOLEAN : Gets(t, c, r, n)
<1> DEFINE f == [Top(t) EXCEPT !.use = @ + 1]
           s == Retop(stack[t], f)
           n == Put(stack, t, s)
           c == Uses(t)[Top(t).use]
<1>1. Running(t, "resolve", "member")
  BY DEF ProcessUse
<1>2. /\ stack \in Stacks /\ given \in [Threads -> Classes \cup {NoClass}]
      /\ Top(t) \in ResolveFrames /\ Top(t).at = "member" /\ Top(t).class \in Classes
      /\ \A g : Append(Below(t), g) = Retop(stack[t], g)
  BY <1>1, RunningFacts
<1>3. f \in ResolveFrames /\ SameCall(Top(t), f) /\ f.at = "member" /\ f.member = Top(t).member
  BY <1>2, ResolveFrameUse
<1>4. c \in Classes /\ c \in MentionedBy(Top(t).class)
  <2> DEFINE k == Top(t).class
             m == Top(t).member
             i == Top(t).use
  <2>1. m \in Nat \ {0} /\ i \in Nat \ {0} /\ k \in Classes
    BY <1>2 DEF ResolveFrames
  <2>2. Members[k] \in Seq(Seq(Classes)) /\ m <= Len(Members[k]) /\ i <= Len(Members[k][m])
    BY <1>2, ClassesAssumption DEF ProcessUse, MemberLeft, Uses
  <2>3. c = Members[k][m][i]
    BY DEF Uses
  <2> HIDE DEF k, m, i, c
  <2>4. m \in 1 .. Len(Members[k])
    BY <2>1, <2>2
  <2>5. Members[k][m] \in Seq(Classes)
    BY <2>2, <2>4
  <2>6. i \in 1 .. Len(Members[k][m])
    BY <2>1, <2>2, <2>5
  <2>7. c \in Classes
    BY <2>3, <2>5, <2>6
  <2>8. c \in MentionedBy(k)
    BY <2>3, <2>4, <2>6, <2>7 DEF MentionedBy
  <2> QED
    BY <2>7, <2>8 DEF k
<1>5. GetType(t, c, FALSE, s)
  BY <1>2 DEF ProcessUse
<1> HIDE DEF f, c
<1>6. s \in Seq(Frames) /\ n \in Stacks /\ Steps(stack, n, t, f)
  BY <1>1, <1>3, Asking DEF Frames
<1>7. Mentions(t, c, FALSE, n)
  BY <1>2, <1>3, <1>4, <1>6 DEF Mentions
<1> HIDE DEF s
<1>8. c \in Classes \cup {NoClass} /\ FALSE \in BOOLEAN
  BY <1>4
<1>9. \/ c \in registered \cup {NoClass} /\ Returns(t, c, n)
      \/ c \in registered /\ FALSE /\ Resolves(t, c, n)
      \/ Creates(t, c, FALSE, n)
      \/ Fails(t, n)
  BY <1>2, <1>5, <1>6, <1>8, GetTypeOutcome
<1> HIDE DEF n
<1>10. Gets(t, c, FALSE, n)
  BY <1>7, <1>9 DEF Gets
<1> QED
  BY <1>6, <1>8, <1>10

\* JType_GetType returns the type that it has created, or resolves it.
LEMMA ReturnTypeCase ==
  ASSUME TypeOK, NEW t \in Threads, ReturnType(t)
  PROVE  \E n \in Stacks, c \in Classes, r \in BOOLEAN : Completes(t, c, r, n)
<1> DEFINE s == Rest(stack[t])
           n == Put(stack, t, s)
           c == Top(t).class
           r == Top(t).resolve
<1>1. Running(t, "get", "resolve")
  BY DEF ReturnType
<1>2. /\ stack \in Stacks /\ given \in [Threads -> Classes \cup {NoClass}]
      /\ Top(t) \in GetFrames /\ Top(t).at = "resolve" /\ c \in Classes
      /\ stack[t] # <<>> /\ Below(t) = s /\ s \in Seq(Frames)
  BY <1>1, RunningFacts
<1>3. r \in BOOLEAN
  BY <1>2 DEF GetFrames
<1>4. Shrinks(stack, n, t) /\ n \in Stacks
  BY <1>2, PutShrinks, PutFacts
<1>5. Leaves(t, c, r, n)
  BY <1>2, <1>4 DEF Leaves
<1>6. UNCHANGED <<registered, slotted, mro, resolved, dict, gil, failures>>
  BY DEF ReturnType
<1>7. CASE r
  <2>1. ResolveType(t, c, s)
    BY <1>2, <1>7 DEF ReturnType
  <2> HIDE DEF s, c
  <2>2. Returns(t, c, n) \/ Resolves(t, c, n)
    BY <1>2, <1>6, <2>1, ResolveTypeOutcome
  <2> HIDE DEF n, r
  <2>3. Completes(t, c, r, n)
    BY <1>5, <1>7, <2>2 DEF Completes
  <2> QED
    BY <1>2, <1>3, <1>4, <2>3
<1>8. CASE ~r
  <2>1. stack' = n /\ UNCHANGED <<resolving, given>>
    BY <1>2, <1>8 DEF ReturnType, SetStack, Put
  <2> HIDE DEF n, r, c
  <2>2. Returns(t, c, n)
    BY <1>6, <2>1 DEF Returns
  <2>3. Completes(t, c, r, n)
    BY <1>5, <2>2 DEF Completes
  <2> QED
    BY <1>2, <1>3, <1>4, <2>3
<1> QED
  BY <1>7, <1>8

\* JType_ResolveType resolves the base.
LEMMA ResolveBaseCase ==
  ASSUME TypeOK, NEW t \in Threads, ResolveBase(t)
  PROVE  \E n \in Stacks, c \in Classes \cup {NoClass} : GoesUp(t, c, n)
<1> DEFINE f == [Top(t) EXCEPT !.at = "member"]
           s == Retop(stack[t], f)
           n == Put(stack, t, s)
           c == Base(Top(t).class)
<1>1. Running(t, "resolve", "base")
  BY DEF ResolveBase
<1>2. /\ stack \in Stacks /\ given \in [Threads -> Classes \cup {NoClass}]
      /\ Top(t) \in ResolveFrames /\ Top(t).at = "base" /\ Top(t).class \in Classes
      /\ \A g : Append(Below(t), g) = Retop(stack[t], g)
  BY <1>1, RunningFacts
<1>3. f \in ResolveFrames /\ SameCall(Top(t), f) /\ f.at = "member" /\ f.member = Top(t).member
  BY <1>2, ResolveFrameAt
<1>4. c \in Classes \cup {NoClass}
  BY <1>2, ClassesAssumption DEF Base
<1>5. At(t, "member") = s
  BY <1>2 DEF At
<1> HIDE DEF f
<1>6. s \in Seq(Frames) /\ n \in Stacks /\ Steps(stack, n, t, f)
  BY <1>1, <1>3, Asking DEF Frames
<1>7. Derives(t, c, n)
  BY <1>2, <1>3, <1>6 DEF Derives
<1>8. UNCHANGED <<registered, slotted, mro, resolved, dict, gil, failures>>
  BY DEF ResolveBase
<1>9. CASE c = NoClass
  <2>1. stack' = n /\ UNCHANGED <<resolving, given>>
    BY <1>5, <1>9 DEF ResolveBase, SetStack, Put
  <2> HIDE DEF n, c
  <2>2. Returns(t, c, n)
    BY <1>8, <2>1 DEF Returns
  <2>3. GoesUp(t, c, n)
    BY <1>7, <2>2 DEF GoesUp
  <2> QED
    BY <1>4, <1>6, <2>3
<1>10. CASE c # NoClass
  <2>1. ResolveType(t, c, s) /\ c \in Classes
    BY <1>4, <1>5, <1>10 DEF ResolveBase
  <2> HIDE DEF s, c
  <2>2. Returns(t, c, n) \/ Resolves(t, c, n)
    BY <1>2, <1>6, <1>8, <2>1, ResolveTypeOutcome
  <2> HIDE DEF n
  <2>3. GoesUp(t, c, n)
    BY <1>7, <2>2 DEF GoesUp
  <2> QED
    BY <1>4, <1>6, <2>3
<1> QED
  BY <1>9, <1>10

\* JType_InitSlots fails, or completes the type.
LEMMA InitSlotsCase ==
  ASSUME TypeOK, NEW t \in Threads, InitSlots(t)
  PROVE  Abandons(t) \/ Readies(t)
<1> DEFINE f == [Top(t) EXCEPT !.at = "resolve"]
           s == Retop(stack[t], f)
           n == Put(stack, t, s)
<1>1. Running(t, "get", "slots")
  BY DEF InitSlots
<1>2. /\ stack \in Stacks /\ stack[t] \in Seq(Frames) /\ stack[t] # <<>>
      /\ Top(t) \in GetFrames /\ Top(t).at = "slots" /\ Top(t).class \in Classes
      /\ \A g : Append(Below(t), g) = Retop(stack[t], g)
  BY <1>1, RunningFacts
<1>3. f \in GetFrames /\ SameCall(Top(t), f) /\ f.at = "resolve" /\ f.resolve = Top(t).resolve
  BY <1>2, GetFrameAt
<1>5. At(t, "resolve") = s
  BY <1>2 DEF At
<1>4. CASE Fail(t, stack[t])
  <2>1. Fails(t, Put(stack, t, stack[t]))
    BY <1>2, <1>4, FailOutcome
  <2>2. Put(stack, t, stack[t]) = stack
    BY <1>2 DEF Put, Stacks
  <2> QED
    BY <1>2, <2>1, <2>2 DEF Abandons
<1>6. CASE ~Fail(t, stack[t])
  <2>1. /\ Ready(Top(t).class, Super[Top(t).class])
        /\ slotted' = slotted \cup {Top(t).class}
        /\ stack' = n
        /\ UNCHANGED <<registered, resolving, resolved, dict, gil, given, failures>>
    BY <1>5, <1>6 DEF InitSlots, SetStack, Put
  <2> HIDE DEF f
  <2>2. Steps(stack, stack', t, f)
    BY <1>1, <1>3, <2>1, Asking DEF Frames
  <2> QED
    BY <1>2, <1>3, <2>1, <2>2 DEF Readies
<1> QED
  BY <1>4, <1>6

\* A member that is added, and the calls that go on with the next one.
LEMMA AddMemberFacts ==
  ASSUME TypeOK, NEW t \in Threads, AddMember(t)
  PROVE  /\ stack' = [stack EXCEPT ![t] = Append(Below(t), NextMember(Top(t)))]
         /\ \/ /\ HasDict(Top(t).class)
               /\ <<Top(t).class, Top(t).member>> \notin Variables
               /\ dict' = [dict EXCEPT ![Top(t).class] = @ \cup {Top(t).member}]
            \/ <<Top(t).class, Top(t).member>> \in Variables /\ dict' = dict
            \/ ~HasDict(Top(t).class) /\ dict' = dict
<1>1. stack' = [stack EXCEPT ![t] = Append(Below(t), NextMember(Top(t)))]
  BY DEF AddMember, SetStack
<1>2. CASE HasDict(Top(t).class) /\ <<Top(t).class, Top(t).member>> \notin Variables
  BY <1>1, <1>2 DEF AddMember
<1>3. CASE ~(HasDict(Top(t).class) /\ <<Top(t).class, Top(t).member>> \notin Variables)
  BY <1>1, <1>3 DEF AddMember
<1> QED
  BY <1>2, <1>3

\* A member is offered to the callback, added, rejected or left out.
LEMMA MemberCase ==
  ASSUME TypeOK, NEW t \in Threads, AcceptMember(t) \/ CallbackReturns(t)
  PROVE  MovesOn(t)
<1> DEFINE f == [Top(t) EXCEPT !.at = "callback"]
           g == NextMember(Top(t))
           p == <<Top(t).class, Top(t).member>>
<1>1. PICK label \in {"member", "callback"} : Running(t, "resolve", label)
  BY DEF AcceptMember, CallbackReturns
<1>2. /\ stack \in Stacks
      /\ Top(t) \in ResolveFrames /\ Top(t).class \in Classes
      /\ \A x : Append(Below(t), x) = Retop(stack[t], x)
  BY <1>1, RunningFacts
<1>3. f \in ResolveFrames /\ SameCall(Top(t), f) /\ f.at = "callback" /\ f.member = Top(t).member
  BY <1>2, ResolveFrameAt
<1>4. g \in ResolveFrames /\ SameCall(Top(t), g) /\ g.at = "member" /\ g.member = Top(t).member + 1
  BY <1>2, NextMemberFrame
<1>5. At(t, "callback") = Retop(stack[t], f) /\ Append(Below(t), g) = Retop(stack[t], g)
  BY <1>2 DEF At
<1>6. UNCHANGED <<registered, slotted, mro, resolving, resolved, gil, given, failures>>
  BY DEF AcceptMember, CallbackReturns
<1>7. p \in Rejected => p \notin Fields /\ Top(t).class \in Hooked
  BY ClassesAssumption
<1>8. \/ stack' = Put(stack, t, Retop(stack[t], f)) /\ dict' = dict
      \/ stack' = Put(stack, t, Retop(stack[t], g)) /\ p \in Rejected /\ dict' = dict
      \/ AddMember(t) /\ p \notin Rejected
  <2>1. CASE AcceptMember(t)
    <3>1. CASE Top(t).class \in Hooked /\ p \notin Fields
      BY <1>5, <2>1, <3>1 DEF AcceptMember, SetStack, Put
    <3>2. CASE ~(Top(t).class \in Hooked /\ p \notin Fields)
      BY <1>7, <2>1, <3>2 DEF AcceptMember
    <3> QED
      BY <3>1, <3>2
  <2>2. CASE CallbackReturns(t)
    <3>1. CASE p \in Rejected
      BY <1>5, <2>2, <3>1 DEF CallbackReturns, SetStack, Put
    <3>2. CASE p \notin Rejected
      BY <2>2, <3>2 DEF CallbackReturns
    <3> QED
      BY <3>1, <3>2
  <2> QED
    BY <2>1, <2>2
<1>9. CASE stack' = Put(stack, t, Retop(stack[t], f)) /\ dict' = dict
  <2> HIDE DEF f
  <2>1. Steps(stack, stack', t, f)
    BY <1>1, <1>3, <1>9, Asking DEF Frames
  <2> QED
    BY <1>2, <1>3, <1>6, <1>9, <2>1 DEF MovesOn
<1>10. ASSUME stack' = Put(stack, t, Retop(stack[t], g)),
              \/ p \in LeftOut /\ dict' = dict
              \/ /\ p \notin LeftOut
                 /\ HasDict(Top(t).class)
                 /\ dict' = [dict EXCEPT ![Top(t).class] = @ \cup {Top(t).member}]
              \/ ~HasDict(Top(t).class) /\ dict' = dict
       PROVE  MovesOn(t)
  <2> HIDE DEF g
  <2>1. Steps(stack, stack', t, g)
    BY <1>1, <1>4, <1>10, Asking DEF Frames
  <2> QED
    BY <1>2, <1>4, <1>6, <1>10, <2>1 DEF MovesOn
<1>11. CASE AddMember(t) /\ p \notin Rejected
  <2>1. stack' = Put(stack, t, Retop(stack[t], g))
    BY <1>5, <1>11, AddMemberFacts DEF Put
  <2>2. \/ /\ HasDict(Top(t).class)
           /\ p \notin LeftOut
           /\ dict' = [dict EXCEPT ![Top(t).class] = @ \cup {Top(t).member}]
        \/ p \in LeftOut /\ dict' = dict
        \/ ~HasDict(Top(t).class) /\ dict' = dict
    BY <1>11, AddMemberFacts DEF LeftOut
  <2> HIDE DEF g
  <2> QED
    BY <1>10, <1>11, <2>1, <2>2
<1>12. CASE stack' = Put(stack, t, Retop(stack[t], g)) /\ p \in Rejected /\ dict' = dict
  BY <1>10, <1>12 DEF LeftOut
<1> HIDE DEF f, g, p
<1> QED
  BY <1>8, <1>9, <1>11, <1>12

\* After the last member the type is resolved.
LEMMA FinishResolveCase ==
  ASSUME TypeOK, NEW t \in Threads, FinishResolve(t)
  PROVE  Finishes(t)
<1> DEFINE c == Top(t).class
<1>1. Running(t, "resolve", "member")
  BY DEF FinishResolve
<1>2. /\ stack \in Stacks /\ stack[t] # <<>> /\ stack[t] \in Seq(Frames)
      /\ given \in [Threads -> Classes \cup {NoClass}]
      /\ Top(t) \in ResolveFrames /\ c \in Classes
      /\ Below(t) = Rest(stack[t]) /\ Below(t) \in Seq(Frames)
  BY <1>1, RunningFacts
<1>3. stack' = Put(stack, t, Rest(stack[t]))
  BY <1>2 DEF FinishResolve, SetStack, Put
<1>4. Shrinks(stack, stack', t) /\ stack'[t] = Below(t)
  BY <1>2, <1>3, PutShrinks, PutFacts
<1>5. Top(t).member > Len(Members[c])
  <2>1. Top(t).member \in Nat
    BY <1>2 DEF ResolveFrames
  <2>2. Members[c] \in Seq(Seq(Classes))
    BY <1>2, ClassesAssumption
  <2>3. Len(Members[c]) \in Nat
    BY <2>2
  <2>4. ~(Top(t).member <= Len(Members[c]))
    BY DEF FinishResolve, MemberLeft
  <2> HIDE DEF c
  <2> QED
    BY <2>1, <2>3, <2>4
<1>6. /\ resolving' = resolving \ {c} /\ resolved' = resolved \cup {c}
      /\ Give(t, c, Below(t))
      /\ UNCHANGED <<registered, slotted, mro, dict, gil, failures>>
  BY DEF FinishResolve
<1>7. given' = given \/ (PythonAbove(stack'[t]) /\ given' = [given EXCEPT ![t] = c])
  <2>1. CASE PythonAbove(Below(t))
    BY <1>4, <1>6, <2>1 DEF Give
  <2>2. CASE ~PythonAbove(Below(t))
    <3>1. given' = [given EXCEPT ![t] = given[t]]
      BY <1>6, <2>2 DEF Give
    <3>2. [given EXCEPT ![t] = given[t]] = given
      BY <1>2
    <3> QED
      BY <3>1, <3>2
  <2> QED
    BY <2>1, <2>2
<1> QED
  BY <1>2, <1>4, <1>5, <1>6, <1>7 DEF Finishes

\* What a step of jpy is, in the terms of the calls that it makes and ends.
LEMMA NextCases ==
  ASSUME TypeOK, [Next]_vars
  PROVE  \/ /\ UNCHANGED <<registered, slotted, mro, resolving, resolved, dict, stack,
                           given, failures>>
            /\ gil' \in Threads
         \/ \E t \in Threads :
              \/ \E n \in Stacks, c \in Classes \cup {NoClass}, r \in BOOLEAN : Gets(t, c, r, n)
              \/ \E n \in Stacks, c \in Classes, r \in BOOLEAN : Completes(t, c, r, n)
              \/ \E n \in Stacks, c \in Classes \cup {NoClass} : GoesUp(t, c, n)
              \/ Abandons(t)
              \/ Readies(t)
              \/ MovesOn(t)
              \/ Finishes(t)
<1>1. CASE UNCHANGED vars
  BY <1>1 DEF vars, TypeOK
<1>2. CASE Next
  <2>1. PICK t \in Threads : Call(t) \/ Switch(t) \/ Work(t)
    BY <1>2 DEF Next
  <2>2. CASE Call(t)
    BY <2>2, CallCase
  <2>3. CASE Switch(t)
    BY <2>3 DEF Switch
  <2>4. CASE Work(t)
    <3>1. CASE InitSuperType(t)
      BY <3>1, InitSuperTypeCase
    <3>2. CASE InitComponentType(t)
      BY <3>2, InitComponentTypeCase
    <3>3. CASE InitSlots(t)
      BY <3>3, InitSlotsCase
    <3>4. CASE ReturnType(t)
      BY <3>4, ReturnTypeCase
    <3>5. CASE ResolveBase(t)
      BY <3>5, ResolveBaseCase
    <3>6. CASE ProcessUse(t)
      BY <3>6, ProcessUseCase
    <3>7. CASE AcceptMember(t) \/ CallbackReturns(t)
      BY <3>7, MemberCase
    <3>8. CASE FinishResolve(t)
      BY <3>8, FinishResolveCase
    <3> QED
      BY <2>4, <3>1, <3>2, <3>3, <3>4, <3>5, <3>6, <3>7, <3>8 DEF Work
  <2> QED
    BY <2>1, <2>2, <2>3, <2>4
<1> QED
  BY <1>1, <1>2

-----------------------------------------------------------------------------
(* Type correctness *)

\* PyType_Ready gives an mro to the class and its base and leaves what is there.
LEMMA ReadyFacts ==
  ASSUME mro \in [Classes -> Seq(Classes)], NEW c \in Classes,
         NEW base \in Classes \cup {NoClass}, Ready(c, base)
  PROVE  /\ mro' \in [Classes -> Seq(Classes)]
         /\ \A d \in Classes : HasDict(d) => mro'[d] = mro[d]
         /\ mro'[c] # <<>>
         /\ base # NoClass => mro'[base] # <<>>
<1> DEFINE baseMro == IF base = NoClass THEN <<>>
                      ELSE IF HasDict(base) THEN mro[base] ELSE <<base>>
           cMro == <<c>> \o baseMro
<1>1. baseMro \in Seq(Classes)
  OBVIOUS
<1>2. base # NoClass => baseMro # <<>>
  BY DEF HasDict
<1>3. base # NoClass /\ HasDict(base) => baseMro = mro[base]
  OBVIOUS
<1>4. mro' = [d \in Classes |-> IF d = base THEN baseMro
                                ELSE IF d = c /\ ~HasDict(c) THEN cMro ELSE mro[d]]
  BY DEF Ready
<1> HIDE DEF baseMro
<1>5. cMro \in Seq(Classes)
  BY <1>1
<1>6. cMro # <<>>
  <2>1. Len(<<c>> \o baseMro) = 1 + Len(baseMro) /\ Len(baseMro) \in Nat
    BY <1>1
  <2> QED
    BY <2>1
<1> HIDE DEF cMro
<1>7. NoClass \notin Classes
  BY ClassesAssumption
<1>8. mro' \in [Classes -> Seq(Classes)]
  BY <1>1, <1>4, <1>5
<1>9. \A d \in Classes : HasDict(d) => mro'[d] = mro[d]
  BY <1>3, <1>4, <1>7
<1>10. mro'[c] # <<>>
  BY <1>2, <1>4, <1>6, <1>7 DEF HasDict
<1>11. base # NoClass => mro'[base] # <<>>
  BY <1>2, <1>4
<1> QED
  BY <1>8, <1>9, <1>10, <1>11

\* The innermost call is for a class, which has a super class or none.
LEMMA TopClass ==
  ASSUME NEW t \in Threads, Top(t) \in GetFrames \/ Top(t) \in ResolveFrames
  PROVE  /\ Top(t).class \in Classes
         /\ Super[Top(t).class] \in Classes \cup {NoClass}
         /\ Top(t) \in GetFrames => Top(t).op = "get"
         /\ Top(t) \in ResolveFrames => Top(t).op = "resolve" /\ Top(t).member \in Nat \ {0}
<1>1. Top(t).class \in Classes
  BY DEF GetFrames, ResolveFrames
<1>2. Super[Top(t).class] \in Classes \cup {NoClass}
  BY <1>1, ClassesAssumption
<1>3. Top(t) \in GetFrames => Top(t).op = "get"
  BY DEF GetFrames
<1>4. Top(t) \in ResolveFrames => Top(t).op = "resolve" /\ Top(t).member \in Nat \ {0}
  BY DEF ResolveFrames
<1> QED
  BY <1>1, <1>2, <1>3, <1>4

\* TypeOK, with a name for the frames.
LEMMA TypeOKStacks ==
  TypeOK <=> /\ registered \subseteq Classes
             /\ slotted \subseteq Classes
             /\ mro \in [Classes -> Seq(Classes)]
             /\ resolving \subseteq Classes
             /\ resolved \subseteq Classes
             /\ dict \in [Classes -> SUBSET (Nat \ {0})]
             /\ stack \in Stacks
             /\ gil \in Threads
             /\ given \in [Threads -> Classes \cup {NoClass}]
             /\ failures \in 0 .. MaxFailures
  BY DEF TypeOK, Stacks, Frames

\* Whatever a request comes to, the state is typed.
LEMMA RequestTyped ==
  ASSUME TypeOK, NEW t \in Threads, NEW n \in Stacks, NEW c \in Classes \cup {NoClass},
         NEW r \in BOOLEAN,
         Returns(t, c, n) \/ Resolves(t, c, n) \/ Creates(t, c, r, n) \/ Fails(t, n)
  PROVE  TypeOK'
<1>1. CASE Returns(t, c, n)
  <2>1. given' \in [Threads -> Classes \cup {NoClass}]
    BY <1>1, TypeOKStacks DEF Returns
  <2> QED
    BY <1>1, <2>1, TypeOKStacks DEF Returns, TypeOK, Stacks, Frames
<1>2. CASE Resolves(t, c, n)
  <2>1. stack' \in Stacks
    BY <1>2 DEF Resolves, Grows
  <2> QED
    BY <1>2, <2>1 DEF Resolves, TypeOK, Stacks, Frames
<1>3. CASE Creates(t, c, r, n)
  <2>1. stack' \in Stacks
    BY <1>3 DEF Creates, Grows
  <2>2. mro' \in [Classes -> Seq(Classes)] /\ dict' \in [Classes -> SUBSET (Nat \ {0})]
    <3>1. <<>> \in Seq(Classes)
      OBVIOUS
    <3> QED
      BY <1>3, <3>1 DEF Creates, TypeOK
  <2> QED
    BY <1>3, <2>1, <2>2 DEF Creates, TypeOK, Stacks, Frames
<1>4. CASE Fails(t, n)
  <2>1. stack' \in Stacks
    BY <1>4 DEF Fails, Cuts
  <2>2. registered' \subseteq Classes
    BY <1>4 DEF Fails, TypeOK
  <2>3. failures' \in 0 .. MaxFailures
    BY <1>4, BoundsAssumption DEF Fails, TypeOK
  <2> QED
    BY <1>4, <2>1, <2>2, <2>3 DEF Fails, TypeOK, Stacks, Frames
<1> QED
  BY <1>1, <1>2, <1>3, <1>4

\* TypeOK is inductive alone.
LEMMA StepTyped ==
  ASSUME TypeOK, [Next]_vars
  PROVE  TypeOK'
<1>1. CASE /\ UNCHANGED <<registered, slotted, mro, resolving, resolved, dict, stack,
                          given, failures>>
           /\ gil' \in Threads
  BY <1>1 DEF TypeOK
<1>2. ASSUME NEW t \in Threads, NEW n \in Stacks, NEW c \in Classes \cup {NoClass},
             NEW r \in BOOLEAN, Gets(t, c, r, n)
      PROVE  TypeOK'
  BY <1>2, RequestTyped DEF Gets
<1>3. ASSUME NEW t \in Threads, NEW n \in Stacks, NEW c \in Classes, NEW r \in BOOLEAN,
             Completes(t, c, r, n)
      PROVE  TypeOK'
  BY <1>3, RequestTyped DEF Completes
<1>4. ASSUME NEW t \in Threads, NEW n \in Stacks, NEW c \in Classes \cup {NoClass},
             GoesUp(t, c, n)
      PROVE  TypeOK'
  <2>1. TRUE \in BOOLEAN
    OBVIOUS
  <2> QED
    BY <1>4, <2>1, RequestTyped DEF GoesUp
<1>5. ASSUME NEW t \in Threads, Abandons(t)
      PROVE  TypeOK'
  <2>1. TRUE \in BOOLEAN /\ NoClass \in Classes \cup {NoClass} /\ stack \in Stacks
    BY TypeOKStacks
  <2>2. Fails(t, stack)
    BY <1>5 DEF Abandons
  <2> QED
    BY <2>1, <2>2, RequestTyped
<1>6. ASSUME NEW t \in Threads, Readies(t)
      PROVE  TypeOK'
  <2>1. stack' \in Stacks /\ Top(t) \in GetFrames
    BY <1>6 DEF Readies, Steps
  <2>2. Top(t).class \in Classes /\ Super[Top(t).class] \in Classes \cup {NoClass}
    BY <2>1, TopClass
  <2>3. mro' \in [Classes -> Seq(Classes)]
    BY <1>6, <2>2, ReadyFacts DEF Readies, TypeOK
  <2> QED
    BY <1>6, <2>1, <2>2, <2>3 DEF Readies, TypeOK, Stacks, Frames
<1>7. ASSUME NEW t \in Threads, MovesOn(t)
      PROVE  TypeOK'
  <2>1. stack' \in Stacks /\ Top(t) \in ResolveFrames
    BY <1>7 DEF MovesOn, Steps
  <2>2. Top(t).class \in Classes /\ Top(t).member \in Nat \ {0}
    BY <2>1, TopClass
  <2>3. dict' \in [Classes -> SUBSET (Nat \ {0})]
    <3>1. dict' = dict \/ dict' = [dict EXCEPT ![Top(t).class] = @ \cup {Top(t).member}]
      BY <1>7 DEF MovesOn
    <3> QED
      BY <2>2, <3>1 DEF TypeOK
  <2>4. UNCHANGED <<registered, slotted, mro, resolving, resolved, gil, given, failures>>
    BY <1>7 DEF MovesOn
  <2> QED
    BY <2>1, <2>2, <2>3, <2>4 DEF TypeOK, Stacks, Frames
<1>8. ASSUME NEW t \in Threads, Finishes(t)
      PROVE  TypeOK'
  <2>1. stack' \in Stacks /\ Top(t) \in ResolveFrames
    BY <1>8 DEF Finishes, Shrinks
  <2>2. Top(t).class \in Classes
    BY <2>1, TopClass
  <2>3. given' \in [Threads -> Classes \cup {NoClass}]
    BY <1>8, <2>2 DEF Finishes, TypeOK
  <2> QED
    BY <1>8, <2>1, <2>2, <2>3 DEF Finishes, TypeOK, Stacks, Frames
<1> QED
  BY <1>1, <1>2, <1>3, <1>4, <1>5, <1>6, <1>7, <1>8, NextCases

\* TypeOK holds initially.
LEMMA InitTyped ==
  ASSUME Init
  PROVE  TypeOK
<1>1. stack \in Stacks
  BY DEF Init, Stacks
<1>2. failures \in 0 .. MaxFailures
  BY BoundsAssumption DEF Init
<1>3. mro \in [Classes -> Seq(Classes)]
  <2>1. <<>> \in Seq(Classes)
    OBVIOUS
  <2> QED
    BY <2>1 DEF Init
<1> QED
  BY <1>1, <1>2, <1>3, TypeOKStacks DEF Init

-----------------------------------------------------------------------------
(* The calls of all threads *)

\* FrameOf for the calls stk.
CallOf(stk, c, operation) ==
  \E t \in Threads : \E i \in 1 .. Len(stk[t]) :
    stk[t][i].op = operation /\ stk[t][i].class = c

\* No two calls do the same for the same class.
OneCallEach(stk, operation) ==
  \A t, u \in Threads : \A i \in 1 .. Len(stk[t]), j \in 1 .. Len(stk[u]) :
    /\ stk[t][i].op = operation /\ stk[u][j].op = operation
    /\ stk[t][i].class = stk[u][j].class
    => t = u /\ i = j

\* The calls m are among the calls n.
Within(m, n) ==
  \A u \in Threads : \A i \in 1 .. Len(m[u]) :
    i \in 1 .. Len(n[u]) /\ SameCall(m[u][i], n[u][i])

\* All calls are frames.
LEMMA StackFrame ==
  ASSUME NEW m \in Stacks, NEW u \in Threads
  PROVE  /\ m[u] \in Seq(Frames) /\ Len(m[u]) \in Nat
         /\ \A i \in 1 .. Len(m[u]) : m[u][i] \in Frames
<1>1. m[u] \in Seq(Frames)
  BY DEF Stacks
<1> QED
  BY <1>1

\* Fewer calls do not repeat each other either.
LEMMA WithinOneCall ==
  ASSUME NEW m \in Stacks, NEW n \in Stacks, Within(n, m), NEW operation, OneCallEach(m, operation)
  PROVE  OneCallEach(n, operation)
<1> SUFFICES ASSUME NEW u \in Threads, NEW v \in Threads,
                    NEW i \in 1 .. Len(n[u]), NEW j \in 1 .. Len(n[v]),
                    n[u][i].op = operation, n[v][j].op = operation,
                    n[u][i].class = n[v][j].class
             PROVE  u = v /\ i = j
  BY DEF OneCallEach
<1>1. i \in 1 .. Len(m[u]) /\ SameCall(m[u][i], n[u][i])
  BY DEF Within, SameCall
<1>2. j \in 1 .. Len(m[v]) /\ SameCall(m[v][j], n[v][j])
  BY DEF Within, SameCall
<1>3. /\ m[u][i].op = operation /\ m[v][j].op = operation
      /\ m[u][i].class = m[v][j].class
  BY <1>1, <1>2 DEF SameCall
<1> QED
  BY <1>1, <1>2, <1>3 DEF OneCallEach

\* A call that is there is there among more calls.
LEMMA WithinCallOf ==
  ASSUME NEW m, NEW n, Within(m, n), NEW operation, NEW c, CallOf(m, c, operation)
  PROVE  CallOf(n, c, operation)
  BY DEF Within, CallOf, SameCall

\* When the innermost call goes on, the calls stay the same; ...
LEMMA StepsWithin ==
  ASSUME NEW m \in Stacks, NEW n \in Stacks, NEW t \in Threads, NEW f, Steps(m, n, t, f)
  PROVE  /\ Within(m, n) /\ Within(n, m)
         /\ Len(m[t]) \in 1 .. Len(m[t]) /\ Len(m[t]) \in 1 .. Len(n[t])
         /\ n[t][Len(m[t])] = f /\ SameCall(m[t][Len(m[t])], f)
         /\ Len(n[t]) = Len(m[t])
         /\ \A u \in Threads : \A i \in 1 .. Len(n[u]) :
              /\ i \in 1 .. Len(m[u])
              /\ n[u][i] = m[u][i] \/ (u = t /\ i = Len(m[t]) /\ n[u][i] = f)
<1>1. \A u \in Threads : Len(n[u]) = Len(m[u])
  BY DEF Steps
<1>2. \A u \in Threads : \A i \in 1 .. Len(n[u]) :
        /\ i \in 1 .. Len(m[u])
        /\ n[u][i] = m[u][i] \/ (u = t /\ i = Len(m[t]) /\ n[u][i] = f)
  BY <1>1 DEF Steps
<1>3. /\ Len(m[t]) \in 1 .. Len(m[t]) /\ Len(m[t]) \in 1 .. Len(n[t])
      /\ n[t][Len(m[t])] = f /\ SameCall(m[t][Len(m[t])], f)
  BY <1>1 DEF Steps
<1>4. Within(n, m)
  BY <1>2, <1>3 DEF Within, SameCall
<1>5. Within(m, n)
  BY <1>1, <1>2, <1>3 DEF Within, SameCall
<1> QED
  BY <1>1, <1>2, <1>3, <1>4, <1>5

\* ... when it makes a call, there is one more; ...
LEMMA GrowsWithin ==
  ASSUME NEW m \in Stacks, NEW n \in Stacks, NEW t \in Threads, NEW f, Grows(m, n, t, f)
  PROVE  /\ Within(m, n)
         /\ Len(n[t]) = Len(m[t]) + 1
         /\ Len(m[t]) + 1 \in 1 .. Len(n[t]) /\ n[t][Len(m[t]) + 1] = f
         /\ \A u \in Threads : \A i \in 1 .. Len(m[u]) :
              i \in 1 .. Len(n[u]) /\ n[u][i] = m[u][i]
         /\ \A u \in Threads : \A i \in 1 .. Len(n[u]) :
              \/ i \in 1 .. Len(m[u]) /\ n[u][i] = m[u][i]
              \/ u = t /\ i = Len(m[t]) + 1 /\ n[u][i] = f
<1>1. Len(m[t]) \in Nat
  BY StackFrame
<1>2. Len(n[t]) = Len(m[t]) + 1 /\ n[t][Len(m[t]) + 1] = f
  BY DEF Grows
<1>3. \A u \in Threads : \A i \in 1 .. Len(m[u]) :
        i \in 1 .. Len(n[u]) /\ n[u][i] = m[u][i]
  <2>1. \A i \in 1 .. Len(m[t]) : i \in 1 .. Len(n[t])
    BY <1>1, <1>2
  <2> QED
    BY <2>1 DEF Grows
<1>4. \A i \in 1 .. Len(n[t]) : i \in 1 .. Len(m[t]) \/ i = Len(m[t]) + 1
  BY <1>1, <1>2
<1>5. \A u \in Threads : \A i \in 1 .. Len(n[u]) :
        \/ i \in 1 .. Len(m[u]) /\ n[u][i] = m[u][i]
        \/ u = t /\ i = Len(m[t]) + 1 /\ n[u][i] = f
  BY <1>2, <1>3, <1>4 DEF Grows
<1>6. Within(m, n)
  BY <1>3 DEF Within, SameCall
<1>7. Len(m[t]) + 1 \in 1 .. Len(n[t])
  BY <1>1, <1>2
<1> QED
  BY <1>2, <1>3, <1>5, <1>6, <1>7

\* A call that nobody makes can begin.
LEMMA GrowsOneCall ==
  ASSUME NEW m \in Stacks, NEW n \in Stacks, NEW t \in Threads, NEW f, Grows(m, n, t, f),
         NEW operation, OneCallEach(m, operation),
         f.op = operation => ~CallOf(m, f.class, operation)
  PROVE  OneCallEach(n, operation)
<1>1. \A u \in Threads : \A i \in 1 .. Len(n[u]) :
        \/ i \in 1 .. Len(m[u]) /\ n[u][i] = m[u][i]
        \/ u = t /\ i = Len(m[t]) + 1 /\ n[u][i] = f
  BY GrowsWithin
<1> SUFFICES ASSUME NEW u \in Threads, NEW v \in Threads,
                    NEW i \in 1 .. Len(n[u]), NEW j \in 1 .. Len(n[v]),
                    n[u][i].op = operation, n[v][j].op = operation,
                    n[u][i].class = n[v][j].class
             PROVE  u = v /\ i = j
  BY DEF OneCallEach
<1>2. CASE i \in 1 .. Len(m[u]) /\ n[u][i] = m[u][i] /\ j \in 1 .. Len(m[v]) /\ n[v][j] = m[v][j]
  BY <1>2 DEF OneCallEach
<1>3. ~(i \in 1 .. Len(m[u]) /\ n[u][i] = m[u][i] /\ n[v][j] = f)
  BY DEF CallOf
<1>4. ~(j \in 1 .. Len(m[v]) /\ n[v][j] = m[v][j] /\ n[u][i] = f)
  BY DEF CallOf
<1> QED
  BY <1>1, <1>2, <1>3, <1>4

\* The call that begins is there.
LEMMA GrowsCallOf ==
  ASSUME NEW m \in Stacks, NEW n \in Stacks, NEW t \in Threads, NEW f, Grows(m, n, t, f)
  PROVE  CallOf(n, f.class, f.op)
  BY GrowsWithin DEF CallOf

\* ... when it returns, one less; ...
LEMMA ShrinksWithin ==
  ASSUME NEW m \in Stacks, NEW n \in Stacks, NEW t \in Threads, Shrinks(m, n, t)
  PROVE  /\ Within(n, m)
         /\ Len(m[t]) \in 1 .. Len(m[t])
         /\ \A u \in Threads : \A i \in 1 .. Len(n[u]) :
              i \in 1 .. Len(m[u]) /\ n[u][i] = m[u][i] /\ (u = t => i # Len(m[t]))
         /\ \A u \in Threads : \A i \in 1 .. Len(m[u]) :
              i \in 1 .. Len(n[u]) \/ (u = t /\ i = Len(m[t]))
<1>1. Len(m[t]) \in Nat
  BY StackFrame
<1>2. Len(n[t]) = Len(m[t]) - 1 /\ Len(m[t]) \in 1 .. Len(m[t])
  BY DEF Shrinks
<1>3. \A i \in 1 .. Len(n[t]) : i \in 1 .. Len(m[t]) /\ i # Len(m[t])
  BY <1>1, <1>2
<1>4. \A i \in 1 .. Len(m[t]) : i \in 1 .. Len(n[t]) \/ i = Len(m[t])
  BY <1>1, <1>2
<1>5. \A u \in Threads : \A i \in 1 .. Len(n[u]) :
        i \in 1 .. Len(m[u]) /\ n[u][i] = m[u][i] /\ (u = t => i # Len(m[t]))
  BY <1>3 DEF Shrinks
<1>6. \A u \in Threads : \A i \in 1 .. Len(m[u]) :
        i \in 1 .. Len(n[u]) \/ (u = t /\ i = Len(m[t]))
  BY <1>4 DEF Shrinks
<1>7. Within(n, m)
  BY <1>5 DEF Within, SameCall
<1> QED
  BY <1>2, <1>5, <1>6, <1>7

\* A call that returns is the only one that ends.
LEMMA ShrinksCallOf ==
  ASSUME NEW m \in Stacks, NEW n \in Stacks, NEW t \in Threads, Shrinks(m, n, t),
         NEW operation, NEW c, CallOf(m, c, operation),
         ~(m[t][Len(m[t])].op = operation /\ m[t][Len(m[t])].class = c)
  PROVE  CallOf(n, c, operation)
<1>1. PICK u \in Threads : \E i \in 1 .. Len(m[u]) :
        m[u][i].op = operation /\ m[u][i].class = c
  BY DEF CallOf
<1>2. PICK i \in 1 .. Len(m[u]) : m[u][i].op = operation /\ m[u][i].class = c
  BY <1>1
<1>3. i \in 1 .. Len(n[u])
  BY <1>2, ShrinksWithin
<1>4. n[u][i] = m[u][i]
  BY <1>3, ShrinksWithin
<1> QED
  BY <1>2, <1>3, <1>4 DEF CallOf

\* ... and when it fails, the calls above the i-th are gone.
LEMMA CutsWithin ==
  ASSUME NEW m \in Stacks, NEW n \in Stacks, NEW t \in Threads, NEW l, Cuts(m, n, t, l)
  PROVE  /\ Within(n, m)
         /\ l \in Nat /\ l <= Len(m[t]) /\ Len(m[t]) \in Nat /\ Len(n[t]) = l
         /\ \A u \in Threads : \A i \in 1 .. Len(n[u]) :
              /\ i \in 1 .. Len(m[u])
              /\ \/ n[u][i] = m[u][i]
                 \/ u = t /\ i = l /\ m[u][i].op = "resolve" /\ n[u][i].op = "resolve"
         /\ \A u \in Threads : \A i \in 1 .. Len(m[u]) :
              i \in 1 .. Len(n[u]) \/ (u = t /\ i \in l + 1 .. Len(m[t]))
         /\ \A i \in l + 1 .. Len(m[t]) : i \in 1 .. Len(m[t]) /\ m[t][i].op = "get"
<1>1. Len(m[t]) \in Nat
  BY StackFrame
<1>2. Len(n[t]) = l /\ l \in 0 .. Len(m[t])
  BY DEF Cuts
<1>3. l \in Nat /\ l <= Len(m[t])
  BY <1>1, <1>2
<1>4. \A i \in 1 .. Len(n[t]) : i \in 1 .. Len(m[t]) /\ (i = l => l > 0)
  BY <1>1, <1>2
<1>5. \A i \in 1 .. Len(m[t]) : i \in 1 .. Len(n[t]) \/ i \in l + 1 .. Len(m[t])
  BY <1>1, <1>2
<1>6. \A i \in 1 .. Len(n[t]) :
        \/ n[t][i] = m[t][i]
        \/ i = l /\ m[t][i].op = "resolve" /\ n[t][i].op = "resolve"
           /\ SameCall(m[t][i], n[t][i])
  BY <1>2, <1>4 DEF Cuts, SameCall
<1>7. \A u \in Threads : u # t => n[u] = m[u]
  BY DEF Cuts
<1>8. Within(n, m)
  BY <1>4, <1>6, <1>7 DEF Within, SameCall
<1>9. \A u \in Threads : \A i \in 1 .. Len(m[u]) :
        i \in 1 .. Len(n[u]) \/ (u = t /\ i \in l + 1 .. Len(m[t]))
  BY <1>5, <1>7
<1>10. \A i \in l + 1 .. Len(m[t]) : i \in 1 .. Len(m[t]) /\ m[t][i].op = "get"
  <2>1. \A i \in l + 1 .. Len(m[t]) : i \in 1 .. Len(m[t])
    BY <1>1, <1>3
  <2> QED
    BY <2>1 DEF Cuts
<1>11. \A u \in Threads : \A i \in 1 .. Len(n[u]) :
         /\ i \in 1 .. Len(m[u])
         /\ \/ n[u][i] = m[u][i]
            \/ u = t /\ i = l /\ m[u][i].op = "resolve" /\ n[u][i].op = "resolve"
  BY <1>4, <1>6, <1>7
<1> QED
  BY <1>1, <1>2, <1>3, <1>8, <1>9, <1>10, <1>11

\* Only the calls that fail end.
LEMMA CutsCallOf ==
  ASSUME NEW m \in Stacks, NEW n \in Stacks, NEW t \in Threads, NEW l, Cuts(m, n, t, l),
         NEW operation, NEW c, CallOf(m, c, operation),
         operation = "get" => c \notin {m[t][j].class : j \in l + 1 .. Len(m[t])}
  PROVE  CallOf(n, c, operation)
<1>1. PICK u \in Threads : \E i \in 1 .. Len(m[u]) :
        m[u][i].op = operation /\ m[u][i].class = c
  BY DEF CallOf
<1>2. PICK i \in 1 .. Len(m[u]) : m[u][i].op = operation /\ m[u][i].class = c
  BY <1>1
<1>3. i \in 1 .. Len(n[u]) \/ (u = t /\ i \in l + 1 .. Len(m[t]))
  BY <1>2, CutsWithin
<1>4. ~(u = t /\ i \in l + 1 .. Len(m[t]))
  <2> SUFFICES ASSUME u = t, i \in l + 1 .. Len(m[t])
               PROVE  FALSE
    OBVIOUS
  <2>1. m[t][i].op = "get"
    BY CutsWithin
  <2> QED
    BY <1>2, <2>1
<1>5. Within(n, m)
  BY CutsWithin
<1> QED
  BY <1>2, <1>3, <1>4, <1>5 DEF CallOf, Within, SameCall

-----------------------------------------------------------------------------
(* Registration *)

\* A type that is created is registered, and complete once its creation is about
\* to resolve it, which the innermost call does.
CreatedAreRegistered(stk, reg, slo) ==
  \A u \in Threads : \A i \in 1 .. Len(stk[u]) :
    stk[u][i].op = "get" =>
      /\ stk[u][i].class \in reg
      /\ stk[u][i].at = "resolve" <=> stk[u][i].class \in slo
      /\ stk[u][i].at = "resolve" => i = Len(stk[u])

\* A registered type is complete, or created by a call.
RegisteredAreCreated(stk, reg, slo) ==
  \A c \in reg : c \in slo \/ CallOf(stk, c, "get")

\* Creation and the registry fit together, whatever fails and whoever runs in between.
Registration(stk, reg, slo) ==
  /\ slo \subseteq reg
  /\ CreatedAreRegistered(stk, reg, slo)
  /\ RegisteredAreCreated(stk, reg, slo)
  /\ OneCallEach(stk, "get")

\* No call of t is about to resolve the type that it has created.
NoneReturns(stk, t) ==
  \A i \in 1 .. Len(stk[t]) : stk[t][i].op = "get" => stk[t][i].at # "resolve"

\* This stays so when a call goes on that does not make a type complete.
LEMMA RegistrationSteps ==
  ASSUME NEW m \in Stacks, NEW n \in Stacks, NEW t \in Threads, NEW f, Steps(m, n, t, f),
         NEW reg, NEW slo, Registration(m, reg, slo),
         f.op = "get" => f.at # "resolve" /\ m[t][Len(m[t])].at # "resolve"
  PROVE  Registration(n, reg, slo) /\ NoneReturns(n, t)
<1> DEFINE l == Len(m[t])
           g == m[t][l]
<1>1. /\ l \in 1 .. l /\ SameCall(g, f) /\ Len(n[t]) = l
      /\ \A u \in Threads : \A i \in 1 .. Len(n[u]) :
           /\ i \in 1 .. Len(m[u])
           /\ n[u][i] = m[u][i] \/ (u = t /\ i = l /\ n[u][i] = f)
  BY StepsWithin
<1>2. /\ slo \subseteq reg /\ CreatedAreRegistered(m, reg, slo)
      /\ RegisteredAreCreated(m, reg, slo) /\ OneCallEach(m, "get")
  BY DEF Registration
<1>3. Within(m, n) /\ Within(n, m)
  BY StepsWithin
<1>4. OneCallEach(n, "get")
  BY <1>2, <1>3, WithinOneCall
<1>5. RegisteredAreCreated(n, reg, slo)
  BY <1>2, <1>3, WithinCallOf DEF RegisteredAreCreated
<1>6. f.op = "get" => f.class \in reg /\ f.class \notin slo /\ f.at # "resolve"
  BY <1>1, <1>2 DEF CreatedAreRegistered, SameCall
<1>7. \A u \in Threads : u # t => Len(n[u]) = Len(m[u])
  BY DEF Steps
<1>8. CreatedAreRegistered(n, reg, slo)
  <2> SUFFICES ASSUME NEW u \in Threads, NEW i \in 1 .. Len(n[u]), n[u][i].op = "get"
               PROVE  /\ n[u][i].class \in reg
                      /\ n[u][i].at = "resolve" <=> n[u][i].class \in slo
                      /\ n[u][i].at = "resolve" => i = Len(n[u])
    BY DEF CreatedAreRegistered
  <2>1. CASE n[u][i] = m[u][i]
    <3>1. Len(n[u]) = Len(m[u]) /\ i \in 1 .. Len(m[u])
      BY <1>1, <1>7
    <3> QED
      BY <1>2, <2>1, <3>1 DEF CreatedAreRegistered
  <2>2. CASE n[u][i] = f
    BY <1>6, <2>2
  <2> QED
    BY <1>1, <2>1, <2>2
<1>9. NoneReturns(n, t)
  <2> SUFFICES ASSUME NEW i \in 1 .. Len(n[t]), n[t][i].op = "get"
               PROVE  n[t][i].at # "resolve"
    BY DEF NoneReturns
  <2>1. CASE n[t][i] = f
    BY <1>6, <2>1
  <2>2. CASE n[t][i] # f
    <3>1. i \in 1 .. l /\ n[t][i] = m[t][i]
      BY <1>1, <2>2
    <3>2. i # l
      BY <2>2, <3>1 DEF Steps
    <3> QED
      BY <1>2, <3>1, <3>2 DEF CreatedAreRegistered
  <2> QED
    BY <2>1, <2>2
<1> QED
  BY <1>2, <1>4, <1>5, <1>8, <1>9 DEF Registration

\* JType_InitSlots makes the type complete.
LEMMA RegistrationReadies ==
  ASSUME NEW m \in Stacks, NEW n \in Stacks, NEW t \in Threads, NEW f, Steps(m, n, t, f),
         NEW reg, NEW slo, Registration(m, reg, slo), f.op = "get", f.at = "resolve"
  PROVE  Registration(n, reg, slo \cup {f.class})
<1> DEFINE l == Len(m[t])
           g == m[t][l]
           new == slo \cup {f.class}
<1>1. /\ l \in 1 .. l /\ SameCall(g, f) /\ Len(n[t]) = l
      /\ \A u \in Threads : \A i \in 1 .. Len(n[u]) :
           /\ i \in 1 .. Len(m[u])
           /\ n[u][i] = m[u][i] \/ (u = t /\ i = l /\ n[u][i] = f)
  BY StepsWithin
<1>2. /\ slo \subseteq reg /\ CreatedAreRegistered(m, reg, slo)
      /\ RegisteredAreCreated(m, reg, slo) /\ OneCallEach(m, "get")
  BY DEF Registration
<1>3. Within(m, n) /\ Within(n, m)
  BY StepsWithin
<1>4. OneCallEach(n, "get")
  BY <1>2, <1>3, WithinOneCall
<1>5. RegisteredAreCreated(n, reg, new)
  BY <1>2, <1>3, WithinCallOf DEF RegisteredAreCreated
<1>6. g.op = "get" /\ g.class = f.class /\ f.class \in reg
  BY <1>1, <1>2 DEF CreatedAreRegistered, SameCall
<1>7. \A u \in Threads : Len(n[u]) = Len(m[u])
  BY DEF Steps
<1>8. CreatedAreRegistered(n, reg, new)
  <2> SUFFICES ASSUME NEW u \in Threads, NEW i \in 1 .. Len(n[u]), n[u][i].op = "get"
               PROVE  /\ n[u][i].class \in reg
                      /\ n[u][i].at = "resolve" <=> n[u][i].class \in new
                      /\ n[u][i].at = "resolve" => i = Len(n[u])
    BY DEF CreatedAreRegistered
  <2>1. CASE u = t /\ i = l
    <3>1. n[u][i] = f
      BY <2>1 DEF Steps
    <3> QED
      BY <1>1, <1>6, <2>1, <3>1
  <2>2. CASE ~(u = t /\ i = l)
    <3>1. Len(n[u]) = Len(m[u]) /\ i \in 1 .. Len(m[u]) /\ n[u][i] = m[u][i]
      BY <1>1, <1>7, <2>2
    <3>2. m[u][i].class # f.class
      BY <1>1, <1>2, <1>6, <2>2, <3>1 DEF OneCallEach
    <3> QED
      BY <1>2, <3>1, <3>2 DEF CreatedAreRegistered
  <2> QED
    BY <2>1, <2>2
<1> QED
  BY <1>2, <1>4, <1>5, <1>6, <1>8 DEF Registration

\* A call returns that has created a complete type, or resolved one.
LEMMA RegistrationShrinks ==
  ASSUME NEW m \in Stacks, NEW n \in Stacks, NEW t \in Threads, Shrinks(m, n, t),
         NEW reg, NEW slo, Registration(m, reg, slo),
         m[t][Len(m[t])].op = "get" => m[t][Len(m[t])].at = "resolve"
  PROVE  Registration(n, reg, slo) /\ NoneReturns(n, t)
<1> DEFINE l == Len(m[t])
           g == m[t][l]
<1>1. /\ l \in 1 .. l
      /\ \A u \in Threads : \A i \in 1 .. Len(n[u]) :
           i \in 1 .. Len(m[u]) /\ n[u][i] = m[u][i] /\ (u = t => i # l)
  BY ShrinksWithin
<1>2. /\ slo \subseteq reg /\ CreatedAreRegistered(m, reg, slo)
      /\ RegisteredAreCreated(m, reg, slo) /\ OneCallEach(m, "get")
  BY DEF Registration
<1>3. Within(n, m)
  BY ShrinksWithin
<1>4. OneCallEach(n, "get")
  BY <1>2, <1>3, WithinOneCall
<1>5. RegisteredAreCreated(n, reg, slo)
  <2> SUFFICES ASSUME NEW c \in reg, c \notin slo
               PROVE  CallOf(n, c, "get")
    BY DEF RegisteredAreCreated
  <2>1. CallOf(m, c, "get")
    BY <1>2 DEF RegisteredAreCreated
  <2>2. ~(g.op = "get" /\ g.class = c)
    BY <1>1, <1>2 DEF CreatedAreRegistered
  <2> QED
    BY <2>1, <2>2, ShrinksCallOf
<1>6. \A u \in Threads : u # t => n[u] = m[u]
  BY DEF Shrinks
<1>7. NoneReturns(n, t)
  BY <1>1, <1>2 DEF CreatedAreRegistered, NoneReturns
<1>8. CreatedAreRegistered(n, reg, slo)
  <2> SUFFICES ASSUME NEW u \in Threads, NEW i \in 1 .. Len(n[u]), n[u][i].op = "get"
               PROVE  /\ n[u][i].class \in reg
                      /\ n[u][i].at = "resolve" <=> n[u][i].class \in slo
                      /\ n[u][i].at = "resolve" => i = Len(n[u])
    BY DEF CreatedAreRegistered
  <2>1. /\ m[u][i].class \in reg
        /\ m[u][i].at = "resolve" <=> m[u][i].class \in slo
        /\ m[u][i].at = "resolve" => i = Len(m[u])
        /\ n[u][i] = m[u][i]
    BY <1>1, <1>2 DEF CreatedAreRegistered
  <2>2. CASE u = t
    BY <1>7, <2>1, <2>2 DEF NoneReturns
  <2>3. CASE u # t
    BY <1>6, <2>1, <2>3
  <2> QED
    BY <2>2, <2>3
<1> QED
  BY <1>2, <1>4, <1>5, <1>7, <1>8 DEF Registration

\* A call begins to resolve a type.
LEMMA RegistrationResolves ==
  ASSUME NEW m \in Stacks, NEW n \in Stacks, NEW t \in Threads, NEW f, Grows(m, n, t, f),
         NEW reg, NEW slo, Registration(m, reg, slo), NoneReturns(m, t), f.op = "resolve"
  PROVE  Registration(n, reg, slo)
<1>1. \A u \in Threads : \A i \in 1 .. Len(n[u]) :
        \/ i \in 1 .. Len(m[u]) /\ n[u][i] = m[u][i]
        \/ u = t /\ i = Len(m[t]) + 1 /\ n[u][i] = f
  BY GrowsWithin
<1>2. /\ slo \subseteq reg /\ CreatedAreRegistered(m, reg, slo)
      /\ RegisteredAreCreated(m, reg, slo) /\ OneCallEach(m, "get")
  BY DEF Registration
<1>3. Within(m, n)
  BY GrowsWithin
<1>4. OneCallEach(n, "get")
  BY <1>2, GrowsOneCall
<1>5. RegisteredAreCreated(n, reg, slo)
  BY <1>2, <1>3, WithinCallOf DEF RegisteredAreCreated
<1>6. \A u \in Threads : u # t => n[u] = m[u]
  BY DEF Grows
<1>7. CreatedAreRegistered(n, reg, slo)
  <2> SUFFICES ASSUME NEW u \in Threads, NEW i \in 1 .. Len(n[u]), n[u][i].op = "get"
               PROVE  /\ n[u][i].class \in reg
                      /\ n[u][i].at = "resolve" <=> n[u][i].class \in slo
                      /\ n[u][i].at = "resolve" => i = Len(n[u])
    BY DEF CreatedAreRegistered
  <2>1. i \in 1 .. Len(m[u]) /\ n[u][i] = m[u][i]
    BY <1>1
  <2>2. /\ m[u][i].class \in reg
        /\ m[u][i].at = "resolve" <=> m[u][i].class \in slo
        /\ m[u][i].at = "resolve" => i = Len(m[u])
    BY <1>2, <2>1 DEF CreatedAreRegistered
  <2>3. u = t => n[u][i].at # "resolve"
    BY <2>1 DEF NoneReturns
  <2>4. u # t => Len(n[u]) = Len(m[u])
    BY <1>6
  <2> QED
    BY <2>1, <2>2, <2>3, <2>4
<1> QED
  BY <1>2, <1>4, <1>5, <1>7 DEF Registration

\* A call registers a type and begins to create it.
LEMMA RegistrationCreates ==
  ASSUME NEW m \in Stacks, NEW n \in Stacks, NEW t \in Threads, NEW f, Grows(m, n, t, f),
         NEW reg, NEW slo, Registration(m, reg, slo), NoneReturns(m, t),
         f.op = "get", f.at = "super", f.class \notin reg
  PROVE  Registration(n, reg \cup {f.class}, slo \ {f.class})
<1> DEFINE reg1 == reg \cup {f.class}
           slo1 == slo \ {f.class}
<1>1. \A u \in Threads : \A i \in 1 .. Len(n[u]) :
        \/ i \in 1 .. Len(m[u]) /\ n[u][i] = m[u][i]
        \/ u = t /\ i = Len(m[t]) + 1 /\ n[u][i] = f
  BY GrowsWithin
<1>2. /\ slo \subseteq reg /\ CreatedAreRegistered(m, reg, slo)
      /\ RegisteredAreCreated(m, reg, slo) /\ OneCallEach(m, "get")
  BY DEF Registration
<1>3. Within(m, n) /\ slo1 = slo
  BY <1>2, GrowsWithin
<1>4. OneCallEach(n, "get")
  <2>1. ~CallOf(m, f.class, "get")
    BY <1>2 DEF CallOf, CreatedAreRegistered
  <2> QED
    BY <1>2, <2>1, GrowsOneCall
<1>5. RegisteredAreCreated(n, reg1, slo)
  <2>1. CallOf(n, f.class, f.op)
    BY GrowsCallOf
  <2> QED
    BY <1>2, <1>3, <2>1, WithinCallOf DEF RegisteredAreCreated
<1>6. \A u \in Threads : u # t => n[u] = m[u]
  BY DEF Grows
<1>7. CreatedAreRegistered(n, reg1, slo)
  <2> SUFFICES ASSUME NEW u \in Threads, NEW i \in 1 .. Len(n[u]), n[u][i].op = "get"
               PROVE  /\ n[u][i].class \in reg1
                      /\ n[u][i].at = "resolve" <=> n[u][i].class \in slo
                      /\ n[u][i].at = "resolve" => i = Len(n[u])
    BY DEF CreatedAreRegistered
  <2>1. CASE n[u][i] = f
    BY <1>2, <2>1
  <2>2. CASE i \in 1 .. Len(m[u]) /\ n[u][i] = m[u][i]
    <3>2. /\ m[u][i].class \in reg
          /\ m[u][i].at = "resolve" <=> m[u][i].class \in slo
          /\ m[u][i].at = "resolve" => i = Len(m[u])
      BY <1>2, <2>2 DEF CreatedAreRegistered
    <3>3. u = t => n[u][i].at # "resolve"
      BY <2>2 DEF NoneReturns
    <3>4. u # t => Len(n[u]) = Len(m[u])
      BY <1>6
    <3> QED
      BY <2>2, <3>2, <3>3, <3>4
  <2> QED
    BY <1>1, <2>1, <2>2
<1>8. slo \subseteq reg1
  BY <1>2
<1>9. Registration(n, reg1, slo1)
  BY <1>3, <1>4, <1>5, <1>7, <1>8 DEF Registration
<1> QED
  BY <1>9

\* Calls that fail take their types out of JPy_Types again.
LEMMA RegistrationCuts ==
  ASSUME NEW m \in Stacks, NEW n \in Stacks, NEW t \in Threads, NEW l, Cuts(m, n, t, l),
         NEW reg, NEW slo, Registration(m, reg, slo), NoneReturns(m, t)
  PROVE  Registration(n, reg \ {m[t][j].class : j \in l + 1 .. Len(m[t])}, slo)
<1> DEFINE gone == {m[t][j].class : j \in l + 1 .. Len(m[t])}
<1>1. /\ Within(n, m)
      /\ l \in Nat /\ l <= Len(m[t]) /\ Len(m[t]) \in Nat /\ Len(n[t]) = l
      /\ \A i \in l + 1 .. Len(m[t]) : i \in 1 .. Len(m[t]) /\ m[t][i].op = "get"
  BY CutsWithin
<1>2. /\ slo \subseteq reg /\ CreatedAreRegistered(m, reg, slo)
      /\ RegisteredAreCreated(m, reg, slo) /\ OneCallEach(m, "get")
  BY DEF Registration
<1>3. \A u \in Threads : \A i \in 1 .. Len(n[u]) :
        /\ i \in 1 .. Len(m[u])
        /\ \/ n[u][i] = m[u][i]
           \/ u = t /\ i = l /\ m[u][i].op = "resolve" /\ n[u][i].op = "resolve"
  BY CutsWithin
<1>4. OneCallEach(n, "get")
  BY <1>1, <1>2, WithinOneCall
<1>5. \A c \in gone : c \in reg /\ c \notin slo
  <2> SUFFICES ASSUME NEW j \in l + 1 .. Len(m[t])
               PROVE  m[t][j].class \in reg /\ m[t][j].class \notin slo
    OBVIOUS
  <2>1. j \in 1 .. Len(m[t]) /\ m[t][j].op = "get"
    BY <1>1
  <2> QED
    BY <1>2, <2>1 DEF CreatedAreRegistered, NoneReturns
<1>6. \A u \in Threads : \A i \in 1 .. Len(n[u]) : n[u][i].op = "get" => n[u][i].class \notin gone
  <2> SUFFICES ASSUME NEW u \in Threads, NEW i \in 1 .. Len(n[u]), n[u][i].op = "get",
                      NEW j \in l + 1 .. Len(m[t]), n[u][i].class = m[t][j].class
               PROVE  FALSE
    OBVIOUS
  <2>1. i \in 1 .. Len(m[u]) /\ n[u][i] = m[u][i]
    BY <1>3
  <2>2. j \in 1 .. Len(m[t]) /\ m[t][j].op = "get"
    BY <1>1
  <2>3. u = t /\ i = j
    BY <1>2, <2>1, <2>2 DEF OneCallEach
  <2>4. i \in 1 .. l
    BY <1>1, <2>3
  <2> QED
    BY <1>1, <2>3, <2>4
<1> HIDE DEF gone
<1>7. RegisteredAreCreated(n, reg \ gone, slo)
  <2> SUFFICES ASSUME NEW c \in reg, c \notin gone, c \notin slo
               PROVE  CallOf(n, c, "get")
    BY DEF RegisteredAreCreated
  <2>1. CallOf(m, c, "get")
    BY <1>2 DEF RegisteredAreCreated
  <2> QED
    BY <2>1, CutsCallOf DEF gone
<1>8. \A u \in Threads : u # t => n[u] = m[u]
  BY DEF Cuts
<1>9. CreatedAreRegistered(n, reg \ gone, slo)
  <2> SUFFICES ASSUME NEW u \in Threads, NEW i \in 1 .. Len(n[u]), n[u][i].op = "get"
               PROVE  /\ n[u][i].class \in reg \ gone
                      /\ n[u][i].at = "resolve" <=> n[u][i].class \in slo
                      /\ n[u][i].at = "resolve" => i = Len(n[u])
    BY DEF CreatedAreRegistered
  <2>1. i \in 1 .. Len(m[u]) /\ n[u][i] = m[u][i]
    BY <1>3
  <2>2. /\ m[u][i].class \in reg
        /\ m[u][i].at = "resolve" <=> m[u][i].class \in slo
        /\ m[u][i].at = "resolve" => i = Len(m[u])
    BY <1>2, <2>1 DEF CreatedAreRegistered
  <2>3. u = t => n[u][i].at # "resolve"
    BY <2>1 DEF NoneReturns
  <2>4. u # t => Len(n[u]) = Len(m[u])
    BY <1>8
  <2> QED
    BY <1>6, <2>1, <2>2, <2>3, <2>4
<1>10. slo \subseteq reg \ gone
  BY <1>2, <1>5
<1>11. Registration(n, reg \ gone, slo)
  BY <1>4, <1>7, <1>9, <1>10 DEF Registration
<1> QED
  BY <1>11 DEF gone

\* Who resolves a type goes on with it.
ResolvingHaveCalls(stk, rng) == \A c \in rng : CallOf(stk, c, "resolve")

\* The invariant for any threads, callbacks and failures.
Core ==
  /\ TypeOK
  /\ Registration(stack, registered, slotted)
  /\ ResolvingHaveCalls(stack, resolving)

\* t's innermost call asks for the type of c.
Asks(t, c, r, n) ==
  \/ Calls(t, c, n)
  \/ Inherits(t, c, r, n)
  \/ Mentions(t, c, r, n)
  \/ Leaves(t, c, r, n)
  \/ Derives(t, c, n)

\* The calls that ask are as good as those that are there.
LEMMA AsksCore ==
  ASSUME Core, NEW t \in Threads, NEW n \in Stacks, NEW c, NEW r, Asks(t, c, r, n)
  PROVE  /\ Registration(n, registered, slotted) /\ NoneReturns(n, t)
         /\ ResolvingHaveCalls(n, resolving)
<1>1. /\ stack \in Stacks /\ Registration(stack, registered, slotted)
      /\ ResolvingHaveCalls(stack, resolving) /\ Top(t) = stack[t][Len(stack[t])]
  BY TypeOKStacks DEF Core, Top
<1>2. CASE Calls(t, c, n)
  <2>1. NoneReturns(stack, t)
    <3> SUFFICES ASSUME NEW i \in 1 .. Len(stack[t]), stack[t][i].op = "get",
                        stack[t][i].at = "resolve"
                 PROVE  FALSE
      BY DEF NoneReturns
    <3>1. i = Len(stack[t])
      BY <1>1 DEF Registration, CreatedAreRegistered
    <3>2. stack[t] # <<>>
      <4>1. stack[t] \in Seq(Frames) /\ Len(stack[t]) \in Nat
        BY <1>1, StackFrame
      <4> QED
        BY <4>1
    <3> QED
      BY <1>2, <3>1, <3>2 DEF Calls, PythonAbove
  <2> QED
    BY <1>1, <1>2, <2>1 DEF Calls
<1>3. ASSUME NEW f, Steps(stack, n, t, f),
             f.op = "get" => f.at # "resolve" /\ Top(t).at # "resolve"
      PROVE  /\ Registration(n, registered, slotted) /\ NoneReturns(n, t)
             /\ ResolvingHaveCalls(n, resolving)
  <2>1. Registration(n, registered, slotted) /\ NoneReturns(n, t)
    BY <1>1, <1>3, RegistrationSteps
  <2>2. Within(stack, n)
    BY <1>1, <1>3, StepsWithin
  <2>3. ResolvingHaveCalls(n, resolving)
    BY <1>1, <2>2, WithinCallOf DEF ResolvingHaveCalls
  <2> QED
    BY <2>1, <2>3
<1>4. CASE Inherits(t, c, r, n)
  <2>1. PICK f \in GetFrames : Steps(stack, n, t, f) /\ f.at # "resolve" /\ Top(t).at # "resolve"
    BY <1>4 DEF Inherits
  <2> QED
    BY <1>3, <2>1
<1>5. CASE Mentions(t, c, r, n) \/ Derives(t, c, n)
  <2>1. PICK f \in ResolveFrames : Steps(stack, n, t, f)
    BY <1>5 DEF Mentions, Derives
  <2>2. f.op = "resolve"
    BY DEF ResolveFrames
  <2> QED
    BY <1>3, <2>1, <2>2
<1>6. CASE Leaves(t, c, r, n)
  <2>1. Shrinks(stack, n, t) /\ Top(t).at = "resolve" /\ Top(t).op = "get"
    BY <1>6, TopClass DEF Leaves
  <2>2. Registration(n, registered, slotted) /\ NoneReturns(n, t)
    BY <1>1, <2>1, RegistrationShrinks
  <2>3. ResolvingHaveCalls(n, resolving)
    BY <1>1, <2>1, ShrinksCallOf DEF ResolvingHaveCalls
  <2> QED
    BY <2>2, <2>3
<1> QED
  BY <1>2, <1>4, <1>5, <1>6 DEF Asks

\* What the request comes to is so, too.
LEMMA RequestCore ==
  ASSUME NEW t \in Threads, NEW n \in Stacks, NEW c \in Classes \cup {NoClass},
         NEW r \in BOOLEAN,
         Registration(n, registered, slotted), NoneReturns(n, t),
         ResolvingHaveCalls(n, resolving),
         Returns(t, c, n) \/ Resolves(t, c, n) \/ Creates(t, c, r, n) \/ Fails(t, n)
  PROVE  /\ Registration(stack', registered', slotted')
         /\ ResolvingHaveCalls(stack', resolving')
<1>1. CASE Returns(t, c, n)
  BY <1>1 DEF Returns
<1>2. CASE Resolves(t, c, n)
  <2> DEFINE f == ResolveCall(c)
             new == stack'
  <2>1. /\ Grows(n, new, t, f) /\ new \in Stacks /\ f.op = "resolve" /\ f.class = c
        /\ resolving' = resolving \cup {c}
        /\ registered' = registered /\ slotted' = slotted
    BY <1>2, NewCalls DEF Resolves, Grows
  <2> HIDE DEF f, new
  <2>2. Registration(new, registered, slotted)
    BY <2>1, RegistrationResolves
  <2>3. Within(n, new) /\ CallOf(new, f.class, f.op)
    BY <2>1, GrowsWithin, GrowsCallOf
  <2>4. ResolvingHaveCalls(new, resolving')
    BY <2>1, <2>3, WithinCallOf DEF ResolvingHaveCalls
  <2> QED
    BY <2>1, <2>2, <2>4 DEF new
<1>3. CASE Creates(t, c, r, n)
  <2> DEFINE f == GetCall(c, r)
             new == stack'
  <2>1. /\ Grows(n, new, t, f) /\ new \in Stacks /\ f.op = "get" /\ f.class = c
        /\ f.at = "super" /\ c \notin registered
        /\ resolving' = resolving \ {c}
        /\ registered' = registered \cup {c} /\ slotted' = slotted \ {c}
    BY <1>3, NewCalls DEF Creates, Grows
  <2> HIDE DEF f, new
  <2>2. Registration(new, registered \cup {f.class}, slotted \ {f.class})
    BY <2>1, RegistrationCreates
  <2>3. Within(n, new)
    BY <2>1, GrowsWithin
  <2>4. ResolvingHaveCalls(new, resolving')
    BY <2>1, <2>3, WithinCallOf DEF ResolvingHaveCalls
  <2> QED
    BY <2>1, <2>2, <2>4 DEF new
<1>4. CASE Fails(t, n)
  <2> DEFINE new == stack'
  <2>1. PICK i \in 0 .. Len(n[t]) :
          /\ Cuts(n, new, t, i)
          /\ registered' = registered \ {n[t][j].class : j \in i + 1 .. Len(n[t])}
    BY <1>4 DEF Fails
  <2>2. new \in Stacks /\ slotted' = slotted /\ resolving' = resolving
    BY <1>4, <2>1 DEF Fails, Cuts
  <2> HIDE DEF new
  <2>3. Registration(new, registered \ {n[t][j].class : j \in i + 1 .. Len(n[t])}, slotted)
    BY <2>1, <2>2, RegistrationCuts
  <2>4. ResolvingHaveCalls(new, resolving)
    BY <2>1, <2>2, CutsCallOf DEF ResolvingHaveCalls
  <2> QED
    BY <2>1, <2>2, <2>3, <2>4 DEF new
<1> QED
  BY <1>1, <1>2, <1>3, <1>4

\* Every step preserves the invariant.
LEMMA StepCore ==
  ASSUME Core, [Next]_vars
  PROVE  Core'
<1>0. TypeOK' /\ TypeOK /\ stack \in Stacks /\ stack' \in Stacks
  BY StepTyped DEF Core, TypeOK, Stacks, Frames
<1> SUFFICES /\ Registration(stack', registered', slotted')
             /\ ResolvingHaveCalls(stack', resolving')
  BY <1>0 DEF Core, Registration, CreatedAreRegistered, RegisteredAreCreated, OneCallEach,
              CallOf, ResolvingHaveCalls
<1>1. CASE UNCHANGED <<registered, slotted, mro, resolving, resolved, dict, stack,
                       given, failures>>
  BY <1>1 DEF Core
<1>2. ASSUME NEW t \in Threads, NEW n \in Stacks, NEW c \in Classes \cup {NoClass},
             NEW r \in BOOLEAN, Asks(t, c, r, n),
             Returns(t, c, n) \/ Resolves(t, c, n) \/ Creates(t, c, r, n) \/ Fails(t, n)
      PROVE  /\ Registration(stack', registered', slotted')
             /\ ResolvingHaveCalls(stack', resolving')
  <2>1. /\ Registration(n, registered, slotted) /\ NoneReturns(n, t)
        /\ ResolvingHaveCalls(n, resolving)
    BY <1>2, AsksCore
  <2> QED
    BY <1>2, <2>1, RequestCore
<1>3. ASSUME NEW t \in Threads, NEW n \in Stacks, NEW c \in Classes \cup {NoClass},
             NEW r \in BOOLEAN, Gets(t, c, r, n)
      PROVE  /\ Registration(stack', registered', slotted')
             /\ ResolvingHaveCalls(stack', resolving')
  BY <1>2, <1>3 DEF Gets, Asks
<1>4. ASSUME NEW t \in Threads, NEW n \in Stacks, NEW c \in Classes, NEW r \in BOOLEAN,
             Completes(t, c, r, n)
      PROVE  /\ Registration(stack', registered', slotted')
             /\ ResolvingHaveCalls(stack', resolving')
  <2>1. c \in Classes \cup {NoClass}
    OBVIOUS
  <2> QED
    BY <1>2, <1>4, <2>1 DEF Completes, Asks
<1>5. ASSUME NEW t \in Threads, NEW n \in Stacks, NEW c \in Classes \cup {NoClass},
             GoesUp(t, c, n)
      PROVE  /\ Registration(stack', registered', slotted')
             /\ ResolvingHaveCalls(stack', resolving')
  <2>1. TRUE \in BOOLEAN
    OBVIOUS
  <2> QED
    BY <1>2, <1>5, <2>1 DEF GoesUp, Asks
<1>6. ASSUME NEW t \in Threads, Abandons(t)
      PROVE  /\ Registration(stack', registered', slotted')
             /\ ResolvingHaveCalls(stack', resolving')
  <2>1. NoneReturns(stack, t)
    <3> SUFFICES ASSUME NEW i \in 1 .. Len(stack[t]), stack[t][i].op = "get",
                        stack[t][i].at = "resolve"
                 PROVE  FALSE
      BY DEF NoneReturns
    <3>1. i = Len(stack[t])
      BY DEF Core, Registration, CreatedAreRegistered
    <3> QED
      BY <1>6, <3>1 DEF Abandons, Top
  <2>2. TRUE \in BOOLEAN /\ NoClass \in Classes \cup {NoClass} /\ Fails(t, stack)
    BY <1>6 DEF Abandons
  <2>3. Registration(stack, registered, slotted) /\ ResolvingHaveCalls(stack, resolving)
    BY DEF Core
  <2> QED
    BY <1>0, <2>1, <2>2, <2>3, RequestCore
<1>7. ASSUME NEW t \in Threads, Readies(t)
      PROVE  /\ Registration(stack', registered', slotted')
             /\ ResolvingHaveCalls(stack', resolving')
  <2> DEFINE new == stack'
  <2>1. PICK f \in GetFrames :
          /\ Steps(stack, new, t, f) /\ f.at = "resolve"
          /\ slotted' = slotted \cup {Top(t).class}
          /\ registered' = registered /\ resolving' = resolving
    BY <1>7 DEF Readies
  <2>2. f.op = "get" /\ f.class = Top(t).class
    BY <2>1 DEF GetFrames, Steps, SameCall, Top
  <2>3. new \in Stacks
    BY <1>0
  <2> HIDE DEF new
  <2>4. Registration(new, registered, slotted \cup {f.class})
    BY <1>0, <2>1, <2>2, <2>3, RegistrationReadies DEF Core
  <2>5. Within(stack, new)
    BY <1>0, <2>1, <2>3, StepsWithin
  <2>6. ResolvingHaveCalls(new, resolving)
    BY <2>5, WithinCallOf DEF ResolvingHaveCalls, Core
  <2> QED
    BY <2>1, <2>2, <2>4, <2>6 DEF new
<1>8. ASSUME NEW t \in Threads, MovesOn(t)
      PROVE  /\ Registration(stack', registered', slotted')
             /\ ResolvingHaveCalls(stack', resolving')
  <2> DEFINE new == stack'
  <2>1. PICK f \in ResolveFrames : Steps(stack, new, t, f)
    BY <1>8 DEF MovesOn
  <2>2. f.op = "resolve"
    BY DEF ResolveFrames
  <2>3. new \in Stacks /\ registered' = registered /\ slotted' = slotted /\ resolving' = resolving
    BY <1>0, <1>8 DEF MovesOn
  <2> HIDE DEF new
  <2>4. Registration(new, registered, slotted)
    BY <1>0, <2>1, <2>2, <2>3, RegistrationSteps DEF Core
  <2>5. Within(stack, new)
    BY <1>0, <2>1, <2>3, StepsWithin
  <2>6. ResolvingHaveCalls(new, resolving)
    BY <2>5, WithinCallOf DEF ResolvingHaveCalls, Core
  <2> QED
    BY <2>3, <2>4, <2>6 DEF new
<1>9. ASSUME NEW t \in Threads, Finishes(t)
      PROVE  /\ Registration(stack', registered', slotted')
             /\ ResolvingHaveCalls(stack', resolving')
  <2> DEFINE new == stack'
             c == Top(t).class
  <2>1. /\ Shrinks(stack, new, t) /\ Top(t).op = "resolve"
        /\ resolving' = resolving \ {c} /\ registered' = registered /\ slotted' = slotted
    BY <1>9, TopClass DEF Finishes
  <2>2. stack[t][Len(stack[t])] = Top(t)
    BY DEF Top
  <2>3. new \in Stacks
    BY <1>0
  <2> HIDE DEF new, c
  <2>4. Registration(new, registered, slotted)
    BY <1>0, <2>1, <2>2, <2>3, RegistrationShrinks DEF Core
  <2>5. ResolvingHaveCalls(new, resolving \ {c})
    BY <1>0, <2>1, <2>2, <2>3, ShrinksCallOf DEF ResolvingHaveCalls, Core, c
  <2> QED
    BY <2>1, <2>4, <2>5 DEF new
<1> QED
  BY <1>0, <1>1, <1>3, <1>4, <1>5, <1>6, <1>7, <1>8, <1>9, NextCases

\* No type is registered and no call open initially.
LEMMA InitCore ==
  ASSUME Init
  PROVE  Core
<1>1. TypeOK
  BY InitTyped
<1>2. \A u \in Threads : \A i \in 1 .. Len(stack[u]) : FALSE
  BY DEF Init
<1> QED
  BY <1>1, <1>2 DEF Init, Core, Registration, CreatedAreRegistered, RegisteredAreCreated,
                    OneCallEach, ResolvingHaveCalls

\* Core is an invariant of JType_GetType and JType_ResolveType, for all class graphs and
\* threads, callbacks that call jpy.get_type, and allocations that fail anywhere.
THEOREM CoreInvariant == Spec => []Core
<1>1. Init => Core
  BY InitCore
<1>2. Core /\ [Next]_vars => Core'
  BY StepCore
<1> QED
  BY <1>1, <1>2, PTL DEF Spec

\* Type correctness: the variables of TypeRegistry keep their types, for all class graphs,
\* threads, callbacks and failures.
THEOREM TypeCorrect == Spec => []TypeOK
<1>1. Core => TypeOK
  BY DEF Core
<1> QED
  BY <1>1, CoreInvariant, PTL

\* A type that JType_GetType has put into JPy_Types and that is not complete is being
\* created by an open call, for all class graphs, threads, callbacks and failures: no
\* failure leaves an incomplete type in JPy_Types.
THEOREM InProgressIsOnStackInvariant == Spec => []InProgressIsOnStack
<1>1. Core => InProgressIsOnStack
  BY DEF Core, Registration, RegisteredAreCreated, CallOf, InProgressIsOnStack, FrameOf
<1> QED
  BY <1>1, CoreInvariant, PTL

-----------------------------------------------------------------------------
(* Resolution, as long as no allocation fails *)

\* A type that a call resolves has isResolving set.
CallsAreResolving(stk, rng) ==
  \A u \in Threads : \A i \in 1 .. Len(stk[u]) :
    stk[u][i].op = "resolve" => stk[u][i].class \in rng

\* isResolving is set for the types that calls resolve, isResolved after that, and only
\* for types in JPy_Types.
Resolution(stk, reg, rng, rvd) ==
  /\ CallsAreResolving(stk, rng)
  /\ OneCallEach(stk, "resolve")
  /\ rng \cap rvd = {}
  /\ rng \subseteq reg /\ rvd \subseteq reg

\* Once JType_InitSuperType has returned, the super class has a type, ...
SupersAreRegistered(stk, reg) ==
  \A u \in Threads : \A i \in 1 .. Len(stk[u]) :
    stk[u][i].op = "get" /\ stk[u][i].at # "super"
    => Super[stk[u][i].class] \in reg \cup {NoClass}

\* ... and a complete type and its base have a tp_dict.
CompleteAreReady(reg, slo, mr) ==
  \A c \in slo :
    /\ Super[c] \in reg \cup {NoClass}
    /\ mr[c] # <<>>
    /\ Super[c] # NoClass => mr[Super[c]] # <<>>

\* The invariant while no allocation has failed.
NoFailure ==
  /\ Resolution(stack, registered, resolving, resolved)
  /\ SupersAreRegistered(stack, registered)
  /\ CompleteAreReady(registered, slotted, mro)

\* Calls that resolve types may end ...
LEMMA WithinResolving ==
  ASSUME NEW m \in Stacks, NEW n \in Stacks, Within(n, m), NEW rng,
         CallsAreResolving(m, rng)
  PROVE  CallsAreResolving(n, rng)
  BY DEF Within, CallsAreResolving, SameCall

\* ... without the others being affected.
LEMMA WithinResolution ==
  ASSUME NEW m \in Stacks, NEW n \in Stacks, Within(n, m), NEW reg, NEW rng, NEW rvd,
         Resolution(m, reg, rng, rvd)
  PROVE  Resolution(n, reg, rng, rvd)
<1>1. CallsAreResolving(n, rng)
  BY WithinResolving DEF Resolution
<1>2. OneCallEach(n, "resolve")
  BY WithinOneCall DEF Resolution
<1> QED
  BY <1>1, <1>2 DEF Resolution

\* The super class is registered when a call goes on to the component class, ...
LEMMA SupersSteps ==
  ASSUME NEW m \in Stacks, NEW n \in Stacks, NEW t \in Threads, NEW f, Steps(m, n, t, f),
         NEW reg, NEW reg1, reg \subseteq reg1, SupersAreRegistered(m, reg),
         f.op = "get" => Super[f.class] \in reg1 \cup {NoClass}
  PROVE  SupersAreRegistered(n, reg1)
<1>1. \A u \in Threads : \A i \in 1 .. Len(n[u]) :
        /\ i \in 1 .. Len(m[u])
        /\ n[u][i] = m[u][i] \/ (u = t /\ i = Len(m[t]) /\ n[u][i] = f)
  BY StepsWithin
<1> SUFFICES ASSUME NEW u \in Threads, NEW i \in 1 .. Len(n[u]),
                    n[u][i].op = "get", n[u][i].at # "super"
             PROVE  Super[n[u][i].class] \in reg1 \cup {NoClass}
  BY DEF SupersAreRegistered
<1>2. CASE n[u][i] = f
  BY <1>2
<1>3. CASE i \in 1 .. Len(m[u]) /\ n[u][i] = m[u][i]
  <2>1. Super[m[u][i].class] \in reg \cup {NoClass}
    BY <1>3 DEF SupersAreRegistered
  <2> QED
    BY <1>3, <2>1
<1> QED
  BY <1>1, <1>2, <1>3

\* ... stays registered when calls return ...
LEMMA SupersShrinks ==
  ASSUME NEW m \in Stacks, NEW n \in Stacks, NEW t \in Threads, Shrinks(m, n, t),
         NEW reg, SupersAreRegistered(m, reg)
  PROVE  SupersAreRegistered(n, reg)
<1>1. \A u \in Threads : \A i \in 1 .. Len(n[u]) :
        i \in 1 .. Len(m[u]) /\ n[u][i] = m[u][i] /\ (u = t => i # Len(m[t]))
  BY ShrinksWithin
<1> QED
  BY <1>1 DEF SupersAreRegistered

\* ... and begin.
LEMMA SupersGrows ==
  ASSUME NEW m \in Stacks, NEW n \in Stacks, NEW t \in Threads, NEW f, Grows(m, n, t, f),
         NEW reg, SupersAreRegistered(m, reg), f.op = "get" => f.at = "super"
  PROVE  SupersAreRegistered(n, reg)
<1>1. \A u \in Threads : \A i \in 1 .. Len(n[u]) :
        \/ i \in 1 .. Len(m[u]) /\ n[u][i] = m[u][i]
        \/ u = t /\ i = Len(m[t]) + 1 /\ n[u][i] = f
  BY GrowsWithin
<1> SUFFICES ASSUME NEW u \in Threads, NEW i \in 1 .. Len(n[u]),
                    n[u][i].op = "get", n[u][i].at # "super"
             PROVE  Super[n[u][i].class] \in reg \cup {NoClass}
  BY DEF SupersAreRegistered
<1>2. i \in 1 .. Len(m[u]) /\ n[u][i] = m[u][i]
  BY <1>1
<1> QED
  BY <1>2 DEF SupersAreRegistered

\* The calls that ask: the super class is about to be registered, if it is not.
LEMMA AsksNoFailure ==
  ASSUME Core, NoFailure, NEW t \in Threads, NEW n \in Stacks, NEW c, NEW r,
         Asks(t, c, r, n)
  PROVE  /\ Resolution(n, registered, resolving, resolved)
         /\ SupersAreRegistered(n, registered \cup {c})
         /\ Leaves(t, c, r, n) \/ Derives(t, c, n) => c \in registered \cup {NoClass}
<1>1. /\ stack \in Stacks /\ Top(t) = stack[t][Len(stack[t])]
      /\ Resolution(stack, registered, resolving, resolved)
      /\ SupersAreRegistered(stack, registered)
      /\ registered \subseteq registered \cup {c}
  BY TypeOKStacks DEF Core, NoFailure, Top
<1>2. CASE Calls(t, c, n)
  <2>1. n = stack /\ SupersAreRegistered(stack, registered \cup {c})
    BY <1>1, <1>2 DEF Calls, SupersAreRegistered
  <2>2. PythonAbove(stack[t])
    BY <1>2 DEF Calls
  <2>3. ~Leaves(t, c, r, n)
    <3> SUFFICES ASSUME Leaves(t, c, r, n) PROVE FALSE
      OBVIOUS
    <3>1. Shrinks(stack, n, t)
      BY DEF Leaves
    <3>2. Len(n[t]) = Len(stack[t]) - 1 /\ Len(stack[t]) \in Nat
      BY <1>1, <3>1, StackFrame DEF Shrinks
    <3> QED
      BY <2>1, <3>2
  <2>4. ~Derives(t, c, n)
    <3> SUFFICES ASSUME Derives(t, c, n) PROVE FALSE
      OBVIOUS
    <3>1. PICK f \in ResolveFrames : Steps(stack, n, t, f) /\ Top(t).at = "base" /\ f.at = "member"
      BY DEF Derives
    <3>2. n[t][Len(stack[t])] = f
      BY <3>1 DEF Steps
    <3> QED
      BY <1>1, <2>1, <3>1, <3>2
  <2> QED
    BY <1>1, <2>1, <2>3, <2>4
<1>3. ASSUME NEW f, Steps(stack, n, t, f),
             f.op = "get" => Super[f.class] \in registered \cup {c} \cup {NoClass}
      PROVE  /\ Resolution(n, registered, resolving, resolved)
             /\ SupersAreRegistered(n, registered \cup {c})
  <2>1. Within(n, stack)
    BY <1>1, <1>3, StepsWithin
  <2>2. Resolution(n, registered, resolving, resolved)
    BY <1>1, <2>1, WithinResolution
  <2>3. SupersAreRegistered(n, registered \cup {c})
    BY <1>1, <1>3, SupersSteps
  <2> QED
    BY <2>2, <2>3
<1>4. CASE Inherits(t, c, r, n)
  <2>1. PICK f \in GetFrames :
          /\ Steps(stack, n, t, f) /\ Top(t) \in GetFrames
          /\ \/ Top(t).at = "super" /\ c = Super[Top(t).class]
             \/ Top(t).at = "component"
          /\ Top(t).at # "resolve" /\ f.at # "super"
    BY <1>4 DEF Inherits
  <2>2. f.class = Top(t).class /\ Top(t).op = "get" /\ Len(stack[t]) \in 1 .. Len(stack[t])
        /\ n[t][Len(stack[t])] = f
    BY <1>1, <2>1, TopClass DEF Steps, SameCall
  <2>3. Top(t).at = "component" => Super[Top(t).class] \in registered \cup {NoClass}
    BY <1>1, <2>2 DEF SupersAreRegistered
  <2>4. Super[f.class] \in registered \cup {c} \cup {NoClass}
    BY <2>1, <2>2, <2>3
  <2>5. ~Leaves(t, c, r, n) /\ ~Derives(t, c, n)
    BY <2>1, <2>2 DEF Leaves, Derives, ResolveFrames
  <2> QED
    BY <1>3, <2>1, <2>4, <2>5
<1>5. CASE Mentions(t, c, r, n)
  <2>1. PICK f \in ResolveFrames : Steps(stack, n, t, f) /\ Top(t).at = "member"
    BY <1>5 DEF Mentions
  <2>2. f.op = "resolve" /\ ~Leaves(t, c, r, n) /\ ~Derives(t, c, n)
    BY <2>1 DEF ResolveFrames, Leaves, Derives
  <2> QED
    BY <1>3, <2>1, <2>2
<1>6. CASE Leaves(t, c, r, n)
  <2>1. Shrinks(stack, n, t) /\ Top(t).op = "get" /\ c = Top(t).class
    BY <1>6, TopClass DEF Leaves
  <2>2. Within(n, stack) /\ Len(stack[t]) \in 1 .. Len(stack[t])
    BY <1>1, <2>1, ShrinksWithin
  <2>3. Resolution(n, registered, resolving, resolved)
    BY <1>1, <2>2, WithinResolution
  <2>4. SupersAreRegistered(n, registered)
    BY <1>1, <2>1, SupersShrinks
  <2>5. c \in registered
    BY <1>1, <2>1, <2>2 DEF Core, Registration, CreatedAreRegistered
  <2>6. registered \cup {c} = registered
    BY <2>5
  <2> QED
    BY <2>3, <2>4, <2>5, <2>6
<1>7. CASE Derives(t, c, n)
  <2>1. PICK f \in ResolveFrames : Steps(stack, n, t, f) /\ c = Base(Top(t).class)
    BY <1>7 DEF Derives
  <2>2. f.op = "resolve"
    BY DEF ResolveFrames
  <2>3. c \in registered \cup {NoClass}
    BY <2>1 DEF Base, NoFailure, CompleteAreReady
  <2> QED
    BY <1>3, <2>1, <2>2, <2>3
<1> QED
  BY <1>2, <1>4, <1>5, <1>6, <1>7 DEF Asks

\* What the request comes to has the invariant, too.
LEMMA RequestNoFailure ==
  ASSUME Core, CompleteAreReady(registered, slotted, mro),
         NEW t \in Threads, NEW n \in Stacks, NEW c \in Classes \cup {NoClass},
         NEW r \in BOOLEAN,
         Resolution(n, registered, resolving, resolved),
         SupersAreRegistered(n, registered \cup {c}),
         \/ c \in registered \cup {NoClass} /\ Returns(t, c, n)
         \/ c \in registered \cup {NoClass} /\ Resolves(t, c, n)
         \/ Creates(t, c, r, n)
  PROVE  /\ Resolution(stack', registered', resolving', resolved')
         /\ SupersAreRegistered(stack', registered')
         /\ CompleteAreReady(registered', slotted', mro')
<1>0. /\ slotted \subseteq registered /\ mro \in [Classes -> Seq(Classes)]
      /\ registered \subseteq Classes
  BY DEF Core, Registration, TypeOK
<1>1. c \in registered \cup {NoClass} => SupersAreRegistered(n, registered)
  BY DEF SupersAreRegistered
<1>2. CASE c \in registered \cup {NoClass} /\ Returns(t, c, n)
  BY <1>1, <1>2 DEF Returns
<1>3. CASE c \in registered \cup {NoClass} /\ Resolves(t, c, n)
  <2> DEFINE f == ResolveCall(c)
             new == stack'
  <2>1. /\ Grows(n, new, t, f) /\ new \in Stacks /\ f.op = "resolve" /\ f.class = c
        /\ resolving' = resolving \cup {c} /\ c \notin resolving /\ c \notin resolved
        /\ registered' = registered /\ slotted' = slotted /\ mro' = mro
        /\ resolved' = resolved /\ c \in registered
    BY <1>3, NewCalls, ClassesAssumption DEF Resolves, Grows
  <2> HIDE DEF f, new
  <2>2. /\ CallsAreResolving(n, resolving) /\ OneCallEach(n, "resolve")
        /\ resolving \cap resolved = {} /\ resolving \subseteq registered
        /\ resolved \subseteq registered
    BY DEF Resolution
  <2>3. ~CallOf(n, c, "resolve")
    BY <2>1, <2>2 DEF CallOf, CallsAreResolving
  <2>4. OneCallEach(new, "resolve")
    BY <2>1, <2>2, <2>3, GrowsOneCall
  <2>5. CallsAreResolving(new, resolving \cup {c})
    <3>1. \A u \in Threads : \A i \in 1 .. Len(new[u]) :
            \/ i \in 1 .. Len(n[u]) /\ new[u][i] = n[u][i]
            \/ u = t /\ i = Len(n[t]) + 1 /\ new[u][i] = f
      BY <2>1, GrowsWithin
    <3> QED
      BY <2>1, <2>2, <3>1 DEF CallsAreResolving
  <2>6. Resolution(new, registered, resolving \cup {c}, resolved)
    BY <2>1, <2>2, <2>4, <2>5 DEF Resolution
  <2>7. SupersAreRegistered(new, registered)
    BY <1>1, <1>3, <2>1, SupersGrows
  <2> QED
    BY <2>1, <2>6, <2>7 DEF new
<1>4. CASE Creates(t, c, r, n)
  <2> DEFINE f == GetCall(c, r)
             new == stack'
             reg1 == registered \cup {c}
  <2>1. /\ Grows(n, new, t, f) /\ new \in Stacks /\ f.op = "get" /\ f.class = c
        /\ f.at = "super" /\ c \notin registered /\ c \in Classes
        /\ resolving' = resolving \ {c} /\ resolved' = resolved \ {c}
        /\ registered' = reg1 /\ slotted' = slotted \ {c}
        /\ mro' = [mro EXCEPT ![c] = <<>>]
    BY <1>4, NewCalls DEF Creates, Grows
  <2>2. /\ CallsAreResolving(n, resolving) /\ OneCallEach(n, "resolve")
        /\ resolving \cap resolved = {} /\ resolving \subseteq registered
        /\ resolved \subseteq registered
    BY DEF Resolution
  <2>3. resolving' = resolving /\ resolved' = resolved /\ slotted' = slotted
    BY <1>0, <2>1, <2>2
  <2> HIDE DEF f, new, reg1
  <2>4. OneCallEach(new, "resolve")
    BY <2>1, <2>2, GrowsOneCall
  <2>5. CallsAreResolving(new, resolving)
    <3>1. \A u \in Threads : \A i \in 1 .. Len(new[u]) :
            \/ i \in 1 .. Len(n[u]) /\ new[u][i] = n[u][i]
            \/ u = t /\ i = Len(n[t]) + 1 /\ new[u][i] = f
      BY <2>1, GrowsWithin
    <3> QED
      BY <2>1, <2>2, <3>1 DEF CallsAreResolving
  <2>6. Resolution(new, reg1, resolving, resolved)
    BY <2>2, <2>4, <2>5 DEF Resolution, reg1
  <2>7. SupersAreRegistered(new, reg1)
    BY <2>1, SupersGrows DEF reg1
  <2>8. CompleteAreReady(reg1, slotted, mro')
    <3> SUFFICES ASSUME NEW d \in slotted
                 PROVE  /\ Super[d] \in reg1 \cup {NoClass}
                        /\ mro'[d] # <<>>
                        /\ Super[d] # NoClass => mro'[Super[d]] # <<>>
      BY DEF CompleteAreReady
    <3>1. /\ Super[d] \in registered \cup {NoClass} /\ mro[d] # <<>>
          /\ Super[d] # NoClass => mro[Super[d]] # <<>>
      BY DEF CompleteAreReady
    <3>2. \A e \in registered : mro'[e] = mro[e]
      BY <1>0, <2>1
    <3>3. d \in registered
      BY <1>0
    <3> QED
      BY <3>1, <3>2, <3>3 DEF reg1
  <2> QED
    BY <2>1, <2>3, <2>6, <2>7, <2>8 DEF new
<1> QED
  BY <1>2, <1>3, <1>4

\* What CompleteIsFinal says of a step.
CompleteStays ==
  \A c \in registered \cap slotted \cap resolved :
    /\ c \in registered' \cap slotted' \cap resolved'
    /\ mro'[c] = mro[c] /\ dict'[c] = dict[c]

\* No request changes a type that is complete and resolved.
LEMMA RequestFinal ==
  ASSUME Core, NEW t \in Threads, NEW n \in Stacks, NEW c, NEW r,
         Returns(t, c, n) \/ Resolves(t, c, n) \/ Creates(t, c, r, n)
  PROVE  CompleteStays
<1>1. CASE Returns(t, c, n) \/ Resolves(t, c, n)
  BY <1>1 DEF Returns, Resolves, CompleteStays
<1>2. CASE Creates(t, c, r, n)
  BY <1>2 DEF Creates, CompleteStays, Core, TypeOK
<1> QED
  BY <1>1, <1>2

\* No step without a failure breaks the invariant, or changes such a type.
LEMMA StepNoFailure ==
  ASSUME Core, [Next]_vars, failures = 0 => NoFailure, failures' = 0
  PROVE  NoFailure' /\ CompleteStays
<1> DEFINE Goal == /\ Resolution(stack', registered', resolving', resolved')
                   /\ SupersAreRegistered(stack', registered')
                   /\ CompleteAreReady(registered', slotted', mro')
                   /\ CompleteStays
<1>0. TypeOK' /\ TypeOK /\ stack \in Stacks /\ stack' \in Stacks /\ failures \in Nat
  BY StepTyped, BoundsAssumption DEF Core, TypeOK, Stacks, Frames
<1> SUFFICES Goal
  BY DEF NoFailure, Resolution, SupersAreRegistered, CompleteAreReady, CallsAreResolving,
         OneCallEach
<1>00. ASSUME NEW t, NEW n, Fails(t, n)
       PROVE  FALSE
  BY <1>0, <1>00 DEF Fails
<1>1. CASE UNCHANGED <<registered, slotted, mro, resolving, resolved, dict, stack,
                       given, failures>>
  BY <1>1 DEF NoFailure, CompleteStays
<1>2. ASSUME NEW t \in Threads, NEW n \in Stacks, NEW c \in Classes \cup {NoClass},
             NEW r \in BOOLEAN, Asks(t, c, r, n), failures' = failures,
             \/ c \in registered \cup {NoClass} /\ Returns(t, c, n)
             \/ c \in registered \cup {NoClass} /\ Resolves(t, c, n)
             \/ Creates(t, c, r, n)
      PROVE  Goal
  <2>1. NoFailure
    BY <1>2
  <2>2. /\ Resolution(n, registered, resolving, resolved)
        /\ SupersAreRegistered(n, registered \cup {c})
    BY <1>2, <2>1, AsksNoFailure
  <2>3. CompleteAreReady(registered, slotted, mro)
    BY <2>1 DEF NoFailure
  <2>4. /\ Resolution(stack', registered', resolving', resolved')
        /\ SupersAreRegistered(stack', registered')
        /\ CompleteAreReady(registered', slotted', mro')
    BY <1>2, <2>2, <2>3, RequestNoFailure
  <2>5. CompleteStays
    BY <1>2, RequestFinal
  <2> QED
    BY <2>4, <2>5
<1>3. ASSUME NEW t \in Threads, NEW n \in Stacks, NEW c \in Classes \cup {NoClass},
             NEW r \in BOOLEAN, Gets(t, c, r, n)
      PROVE  Goal
  <2>1. \/ c \in registered \cup {NoClass} /\ Returns(t, c, n)
        \/ c \in registered \cup {NoClass} /\ Resolves(t, c, n)
        \/ Creates(t, c, r, n)
    BY <1>00, <1>3 DEF Gets
  <2>2. failures' = failures
    BY <2>1 DEF Returns, Resolves, Creates
  <2>3. Asks(t, c, r, n)
    BY <1>3 DEF Gets, Asks
  <2> HIDE DEF Goal
  <2> QED
    BY <1>2, <2>1, <2>2, <2>3
<1>4. ASSUME NEW t \in Threads, NEW n \in Stacks, NEW c \in Classes, NEW r \in BOOLEAN,
             Completes(t, c, r, n)
      PROVE  Goal
  <2>1. Leaves(t, c, r, n) /\ (Returns(t, c, n) \/ Resolves(t, c, n))
    BY <1>4 DEF Completes
  <2>2. failures' = failures
    BY <2>1 DEF Returns, Resolves
  <2>3. Asks(t, c, r, n)
    BY <2>1 DEF Asks
  <2>4. c \in registered \cup {NoClass}
    BY <2>1, <2>2, <2>3, AsksNoFailure
  <2>5. c \in Classes \cup {NoClass}
    OBVIOUS
  <2> HIDE DEF Goal
  <2> QED
    BY <1>2, <2>1, <2>2, <2>3, <2>4, <2>5
<1>5. ASSUME NEW t \in Threads, NEW n \in Stacks, NEW c \in Classes \cup {NoClass},
             GoesUp(t, c, n)
      PROVE  Goal
  <2>1. Derives(t, c, n) /\ (Returns(t, c, n) \/ Resolves(t, c, n))
    BY <1>5 DEF GoesUp
  <2>2. failures' = failures
    BY <2>1 DEF Returns, Resolves
  <2>3. Asks(t, c, TRUE, n) /\ TRUE \in BOOLEAN
    BY <2>1 DEF Asks
  <2>4. c \in registered \cup {NoClass}
    BY <2>1, <2>2, <2>3, AsksNoFailure
  <2> HIDE DEF Goal
  <2> QED
    BY <1>2, <2>1, <2>2, <2>3, <2>4
<1>6. ASSUME NEW t \in Threads, Abandons(t)
      PROVE  Goal
  BY <1>00, <1>6 DEF Abandons
<1>7. ASSUME NEW t \in Threads, Readies(t)
      PROVE  Goal
  <2> DEFINE new == stack'
             k == Top(t).class
             l == Len(stack[t])
  <2>1. PICK f \in GetFrames :
          /\ Steps(stack, new, t, f) /\ f.at = "resolve"
          /\ Top(t) \in GetFrames /\ Top(t).at = "slots"
          /\ Ready(k, Super[k])
          /\ slotted' = slotted \cup {k}
          /\ registered' = registered /\ resolving' = resolving /\ resolved' = resolved
          /\ dict' = dict /\ failures' = failures
    BY <1>7 DEF Readies
  <2>2. /\ f.op = "get" /\ f.class = k /\ Top(t).op = "get" /\ k \in Classes
        /\ Super[k] \in Classes \cup {NoClass} /\ l \in 1 .. l /\ stack[t][l] = Top(t)
    BY <2>1, TopClass DEF GetFrames, Steps, SameCall, Top
  <2>3. new \in Stacks /\ NoFailure
    BY <1>0, <2>1
  <2> HIDE DEF new
  <2>4. Super[k] \in registered \cup {NoClass}
    BY <2>1, <2>2, <2>3 DEF NoFailure, SupersAreRegistered
  <2>5. Within(new, stack)
    BY <1>0, <2>1, <2>3, StepsWithin
  <2>6. Resolution(new, registered, resolving, resolved)
    BY <1>0, <2>3, <2>5, WithinResolution DEF NoFailure
  <2>7. SupersAreRegistered(new, registered)
    BY <1>0, <2>1, <2>2, <2>3, <2>4, SupersSteps DEF NoFailure
  <2>8. /\ \A d \in Classes : HasDict(d) => mro'[d] = mro[d]
        /\ mro'[k] # <<>>
        /\ Super[k] # NoClass => mro'[Super[k]] # <<>>
    BY <1>0, <2>1, <2>2, ReadyFacts DEF TypeOK
  <2>9. slotted \subseteq Classes /\ Super \in [Classes -> Classes \cup {NoClass}]
    BY <1>0, ClassesAssumption DEF TypeOK
  <2>10. CompleteAreReady(registered, slotted, mro)
    BY <2>3 DEF NoFailure
  <2>11. CompleteAreReady(registered, slotted \cup {k}, mro')
    <3> SUFFICES ASSUME NEW d \in slotted \cup {k}
                 PROVE  /\ Super[d] \in registered \cup {NoClass}
                        /\ mro'[d] # <<>>
                        /\ Super[d] # NoClass => mro'[Super[d]] # <<>>
      BY DEF CompleteAreReady
    <3>1. CASE d = k
      BY <2>4, <2>8, <3>1
    <3>2. CASE d \in slotted
      <4>1. /\ Super[d] \in registered \cup {NoClass} /\ mro[d] # <<>>
            /\ Super[d] # NoClass => mro[Super[d]] # <<>>
            /\ d \in Classes /\ Super[d] \in Classes \cup {NoClass}
        BY <2>9, <2>10, <3>2 DEF CompleteAreReady
      <4> QED
        BY <2>8, <4>1 DEF HasDict
    <3> QED
      BY <3>1, <3>2
  <2>12. CompleteStays
    BY <2>1, <2>8, <2>9, <2>10 DEF CompleteStays, CompleteAreReady, HasDict
  <2> QED
    BY <2>1, <2>6, <2>7, <2>11, <2>12 DEF new
<1>8. ASSUME NEW t \in Threads, MovesOn(t)
      PROVE  Goal
  <2> DEFINE new == stack'
             k == Top(t).class
             l == Len(stack[t])
  <2>1. PICK f \in ResolveFrames : Steps(stack, new, t, f)
    BY <1>8 DEF MovesOn
  <2>2. UNCHANGED <<registered, slotted, mro, resolving, resolved, gil, given, failures>>
    BY <1>8 DEF MovesOn
  <2>3. new \in Stacks /\ NoFailure /\ f.op = "resolve"
    BY <1>0, <2>2 DEF ResolveFrames
  <2>4. /\ Top(t).op = "resolve" /\ k \in Classes /\ l \in 1 .. l /\ stack[t][l] = Top(t)
    BY <1>8, <2>1, TopClass DEF MovesOn, Steps, Top
  <2>5. k \in resolving
    BY <2>3, <2>4 DEF NoFailure, Resolution, CallsAreResolving
  <2> HIDE DEF new
  <2>6. Within(new, stack)
    BY <1>0, <2>1, <2>3, StepsWithin
  <2>7. Resolution(new, registered, resolving, resolved)
    BY <1>0, <2>3, <2>6, WithinResolution DEF NoFailure
  <2>8. SupersAreRegistered(new, registered)
    BY <1>0, <2>1, <2>3, SupersSteps DEF NoFailure
  <2>9. \A c \in Classes : c # k => dict'[c] = dict[c]
    <3>1. dict' = dict \/ dict' = [dict EXCEPT ![k] = @ \cup {Top(t).member}]
      BY <1>8 DEF MovesOn
    <3> QED
      BY <1>0, <3>1 DEF TypeOK
  <2>10. CompleteStays
    <3>1. \A c \in resolved : c \in Classes /\ c # k
      BY <1>0, <2>3, <2>5 DEF NoFailure, Resolution, TypeOK
    <3> HIDE DEF k
    <3> QED
      BY <2>2, <2>9, <3>1 DEF CompleteStays
  <2> QED
    BY <2>2, <2>3, <2>7, <2>8, <2>10 DEF new, NoFailure
<1>9. ASSUME NEW t \in Threads, Finishes(t)
      PROVE  Goal
  <2> DEFINE new == stack'
             k == Top(t).class
             l == Len(stack[t])
  <2>1. /\ Shrinks(stack, new, t) /\ Top(t).op = "resolve" /\ k \in Classes
        /\ resolving' = resolving \ {k} /\ resolved' = resolved \cup {k}
        /\ UNCHANGED <<registered, slotted, mro, dict, gil, failures>>
    BY <1>9, TopClass DEF Finishes
  <2>2. new \in Stacks /\ NoFailure /\ stack[t][l] = Top(t)
    BY <1>0, <2>1 DEF Top
  <2> HIDE DEF new
  <2>3. /\ Within(new, stack) /\ l \in 1 .. l
        /\ \A u \in Threads : \A i \in 1 .. Len(new[u]) :
             i \in 1 .. Len(stack[u]) /\ new[u][i] = stack[u][i] /\ (u = t => i # l)
    BY <1>0, <2>1, <2>2, ShrinksWithin
  <2>4. /\ CallsAreResolving(stack, resolving) /\ OneCallEach(stack, "resolve")
        /\ resolving \cap resolved = {} /\ resolving \subseteq registered
        /\ resolved \subseteq registered
    BY <2>2 DEF NoFailure, Resolution
  <2>5. OneCallEach(new, "resolve")
    BY <1>0, <2>2, <2>3, <2>4, WithinOneCall
  <2>6. k \in resolving
    BY <2>1, <2>2, <2>3, <2>4 DEF CallsAreResolving
  <2>7. CallsAreResolving(new, resolving \ {k})
    <3> SUFFICES ASSUME NEW u \in Threads, NEW i \in 1 .. Len(new[u]),
                        new[u][i].op = "resolve"
                 PROVE  new[u][i].class \in resolving /\ new[u][i].class # k
      BY DEF CallsAreResolving
    <3>1. i \in 1 .. Len(stack[u]) /\ new[u][i] = stack[u][i] /\ (u = t => i # l)
      BY <2>3
    <3>2. stack[u][i].class \in resolving
      BY <2>4, <3>1 DEF CallsAreResolving
    <3>3. stack[u][i].class # k
      BY <2>1, <2>2, <2>3, <2>4, <3>1 DEF OneCallEach
    <3> QED
      BY <3>1, <3>2, <3>3
  <2>8. Resolution(new, registered, resolving \ {k}, resolved \cup {k})
    BY <2>4, <2>5, <2>6, <2>7 DEF Resolution
  <2>9. SupersAreRegistered(new, registered)
    BY <1>0, <2>1, <2>2, SupersShrinks DEF NoFailure
  <2>10. CompleteStays
    BY <2>1 DEF CompleteStays
  <2> HIDE DEF k
  <2> QED
    BY <2>1, <2>2, <2>8, <2>9, <2>10 DEF new, NoFailure
<1> HIDE DEF Goal
<1> QED
  BY <1>0, <1>1, <1>3, <1>4, <1>5, <1>6, <1>7, <1>8, <1>9, NextCases

\* The invariant holds initially.
LEMMA InitNoFailure ==
  ASSUME Init
  PROVE  NoFailure
<1>1. \A u \in Threads : \A i \in 1 .. Len(stack[u]) : FALSE
  BY DEF Init
<1> QED
  BY <1>1 DEF Init, NoFailure, Resolution, CallsAreResolving, OneCallEach,
              SupersAreRegistered, CompleteAreReady

\* Core, and NoFailure until an allocation fails.
Sound == Core /\ (failures = 0 => NoFailure)

\* This is an invariant for any threads and callbacks.
LEMMA SoundInvariant == Spec => []Sound
<1>1. Init => Sound
  BY InitCore, InitNoFailure DEF Sound
<1>2. Sound /\ [Next]_vars => Sound'
  BY StepCore, StepNoFailure DEF Sound
<1> QED
  BY <1>1, <1>2, PTL DEF Spec

\* JType_ResolveType sets isResolving exactly as long as a call resolves the type, and
\* isResolved only after that, until an allocation fails, for all class graphs, threads
\* and callbacks.  After a failure a type that was dropped may be resolved by one call
\* while its successor is created by another one.
THEOREM ResolvingIsOnStackInvariant == Spec => [](failures = 0 => ResolvingIsOnStack)
<1>1. Sound => (failures = 0 => ResolvingIsOnStack)
  <2> SUFFICES ASSUME Core, NoFailure, NEW c \in Classes
               PROVE  /\ c \in resolving <=> FrameOf(c, "resolve")
                      /\ c \in resolving => c \notin resolved
    BY DEF Sound, ResolvingIsOnStack
  <2>1. c \in resolving => FrameOf(c, "resolve")
    BY DEF Core, ResolvingHaveCalls, CallOf, FrameOf
  <2>2. FrameOf(c, "resolve") => c \in resolving
    BY DEF NoFailure, Resolution, CallsAreResolving, FrameOf
  <2> QED
    BY <2>1, <2>2 DEF NoFailure, Resolution
<1> QED
  BY <1>1, SoundInvariant, PTL

\* If no allocation fails, a type that is complete and resolved stays in JPy_Types and
\* keeps its members and its super classes, for all class graphs, threads and callbacks.
THEOREM CompleteIsFinalWithoutFailure == MaxFailures = 0 => (Spec => CompleteIsFinal)
<1> SUFFICES ASSUME MaxFailures = 0
             PROVE  Spec => CompleteIsFinal
  OBVIOUS
<1>1. Sound /\ Sound' /\ [Next]_vars => [CompleteStays]_vars
  <2> SUFFICES ASSUME Sound, Sound', [Next]_vars
               PROVE  CompleteStays
    OBVIOUS
  <2>1. failures' \in 0 .. MaxFailures
    BY DEF Sound, Core, TypeOK
  <2>2. failures' = 0
    BY <2>1
  <2> QED
    BY <2>2, StepNoFailure DEF Sound
<1>2. CompleteIsFinal <=> [][CompleteStays]_vars
  BY DEF CompleteIsFinal, CompleteStays
<1> QED
  BY <1>1, <1>2, SoundInvariant, PTL DEF Spec

-----------------------------------------------------------------------------
(* One thread, and callbacks that do not call jpy.get_type *)

\* One thread, and callbacks that do not call jpy.get_type.
Sequential == ~Reentrant /\ \A t, u \in Threads : t = u

\* Only the innermost call waits for a callback.
OnlyTopWaits(stk) ==
  \A u \in Threads : \A i \in 1 .. Len(stk[u]) :
    stk[u][i].at = "callback" => i = Len(stk[u])

\* No call waits for a callback.
NoneWaits(stk) ==
  \A u \in Threads : \A i \in 1 .. Len(stk[u]) : stk[u][i].at # "callback"

\* Python code has a type resolved that is complete.
FirstIsComplete(stk, slo) ==
  \A u \in Threads :
    1 \in 1 .. Len(stk[u]) /\ stk[u][1].op = "resolve" => stk[u][1].class \in slo

\* What jpy.get_type has returned is complete and resolved.
GivenAreResolved(giv, slo, rvd) ==
  \A u \in Threads : giv[u] # NoClass => giv[u] \in slo /\ giv[u] \in rvd

\* The invariant for calls of jpy.get_type one by one.
OneByOne ==
  /\ OnlyTopWaits(stack)
  /\ FirstIsComplete(stack, slotted)
  /\ GivenAreResolved(given, slotted, resolved)

\* Python code that runs outside a callback has been called by nobody.
LEMMA NothingBelow ==
  ASSUME Sequential, NEW n \in Stacks, NoneWaits(n), NEW t \in Threads, PythonAbove(n[t])
  PROVE  Len(n[t]) = 0
<1>1. n[t] \in Seq(Frames) /\ Len(n[t]) \in Nat
  BY StackFrame
<1>2. n[t] = <<>>
  <2> SUFFICES ASSUME n[t] # <<>> PROVE FALSE
    OBVIOUS
  <2>1. Len(n[t]) \in 1 .. Len(n[t])
    BY <1>1
  <2> QED
    BY <2>1 DEF PythonAbove, NoneWaits
<1> QED
  BY <1>2

\* When no call is open, the types that are registered are complete, and none is
\* being resolved.
LEMMA AllComplete ==
  ASSUME Sequential, NEW n \in Stacks, NEW t \in Threads, Len(n[t]) = 0,
         Registration(n, registered, slotted), ResolvingHaveCalls(n, resolving)
  PROVE  registered \subseteq slotted /\ resolving = {}
<1>1. \A u \in Threads : u = t
  BY DEF Sequential
<1>2. \A u \in Threads : \A i \in 1 .. Len(n[u]) : FALSE
  BY <1>1
<1>3. \A c, operation : ~CallOf(n, c, operation)
  BY <1>2 DEF CallOf
<1> QED
  BY <1>3 DEF Registration, RegisteredAreCreated, ResolvingHaveCalls

\* The innermost call goes on ...
LEMMA StepsOneByOne ==
  ASSUME NEW m \in Stacks, NEW n \in Stacks, NEW t \in Threads, NEW f, Steps(m, n, t, f),
         Sequential, OnlyTopWaits(m), NEW slo, FirstIsComplete(m, slo)
  PROVE  /\ OnlyTopWaits(n) /\ FirstIsComplete(n, slo)
         /\ f.at # "callback" => NoneWaits(n)
<1>1. /\ Within(n, m) /\ Len(n[t]) = Len(m[t])
      /\ \A u \in Threads : \A i \in 1 .. Len(n[u]) :
           /\ i \in 1 .. Len(m[u])
           /\ n[u][i] = m[u][i] \/ (u = t /\ i = Len(m[t]) /\ n[u][i] = f)
  BY StepsWithin
<1>2. \A u \in Threads : u = t
  BY DEF Sequential
<1>3. FirstIsComplete(n, slo)
  BY <1>1 DEF FirstIsComplete, Within, SameCall
<1>4. \A u \in Threads : \A i \in 1 .. Len(n[u]) :
        n[u][i].at = "callback" => i = Len(n[u]) /\ n[u][i] = f
  <2> SUFFICES ASSUME NEW u \in Threads, NEW i \in 1 .. Len(n[u]), n[u][i].at = "callback"
               PROVE  i = Len(n[u]) /\ n[u][i] = f
    OBVIOUS
  <2>1. CASE i = Len(n[u])
    BY <1>1, <1>2, <2>1 DEF Steps
  <2>2. CASE i # Len(n[u])
    <3>1. i \in 1 .. Len(m[u]) /\ n[u][i] = m[u][i] /\ i # Len(m[u])
      BY <1>1, <1>2, <2>2
    <3> QED
      BY <3>1 DEF OnlyTopWaits
  <2> QED
    BY <2>1, <2>2
<1> QED
  BY <1>3, <1>4 DEF OnlyTopWaits, NoneWaits

\* ... or returns.
LEMMA ShrinksOneByOne ==
  ASSUME NEW m \in Stacks, NEW n \in Stacks, NEW t \in Threads, Shrinks(m, n, t),
         Sequential, OnlyTopWaits(m), NEW slo, FirstIsComplete(m, slo)
  PROVE  NoneWaits(n) /\ OnlyTopWaits(n) /\ FirstIsComplete(n, slo)
<1>1. /\ Within(n, m)
      /\ \A u \in Threads : \A i \in 1 .. Len(n[u]) :
           i \in 1 .. Len(m[u]) /\ n[u][i] = m[u][i] /\ (u = t => i # Len(m[t]))
  BY ShrinksWithin
<1>2. \A u \in Threads : u = t
  BY DEF Sequential
<1>3. FirstIsComplete(n, slo)
  BY <1>1 DEF FirstIsComplete, Within, SameCall
<1>4. NoneWaits(n)
  BY <1>1, <1>2 DEF OnlyTopWaits, NoneWaits
<1> QED
  BY <1>3, <1>4 DEF OnlyTopWaits, NoneWaits

\* The calls that ask do not wait for callbacks; what Python code asks for, or
\* gets, is registered.
LEMMA AsksOneByOne ==
  ASSUME Sequential, Core, OneByOne, NEW t \in Threads, NEW n \in Stacks, NEW c, NEW r,
         Asks(t, c, r, n)
  PROVE  /\ NoneWaits(n) /\ FirstIsComplete(n, slotted)
         /\ Leaves(t, c, r, n) => c \in registered
         /\ Derives(t, c, n) => Len(n[t]) # 0
<1>1. /\ stack \in Stacks /\ Top(t) = stack[t][Len(stack[t])]
      /\ OnlyTopWaits(stack) /\ FirstIsComplete(stack, slotted)
      /\ \A u \in Threads : u = t
  BY TypeOKStacks DEF Core, OneByOne, Sequential, Top
<1>2. ASSUME Leaves(t, c, r, n)
      PROVE  c \in registered
  <2>1. Shrinks(stack, n, t) /\ Top(t).op = "get" /\ c = Top(t).class
    BY <1>2, TopClass DEF Leaves
  <2>2. Len(stack[t]) \in 1 .. Len(stack[t])
    BY <2>1 DEF Shrinks
  <2> QED
    BY <1>1, <2>1, <2>2 DEF Core, Registration, CreatedAreRegistered
<1>3. ASSUME Derives(t, c, n)
      PROVE  Len(n[t]) # 0
  <2>1. PICK f \in ResolveFrames : Steps(stack, n, t, f)
    BY <1>3 DEF Derives
  <2>2. Len(stack[t]) \in 1 .. Len(stack[t]) /\ Len(n[t]) = Len(stack[t])
    BY <2>1 DEF Steps
  <2> QED
    BY <2>2
<1>4. NoneWaits(n) /\ FirstIsComplete(n, slotted)
  <2>1. CASE Calls(t, c, n)
    <3>1. n = stack /\ stack[t] = <<>>
      BY <2>1 DEF Calls, Sequential
    <3>2. \A u \in Threads : \A i \in 1 .. Len(n[u]) : FALSE
      BY <1>1, <3>1
    <3> QED
      BY <1>1, <3>1, <3>2 DEF NoneWaits
  <2>2. CASE Inherits(t, c, r, n) \/ Mentions(t, c, r, n) \/ Derives(t, c, n)
    <3>1. PICK f \in Frames : Steps(stack, n, t, f) /\ f.at # "callback"
      BY <2>2 DEF Inherits, Mentions, Derives, Frames
    <3> QED
      BY <1>1, <3>1, StepsOneByOne
  <2>3. CASE Leaves(t, c, r, n)
    <3>1. Shrinks(stack, n, t)
      BY <2>3 DEF Leaves
    <3> QED
      BY <1>1, <3>1, ShrinksOneByOne
  <2> QED
    BY <2>1, <2>2, <2>3 DEF Asks
<1> QED
  BY <1>2, <1>3, <1>4

\* What the request comes to has the invariant, too.
LEMMA RequestOneByOne ==
  ASSUME Sequential, Core, NEW t \in Threads, NEW n \in Stacks,
         NEW c \in Classes \cup {NoClass}, NEW r \in BOOLEAN,
         Registration(n, registered, slotted), ResolvingHaveCalls(n, resolving),
         NoneWaits(n), FirstIsComplete(n, slotted),
         GivenAreResolved(given, slotted, resolved),
         c \in registered \cup {NoClass} \/ Len(n[t]) # 0 \/ Creates(t, c, r, n) \/ Fails(t, n),
         Returns(t, c, n) \/ Resolves(t, c, n) \/ Creates(t, c, r, n) \/ Fails(t, n)
  PROVE  /\ OnlyTopWaits(stack') /\ FirstIsComplete(stack', slotted')
         /\ GivenAreResolved(given', slotted', resolved')
<1>1. /\ slotted \subseteq registered /\ registered \subseteq Classes
      /\ given \in [Threads -> Classes \cup {NoClass}]
  BY DEF Core, Registration, TypeOK
<1>2. ASSUME c \in registered \cup {NoClass} \/ Len(n[t]) # 0, c \in Classes, Len(n[t]) = 0
      PROVE  c \in slotted /\ c \notin resolving
  BY <1>2, AllComplete, ClassesAssumption
<1>3. CASE Fails(t, n)
  <2> DEFINE new == stack'
  <2>1. PICK l \in 0 .. Len(n[t]) : Cuts(n, new, t, l)
    BY <1>3 DEF Fails
  <2>2. new \in Stacks /\ UNCHANGED <<slotted, given, resolved>>
    BY <1>3, <2>1 DEF Fails, Cuts
  <2> HIDE DEF new
  <2>3. /\ Within(new, n) /\ Len(new[t]) = l
        /\ \A u \in Threads : \A i \in 1 .. Len(new[u]) :
             i \in 1 .. Len(n[u]) /\ (new[u][i] = n[u][i] \/ (u = t /\ i = l))
    BY <2>1, <2>2, CutsWithin
  <2>4. OnlyTopWaits(new)
    BY <2>3 DEF NoneWaits, OnlyTopWaits
  <2>5. FirstIsComplete(new, slotted)
    BY <2>3 DEF FirstIsComplete, Within, SameCall
  <2> QED
    BY <2>2, <2>4, <2>5 DEF new
<1>4. CASE Creates(t, c, r, n)
  <2> DEFINE f == GetCall(c, r)
             new == stack'
  <2>1. /\ Grows(n, new, t, f) /\ new \in Stacks /\ f.op = "get"
        /\ f.at = "super" /\ c \notin registered
        /\ slotted' = slotted \ {c} /\ resolved' = resolved \ {c} /\ given' = given
    BY <1>4, NewCalls DEF Creates, Grows
  <2>2. slotted' = slotted
    BY <1>1, <2>1
  <2> HIDE DEF f, new
  <2>3. \A u \in Threads : \A i \in 1 .. Len(new[u]) :
          \/ i \in 1 .. Len(n[u]) /\ new[u][i] = n[u][i]
          \/ u = t /\ i = Len(n[t]) + 1 /\ new[u][i] = f
    BY <2>1, GrowsWithin
  <2>4. OnlyTopWaits(new)
    BY <2>1, <2>3 DEF NoneWaits, OnlyTopWaits
  <2>5. FirstIsComplete(new, slotted)
    <3> SUFFICES ASSUME NEW u \in Threads, 1 \in 1 .. Len(new[u]), new[u][1].op = "resolve"
                 PROVE  new[u][1].class \in slotted
      BY DEF FirstIsComplete
    <3>1. 1 \in 1 .. Len(n[u]) /\ new[u][1] = n[u][1]
      BY <2>1, <2>3
    <3> QED
      BY <3>1 DEF FirstIsComplete
  <2>6. GivenAreResolved(given, slotted, resolved \ {c})
    BY <1>1, <2>1 DEF GivenAreResolved
  <2> QED
    BY <2>1, <2>2, <2>4, <2>5, <2>6 DEF new
<1>5. CASE Resolves(t, c, n) /\ ~Creates(t, c, r, n) /\ ~Fails(t, n)
  <2> DEFINE f == ResolveCall(c)
             new == stack'
  <2>1. /\ Grows(n, new, t, f) /\ new \in Stacks /\ f.op = "resolve" /\ f.class = c
        /\ f.at = "base" /\ c \in Classes
        /\ UNCHANGED <<slotted, resolved, given>>
    BY <1>5, NewCalls DEF Resolves, Grows
  <2> HIDE DEF f, new
  <2>2. /\ \A u \in Threads : \A i \in 1 .. Len(new[u]) :
             \/ i \in 1 .. Len(n[u]) /\ new[u][i] = n[u][i]
             \/ u = t /\ i = Len(n[t]) + 1 /\ new[u][i] = f
    BY <2>1, GrowsWithin
  <2>3. OnlyTopWaits(new)
    BY <2>1, <2>2 DEF NoneWaits, OnlyTopWaits
  <2>4. FirstIsComplete(new, slotted)
    <3> SUFFICES ASSUME NEW u \in Threads, 1 \in 1 .. Len(new[u]), new[u][1].op = "resolve"
                 PROVE  new[u][1].class \in slotted
      BY DEF FirstIsComplete
    <3>1. CASE 1 \in 1 .. Len(n[u]) /\ new[u][1] = n[u][1]
      BY <3>1 DEF FirstIsComplete
    <3>2. CASE 1 = Len(n[t]) + 1 /\ new[u][1] = f
      <4>1. Len(n[t]) = 0
        BY <3>2, StackFrame
      <4> QED
        BY <1>2, <1>5, <2>1, <3>2, <4>1
    <3> QED
      BY <2>2, <3>1, <3>2
  <2> QED
    BY <2>1, <2>3, <2>4 DEF new
<1>6. CASE Returns(t, c, n) /\ ~Creates(t, c, r, n) /\ ~Fails(t, n)
  <2>1. stack' = n /\ UNCHANGED <<slotted, resolved>>
    BY <1>6 DEF Returns
  <2>2. OnlyTopWaits(n)
    BY DEF NoneWaits, OnlyTopWaits
  <2>3. GivenAreResolved(given', slotted, resolved)
    <3>1. CASE given' = given
      BY <3>1
    <3>2. CASE /\ PythonAbove(n[t]) /\ c \in Classes /\ c \in resolved \cup resolving
               /\ given' = [given EXCEPT ![t] = c]
      <4>1. Len(n[t]) = 0
        BY <3>2, NothingBelow
      <4>2. c \in slotted /\ c \in resolved
        BY <1>2, <1>6, <3>2, <4>1
      <4> QED
        BY <1>1, <3>2, <4>2 DEF GivenAreResolved
    <3> QED
      BY <1>6, <3>1, <3>2 DEF Returns
  <2> QED
    BY <2>1, <2>2, <2>3
<1> QED
  BY <1>3, <1>4, <1>5, <1>6

\* Every step preserves the invariant.
LEMMA StepOneByOne ==
  ASSUME Sequential, Core, OneByOne, [Next]_vars
  PROVE  OneByOne'
<1> DEFINE Goal == /\ OnlyTopWaits(stack') /\ FirstIsComplete(stack', slotted')
                   /\ GivenAreResolved(given', slotted', resolved')
<1>0. /\ TypeOK' /\ TypeOK /\ stack \in Stacks /\ stack' \in Stacks
      /\ OnlyTopWaits(stack) /\ FirstIsComplete(stack, slotted)
      /\ GivenAreResolved(given, slotted, resolved)
      /\ \A u \in Threads : u = u
  BY StepTyped DEF Core, TypeOK, Stacks, Frames, OneByOne
<1> SUFFICES Goal
  BY DEF OneByOne, OnlyTopWaits, FirstIsComplete, GivenAreResolved
<1>1. CASE UNCHANGED <<registered, slotted, mro, resolving, resolved, dict, stack,
                       given, failures>>
  BY <1>0, <1>1
<1>2. ASSUME NEW t \in Threads, NEW n \in Stacks, NEW c \in Classes \cup {NoClass},
             NEW r \in BOOLEAN, Asks(t, c, r, n),
             \/ c \in registered \cup {NoClass} \/ Len(n[t]) # 0
             \/ Creates(t, c, r, n) \/ Fails(t, n),
             Returns(t, c, n) \/ Resolves(t, c, n) \/ Creates(t, c, r, n) \/ Fails(t, n)
      PROVE  Goal
  <2>1. /\ Registration(n, registered, slotted) /\ ResolvingHaveCalls(n, resolving)
    BY <1>2, AsksCore
  <2>2. NoneWaits(n) /\ FirstIsComplete(n, slotted)
    BY <1>2, AsksOneByOne
  <2> QED
    BY <1>0, <1>2, <2>1, <2>2, RequestOneByOne
<1>3. ASSUME NEW t \in Threads, NEW n \in Stacks, NEW c \in Classes \cup {NoClass},
             NEW r \in BOOLEAN, Gets(t, c, r, n)
      PROVE  Goal
  <2>1. Asks(t, c, r, n)
    BY <1>3 DEF Gets, Asks
  <2>2. /\ \/ c \in registered \cup {NoClass} \/ Creates(t, c, r, n) \/ Fails(t, n)
        /\ Returns(t, c, n) \/ Resolves(t, c, n) \/ Creates(t, c, r, n) \/ Fails(t, n)
    BY <1>3 DEF Gets
  <2> HIDE DEF Goal
  <2> QED
    BY <1>2, <2>1, <2>2
<1>4. ASSUME NEW t \in Threads, NEW n \in Stacks, NEW c \in Classes, NEW r \in BOOLEAN,
             Completes(t, c, r, n)
      PROVE  Goal
  <2>1. Leaves(t, c, r, n) /\ (Returns(t, c, n) \/ Resolves(t, c, n))
    BY <1>4 DEF Completes
  <2>2. Asks(t, c, r, n) /\ c \in Classes \cup {NoClass}
    BY <2>1 DEF Asks
  <2>3. c \in registered
    BY <2>1, <2>2, AsksOneByOne
  <2> HIDE DEF Goal
  <2> QED
    BY <1>2, <2>1, <2>2, <2>3
<1>5. ASSUME NEW t \in Threads, NEW n \in Stacks, NEW c \in Classes \cup {NoClass},
             GoesUp(t, c, n)
      PROVE  Goal
  <2>1. Derives(t, c, n) /\ (Returns(t, c, n) \/ Resolves(t, c, n))
    BY <1>5 DEF GoesUp
  <2>2. Asks(t, c, TRUE, n) /\ TRUE \in BOOLEAN
    BY <2>1 DEF Asks
  <2>3. Len(n[t]) # 0
    BY <2>1, <2>2, AsksOneByOne
  <2> HIDE DEF Goal
  <2> QED
    BY <1>2, <2>1, <2>2, <2>3
<1>6. ASSUME NEW t \in Threads, Abandons(t)
      PROVE  Goal
  <2>1. Fails(t, stack) /\ stack[t] # <<>> /\ Top(t).at = "slots"
    BY <1>6 DEF Abandons
  <2>2. NoneWaits(stack)
    BY <1>0, <2>1 DEF Top, OnlyTopWaits, NoneWaits, Sequential
  <2>3. /\ Registration(stack, registered, slotted) /\ ResolvingHaveCalls(stack, resolving)
        /\ TRUE \in BOOLEAN /\ NoClass \in Classes \cup {NoClass}
    BY DEF Core
  <2> QED
    BY <1>0, <2>1, <2>2, <2>3, RequestOneByOne
<1>7. ASSUME NEW t \in Threads, Readies(t)
      PROVE  Goal
  <2> DEFINE new == stack'
  <2>1. PICK f \in GetFrames : Steps(stack, new, t, f)
    BY <1>7 DEF Readies
  <2>2. /\ slotted' = slotted \cup {Top(t).class} /\ given' = given /\ resolved' = resolved
        /\ new \in Stacks
    BY <1>0, <1>7 DEF Readies
  <2> HIDE DEF new
  <2>3. OnlyTopWaits(new) /\ FirstIsComplete(new, slotted)
    BY <1>0, <2>1, <2>2, StepsOneByOne
  <2>4. FirstIsComplete(new, slotted') /\ GivenAreResolved(given, slotted', resolved)
    BY <1>0, <2>2, <2>3 DEF FirstIsComplete, GivenAreResolved
  <2> QED
    BY <2>2, <2>3, <2>4 DEF new
<1>8. ASSUME NEW t \in Threads, MovesOn(t)
      PROVE  Goal
  <2> DEFINE new == stack'
  <2>1. PICK f \in ResolveFrames : Steps(stack, new, t, f)
    BY <1>8 DEF MovesOn
  <2>2. slotted' = slotted /\ given' = given /\ resolved' = resolved /\ new \in Stacks
    BY <1>0, <1>8 DEF MovesOn
  <2> HIDE DEF new
  <2>3. OnlyTopWaits(new) /\ FirstIsComplete(new, slotted)
    BY <1>0, <2>1, <2>2, StepsOneByOne
  <2> QED
    BY <1>0, <2>2, <2>3 DEF new
<1>9. ASSUME NEW t \in Threads, Finishes(t)
      PROVE  Goal
  <2> DEFINE new == stack'
             k == Top(t).class
  <2>1. /\ Shrinks(stack, new, t) /\ Top(t).op = "resolve" /\ new \in Stacks
        /\ slotted' = slotted /\ resolved' = resolved \cup {k} /\ k \in Classes
        /\ \/ given' = given
           \/ PythonAbove(new[t]) /\ given' = [given EXCEPT ![t] = k]
    BY <1>0, <1>9, TopClass DEF Finishes
  <2> HIDE DEF new
  <2>2. NoneWaits(new) /\ OnlyTopWaits(new) /\ FirstIsComplete(new, slotted)
    BY <1>0, <2>1, ShrinksOneByOne
  <2>3. PythonAbove(new[t]) => k \in slotted
    <3> SUFFICES ASSUME PythonAbove(new[t]) PROVE k \in slotted
      OBVIOUS
    <3>1. Len(new[t]) = 0
      BY <2>1, <2>2, NothingBelow
    <3>2. Len(stack[t]) = 1
      <4> DEFINE l == Len(stack[t])
      <4>1. 0 = l - 1
        BY <2>1, <3>1 DEF Shrinks
      <4>2. l \in Nat
        BY <1>0, StackFrame
      <4> HIDE DEF l
      <4>3. l = 1
        BY <4>1, <4>2
      <4> QED
        BY <4>3 DEF l
    <3>3. stack[t][1] = Top(t) /\ 1 \in 1 .. Len(stack[t])
      BY <3>2 DEF Top
    <3> QED
      BY <1>0, <2>1, <3>3 DEF FirstIsComplete
  <2>4. GivenAreResolved(given', slotted, resolved \cup {k})
    <3>1. CASE given' = given
      BY <1>0, <3>1 DEF GivenAreResolved
    <3>2. CASE PythonAbove(new[t]) /\ given' = [given EXCEPT ![t] = k]
      <4>1. k \in slotted
        BY <2>3, <3>2
      <4>2. given \in [Threads -> Classes \cup {NoClass}]
        BY <1>0 DEF TypeOK
      <4> HIDE DEF k
      <4> QED
        BY <1>0, <3>2, <4>1, <4>2 DEF GivenAreResolved
    <3> QED
      BY <2>1, <3>1, <3>2
  <2> QED
    BY <2>1, <2>2, <2>4 DEF new
<1> HIDE DEF Goal
<1> QED
  BY <1>0, <1>1, <1>3, <1>4, <1>5, <1>6, <1>7, <1>8, <1>9, NextCases

\* The invariant holds initially.
LEMMA InitOneByOne ==
  ASSUME Init
  PROVE  OneByOne
<1>1. \A u \in Threads : Len(stack[u]) = 0
  BY DEF Init
<1> QED
  BY <1>1 DEF Init, OneByOne, OnlyTopWaits, FirstIsComplete, GivenAreResolved

\* The type that jpy.get_type returns is complete and resolved, for all class graphs and
\* failures, if one thread calls it and callbacks do not.  Both conditions are needed:
\* JType_ResolveType returns at once for a type that somebody else is resolving.
THEOREM GivenIsResolvedInSequence == Sequential => (Spec => []GivenIsResolved)
<1> SUFFICES ASSUME Sequential
             PROVE  Spec => []GivenIsResolved
  OBVIOUS
<1>1. Init => Core /\ OneByOne
  BY InitCore, InitOneByOne
<1>2. (Core /\ OneByOne) /\ [Next]_vars => (Core /\ OneByOne)'
  BY StepCore, StepOneByOne
<1>3. Core /\ OneByOne => GivenIsResolved
  BY DEF OneByOne, GivenAreResolved, GivenIsResolved
<1> QED
  BY <1>1, <1>2, <1>3, PTL DEF Spec

-----------------------------------------------------------------------------
(* The members of resolved types *)

\* A type that is created to be resolved is created for its sub classes and the
\* arrays of it.
Chained(stk, rank) ==
  \A u \in Threads : \A i \in 1 .. Len(stk[u]) :
    stk[u][i].op = "get" /\ stk[u][i].resolve = TRUE =>
      \A j \in 1 .. Len(stk[u]) : j < i =>
        /\ stk[u][j].op = "get" /\ stk[u][j].resolve = TRUE
        /\ rank[stk[u][i].class] < rank[stk[u][j].class]

\* A type that is resolved has a dictionary with the members so far.
MembersSoFar(stk, mr, dct) ==
  \A u \in Threads : \A i \in 1 .. Len(stk[u]) :
    stk[u][i].op = "resolve" =>
      /\ mr[stk[u][i].class] # <<>>
      /\ \A k \in Nat \ {0} :
           k \in dct[stk[u][i].class]
           <=> k < stk[u][i].member /\ <<stk[u][i].class, k>> \notin LeftOut

\* The dictionaries of the other types.
OtherMembers(rng, rvd, dct) ==
  /\ \A c \in Classes : c \notin rng /\ c \notin rvd => dct[c] = {}
  /\ \A c \in rvd : \A k \in 1 .. Len(Members[c]) : k \in dct[c] <=> <<c, k>> \notin LeftOut

\* The invariant of the members.
MembersOK(rank) ==
  /\ Chained(stack, rank)
  /\ MembersSoFar(stack, mro, dict)
  /\ OtherMembers(resolving, resolved, dict)

\* What f, the innermost call of t in n, has to be like.
LEMMA ChainedSteps ==
  ASSUME NEW m \in Stacks, NEW n \in Stacks, NEW t \in Threads, NEW f, Steps(m, n, t, f),
         f.op = "get" => f.resolve = m[t][Len(m[t])].resolve,
         NEW rank, Chained(m, rank)
  PROVE  Chained(n, rank)
<1> DEFINE l == Len(m[t])
           g == m[t][l]
<1>1. /\ l \in 1 .. l /\ SameCall(g, f) /\ Len(n[t]) = l /\ n[t][l] = f
      /\ \A u \in Threads : \A i \in 1 .. Len(n[u]) :
           /\ i \in 1 .. Len(m[u])
           /\ n[u][i] = m[u][i] \/ (u = t /\ i = l /\ n[u][i] = f)
  BY StepsWithin
<1>2. \A u \in Threads : \A i \in 1 .. Len(n[u]) :
        /\ i \in 1 .. Len(m[u])
        /\ n[u][i].op = m[u][i].op /\ n[u][i].class = m[u][i].class
        /\ n[u][i].op = "get" => n[u][i].resolve = m[u][i].resolve
  BY <1>1 DEF SameCall
<1> SUFFICES ASSUME NEW u \in Threads, NEW i \in 1 .. Len(n[u]),
                    n[u][i].op = "get", n[u][i].resolve = TRUE,
                    NEW j \in 1 .. Len(n[u]), j < i
             PROVE  /\ n[u][j].op = "get" /\ n[u][j].resolve = TRUE
                    /\ rank[n[u][i].class] < rank[n[u][j].class]
  BY DEF Chained
<1>3. /\ i \in 1 .. Len(m[u]) /\ m[u][i].op = "get" /\ m[u][i].resolve = TRUE
      /\ j \in 1 .. Len(m[u])
  BY <1>2
<1>4. /\ m[u][j].op = "get" /\ m[u][j].resolve = TRUE
      /\ rank[m[u][i].class] < rank[m[u][j].class]
  BY <1>3 DEF Chained
<1>5. n[u][j].op = "get" /\ n[u][j].class = m[u][j].class /\ n[u][i].class = m[u][i].class
  BY <1>2, <1>4
<1>6. n[u][j].resolve = m[u][j].resolve
  BY <1>2, <1>5
<1> QED
  BY <1>4, <1>5, <1>6

\* When it returns, the others are as before; ...
LEMMA ChainedShrinks ==
  ASSUME NEW m \in Stacks, NEW n \in Stacks, NEW t \in Threads, Shrinks(m, n, t),
         NEW rank, Chained(m, rank)
  PROVE  Chained(n, rank)
<1>1. \A u \in Threads : \A i \in 1 .. Len(n[u]) :
        i \in 1 .. Len(m[u]) /\ n[u][i] = m[u][i]
  BY ShrinksWithin
<1> SUFFICES ASSUME NEW u \in Threads, NEW i \in 1 .. Len(n[u]),
                    n[u][i].op = "get", n[u][i].resolve = TRUE,
                    NEW j \in 1 .. Len(n[u]), j < i
             PROVE  /\ n[u][j].op = "get" /\ n[u][j].resolve = TRUE
                    /\ rank[n[u][i].class] < rank[n[u][j].class]
  BY DEF Chained
<1>2. /\ i \in 1 .. Len(m[u]) /\ n[u][i] = m[u][i]
      /\ j \in 1 .. Len(m[u]) /\ n[u][j] = m[u][j]
  BY <1>1
<1>3. m[u][i].op = "get" /\ m[u][i].resolve = TRUE
  BY <1>2
<1>4. /\ m[u][j].op = "get" /\ m[u][j].resolve = TRUE
      /\ rank[m[u][i].class] < rank[m[u][j].class]
  BY <1>2, <1>3 DEF Chained
<1> QED
  BY <1>2, <1>4

\* ... when it creates a type to be resolved, it is one of its kind.
LEMMA ChainedGrows ==
  ASSUME NEW m \in Stacks, NEW n \in Stacks, NEW t \in Threads, NEW f, Grows(m, n, t, f),
         NEW rank, Chained(m, rank),
         f.op = "get" /\ f.resolve = TRUE =>
           \A j \in 1 .. Len(m[t]) :
             /\ m[t][j].op = "get" /\ m[t][j].resolve = TRUE
             /\ rank[f.class] < rank[m[t][j].class]
  PROVE  Chained(n, rank)
<1>1. /\ \A u \in Threads : \A i \in 1 .. Len(n[u]) :
           \/ i \in 1 .. Len(m[u]) /\ n[u][i] = m[u][i]
           \/ u = t /\ i = Len(m[t]) + 1 /\ n[u][i] = f
  BY GrowsWithin
<1>2. \A u \in Threads : Len(m[u]) \in Nat
  BY StackFrame
<1> SUFFICES ASSUME NEW u \in Threads, NEW i \in 1 .. Len(n[u]),
                    n[u][i].op = "get", n[u][i].resolve = TRUE,
                    NEW j \in 1 .. Len(n[u]), j < i
             PROVE  /\ n[u][j].op = "get" /\ n[u][j].resolve = TRUE
                    /\ rank[n[u][i].class] < rank[n[u][j].class]
  BY DEF Chained
<1>3. CASE i \in 1 .. Len(m[u]) /\ n[u][i] = m[u][i]
  <2>1. j \in 1 .. Len(m[u]) /\ n[u][j] = m[u][j]
    <3>1. ~(u = t /\ j = Len(m[t]) + 1)
      BY <1>2, <1>3
    <3> QED
      BY <1>1, <3>1
  <2> QED
    BY <1>3, <2>1 DEF Chained
<1>4. CASE u = t /\ i = Len(m[t]) + 1 /\ n[u][i] = f
  <2>1. j \in 1 .. Len(m[t]) /\ n[t][j] = m[t][j]
    <3>1. ~(u = t /\ j = Len(m[t]) + 1)
      BY <1>2, <1>4
    <3> QED
      BY <1>1, <1>4, <3>1
  <2> QED
    BY <1>4, <2>1
<1> QED
  BY <1>1, <1>3, <1>4

\* A call that goes on at the same member has added no other ...
LEMMA MembersSteps ==
  ASSUME NEW m \in Stacks, NEW n \in Stacks, NEW t \in Threads, NEW f, Steps(m, n, t, f),
         f.op = "resolve" => f.member = m[t][Len(m[t])].member,
         NEW mr, NEW dct, MembersSoFar(m, mr, dct)
  PROVE  MembersSoFar(n, mr, dct)
<1> DEFINE l == Len(m[t])
           g == m[t][l]
<1>1. /\ l \in 1 .. l /\ SameCall(g, f) /\ Len(n[t]) = l /\ n[t][l] = f
      /\ \A u \in Threads : \A i \in 1 .. Len(n[u]) :
           /\ i \in 1 .. Len(m[u])
           /\ n[u][i] = m[u][i] \/ (u = t /\ i = l /\ n[u][i] = f)
  BY StepsWithin
<1>2. \A u \in Threads : \A i \in 1 .. Len(n[u]) :
        /\ i \in 1 .. Len(m[u])
        /\ n[u][i].op = m[u][i].op /\ n[u][i].class = m[u][i].class
        /\ n[u][i].op = "resolve" => n[u][i].member = m[u][i].member
  BY <1>1 DEF SameCall
<1> SUFFICES ASSUME NEW u \in Threads, NEW i \in 1 .. Len(n[u]), n[u][i].op = "resolve"
             PROVE  /\ mr[n[u][i].class] # <<>>
                    /\ \A k \in Nat \ {0} :
                         k \in dct[n[u][i].class]
                         <=> k < n[u][i].member /\ <<n[u][i].class, k>> \notin LeftOut
  BY DEF MembersSoFar
<1>3. /\ i \in 1 .. Len(m[u]) /\ m[u][i].op = "resolve"
      /\ n[u][i].class = m[u][i].class /\ n[u][i].member = m[u][i].member
  BY <1>2
<1>4. /\ mr[m[u][i].class] # <<>>
      /\ \A k \in Nat \ {0} :
           k \in dct[m[u][i].class]
           <=> k < m[u][i].member /\ <<m[u][i].class, k>> \notin LeftOut
  BY <1>3 DEF MembersSoFar
<1> QED
  BY <1>3, <1>4

\* ... and one that returns leaves the others as they are.
LEMMA MembersShrinks ==
  ASSUME NEW m \in Stacks, NEW n \in Stacks, NEW t \in Threads, Shrinks(m, n, t),
         NEW mr, NEW dct, MembersSoFar(m, mr, dct)
  PROVE  MembersSoFar(n, mr, dct)
<1>1. \A u \in Threads : \A i \in 1 .. Len(n[u]) :
        i \in 1 .. Len(m[u]) /\ n[u][i] = m[u][i]
  BY ShrinksWithin
<1> QED
  BY <1>1 DEF MembersSoFar

\* A call that begins, to resolve a type that has no members yet.
LEMMA MembersGrows ==
  ASSUME NEW m \in Stacks, NEW n \in Stacks, NEW t \in Threads, NEW f, Grows(m, n, t, f),
         NEW mr, NEW dct, MembersSoFar(m, mr, dct),
         f.op = "resolve" => mr[f.class] # <<>> /\ dct[f.class] = {} /\ f.member = 1
  PROVE  MembersSoFar(n, mr, dct)
<1>1. /\ \A u \in Threads : \A i \in 1 .. Len(n[u]) :
           \/ i \in 1 .. Len(m[u]) /\ n[u][i] = m[u][i]
           \/ u = t /\ i = Len(m[t]) + 1 /\ n[u][i] = f
  BY GrowsWithin
<1> SUFFICES ASSUME NEW u \in Threads, NEW i \in 1 .. Len(n[u]), n[u][i].op = "resolve"
             PROVE  /\ mr[n[u][i].class] # <<>>
                    /\ \A k \in Nat \ {0} :
                         k \in dct[n[u][i].class]
                         <=> k < n[u][i].member /\ <<n[u][i].class, k>> \notin LeftOut
  BY DEF MembersSoFar
<1>2. CASE i \in 1 .. Len(m[u]) /\ n[u][i] = m[u][i]
  <2>1. /\ mr[m[u][i].class] # <<>>
        /\ \A k \in Nat \ {0} :
             k \in dct[m[u][i].class]
             <=> k < m[u][i].member /\ <<m[u][i].class, k>> \notin LeftOut
    BY <1>2 DEF MembersSoFar
  <2> QED
    BY <1>2, <2>1
<1>3. CASE n[u][i] = f
  BY <1>3
<1> QED
  BY <1>1, <1>2, <1>3

\* The same of dictionaries and mros that differ in other types only.
LEMMA MembersSame ==
  ASSUME NEW m \in Stacks, NEW mr, NEW mr1, NEW dct, NEW dct1, NEW rng,
         CallsAreResolving(m, rng), MembersSoFar(m, mr, dct),
         \A c \in rng : /\ mr[c] # <<>> => mr1[c] # <<>>
                        /\ dct1[c] = dct[c]
  PROVE  MembersSoFar(m, mr1, dct1)
<1> SUFFICES ASSUME NEW u \in Threads, NEW i \in 1 .. Len(m[u]), m[u][i].op = "resolve"
             PROVE  /\ mr1[m[u][i].class] # <<>>
                    /\ \A k \in Nat \ {0} :
                         k \in dct1[m[u][i].class]
                         <=> k < m[u][i].member /\ <<m[u][i].class, k>> \notin LeftOut
  BY DEF MembersSoFar
<1>1. m[u][i].class \in rng
  BY DEF CallsAreResolving
<1>2. /\ mr[m[u][i].class] # <<>>
      /\ \A k \in Nat \ {0} :
           k \in dct[m[u][i].class]
           <=> k < m[u][i].member /\ <<m[u][i].class, k>> \notin LeftOut
  BY DEF MembersSoFar
<1> QED
  BY <1>1, <1>2

\* All calls of n are there to create sub classes and arrays of c, resolved.
ForSubtypesOf(c, n, t, rank) ==
  \A j \in 1 .. Len(n[t]) :
    /\ n[t][j].op = "get" /\ n[t][j].resolve = TRUE
    /\ rank[c] < rank[n[t][j].class]

\* Such a type is not in progress: it is new, or complete.
LEMMA NotInProgress ==
  ASSUME Sequential, NoFailure, NEW n \in Stacks, NEW t \in Threads, NEW c \in registered,
         NEW rank \in [Classes -> Nat], registered \subseteq Classes,
         Registration(n, registered, slotted), ForSubtypesOf(c, n, t, rank)
  PROVE  mro[c] # <<>>
<1>1. c \in slotted
  <2> SUFFICES ASSUME c \notin slotted PROVE FALSE
    OBVIOUS
  <2>1. PICK u \in Threads : \E i \in 1 .. Len(n[u]) :
          n[u][i].op = "get" /\ n[u][i].class = c
    BY DEF Registration, RegisteredAreCreated, CallOf
  <2>2. u = t
    BY DEF Sequential
  <2>3. PICK i \in 1 .. Len(n[t]) : n[t][i].class = c
    BY <2>1, <2>2
  <2>4. rank[c] < rank[c]
    BY <2>3 DEF ForSubtypesOf
  <2>5. rank[c] \in Nat
    OBVIOUS
  <2> QED
    BY <2>4, <2>5
<1> QED
  BY <1>1 DEF NoFailure, CompleteAreReady

\* Whoever asks for a type to be resolved needs it for a sub type, or has it complete.
LEMMA AsksMembers ==
  ASSUME Sequential, Core, NoFailure, NEW rank \in [Classes -> Nat], IsRank(rank),
         MembersOK(rank), NEW t \in Threads, NEW n \in Stacks,
         NEW c \in Classes \cup {NoClass}, NEW r \in BOOLEAN, Asks(t, c, r, n)
  PROVE  /\ Chained(n, rank) /\ MembersSoFar(n, mro, dict)
         /\ Calls(t, c, n) \/ Inherits(t, c, r, n) \/ Mentions(t, c, r, n) =>
              (r = TRUE /\ c # NoClass => ForSubtypesOf(c, n, t, rank))
         /\ Leaves(t, c, r, n) \/ Derives(t, c, n) => (c # NoClass => mro[c] # <<>>)
<1>1. /\ stack \in Stacks /\ Top(t) = stack[t][Len(stack[t])]
      /\ Chained(stack, rank) /\ MembersSoFar(stack, mro, dict)
      /\ CompleteAreReady(registered, slotted, mro)
      /\ \A u \in Threads : u = t
  BY TypeOKStacks DEF Core, NoFailure, MembersOK, Sequential, Top
<1>2. Chained(n, rank) /\ MembersSoFar(n, mro, dict)
  <2>1. CASE Calls(t, c, n)
    BY <1>1, <2>1 DEF Calls
  <2>2. CASE Leaves(t, c, r, n)
    <3>1. Shrinks(stack, n, t)
      BY <2>2 DEF Leaves
    <3> QED
      BY <1>1, <3>1, ChainedShrinks, MembersShrinks
  <2>3. CASE Inherits(t, c, r, n)
    <3>1. PICK f \in GetFrames : Steps(stack, n, t, f) /\ f.resolve = Top(t).resolve
      BY <2>3 DEF Inherits
    <3>2. f.op = "get" /\ f.resolve = stack[t][Len(stack[t])].resolve
      BY <1>1, <3>1 DEF GetFrames
    <3>3. f.op # "resolve"
      BY <3>2
    <3> QED
      BY <1>1, <3>1, <3>2, <3>3, ChainedSteps, MembersSteps
  <2>4. CASE Mentions(t, c, r, n) \/ Derives(t, c, n)
    <3>1. PICK f \in ResolveFrames : Steps(stack, n, t, f) /\ f.member = Top(t).member
      BY <2>4 DEF Mentions, Derives
    <3>2. f.op = "resolve" /\ f.member = stack[t][Len(stack[t])].member
      BY <1>1, <3>1 DEF ResolveFrames
    <3>3. f.op # "get"
      BY <3>2
    <3> QED
      BY <1>1, <3>1, <3>2, <3>3, ChainedSteps, MembersSteps
  <2> QED
    BY <2>1, <2>2, <2>3, <2>4 DEF Asks
<1>3. ASSUME Calls(t, c, n) \/ Inherits(t, c, r, n) \/ Mentions(t, c, r, n),
             r = TRUE, c # NoClass
      PROVE  ForSubtypesOf(c, n, t, rank)
  <2>1. CASE Calls(t, c, n)
    <3>1. n = stack /\ stack[t] = <<>>
      BY <2>1 DEF Calls, Sequential
    <3>2. \A j \in 1 .. Len(n[t]) : FALSE
      BY <3>1
    <3> QED
      BY <3>2 DEF ForSubtypesOf
  <2>2. CASE Inherits(t, c, r, n)
    <3> DEFINE l == Len(stack[t])
               k == Top(t).class
    <3>1. PICK f \in GetFrames :
            /\ Steps(stack, n, t, f) /\ Top(t) \in GetFrames
            /\ r = Top(t).resolve /\ f.resolve = Top(t).resolve
            /\ c = Super[k] \/ c = Component[k]
      BY <2>2 DEF Inherits
    <3>2. /\ l \in 1 .. l /\ Len(n[t]) = l /\ n[t][l] = f /\ f.class = k /\ f.op = "get"
          /\ stack[t][l] = Top(t) /\ k \in Classes
          /\ \A j \in 1 .. l : j # l => n[t][j] = stack[t][j]
      BY <1>1, <3>1, TopClass DEF Steps, SameCall, GetFrames
    <3>3. rank[c] < rank[k]
      BY <1>3, <3>1, <3>2 DEF IsRank
    <3>4. l \in Nat
      BY <1>1, StackFrame
    <3>5. \A j \in 1 .. l : j # l =>
            /\ stack[t][j].op = "get" /\ stack[t][j].resolve = TRUE
            /\ rank[k] < rank[stack[t][j].class]
      <4> SUFFICES ASSUME NEW j \in 1 .. l, j # l
                   PROVE  /\ stack[t][j].op = "get" /\ stack[t][j].resolve = TRUE
                          /\ rank[k] < rank[stack[t][j].class]
        OBVIOUS
      <4>1. j < l
        BY <3>4
      <4>2. stack[t][l].op = "get" /\ stack[t][l].resolve = TRUE
        BY <1>3, <3>1, <3>2, TopClass
      <4> QED
        BY <1>1, <3>2, <4>1, <4>2 DEF Chained
    <3>6. ForSubtypesOf(c, n, t, rank)
      <4> SUFFICES ASSUME NEW j \in 1 .. l
                   PROVE  /\ n[t][j].op = "get" /\ n[t][j].resolve = TRUE
                          /\ rank[c] < rank[n[t][j].class]
        BY <3>2 DEF ForSubtypesOf
      <4>1. CASE j = l
        BY <1>3, <3>1, <3>2, <3>3, <4>1
      <4>2. CASE j # l
        <5>1. n[t][j] = stack[t][j]
          BY <3>2, <4>2
        <5>2. /\ stack[t][j].op = "get" /\ stack[t][j].resolve = TRUE
              /\ rank[k] < rank[stack[t][j].class]
          BY <3>5, <4>2
        <5>3. stack[t][j].class \in Classes /\ c \in Classes
          <6>1. stack[t][j] \in Frames
            BY <1>1, StackFrame
          <6> QED
            BY <1>3, <6>1, FrameFacts
        <5> HIDE DEF l, k
        <5>4. rank[c] < rank[stack[t][j].class]
          <6>1. rank[c] \in Nat /\ rank[k] \in Nat /\ rank[stack[t][j].class] \in Nat
            BY <3>2, <5>3
          <6> QED
            BY <3>3, <5>2, <6>1
        <5> QED
          BY <5>1, <5>2, <5>4
      <4> QED
        BY <4>1, <4>2
    <3> QED
      BY <3>6
  <2>3. CASE Mentions(t, c, r, n)
    BY <1>3, <2>3 DEF Mentions
  <2> QED
    BY <1>3, <2>1, <2>2, <2>3
<1>4. ASSUME Leaves(t, c, r, n) \/ Derives(t, c, n), c # NoClass
      PROVE  mro[c] # <<>>
  <2>1. CASE Leaves(t, c, r, n)
    <3>1. Shrinks(stack, n, t) /\ Top(t).op = "get" /\ Top(t).at = "resolve" /\ c = Top(t).class
      BY <2>1, TopClass DEF Leaves
    <3>2. Len(stack[t]) \in 1 .. Len(stack[t])
      BY <3>1 DEF Shrinks
    <3>3. c \in slotted
      BY <1>1, <3>1, <3>2 DEF Core, Registration, CreatedAreRegistered
    <3> QED
      BY <1>1, <3>3 DEF CompleteAreReady
  <2>2. CASE Derives(t, c, n)
    <3>1. c = Base(Top(t).class)
      BY <2>2 DEF Derives
    <3>2. Top(t).class \in slotted /\ c = Super[Top(t).class]
      BY <1>4, <3>1 DEF Base
    <3> QED
      BY <1>1, <1>4, <3>2 DEF CompleteAreReady
  <2> QED
    BY <1>4, <2>1, <2>2
<1> QED
  BY <1>2, <1>3, <1>4

\* What the request comes to has the invariant, too.
LEMMA RequestMembers ==
  ASSUME Core, NEW rank, NEW t \in Threads, NEW n \in Stacks,
         NEW c \in Classes \cup {NoClass}, NEW r \in BOOLEAN,
         Resolution(n, registered, resolving, resolved),
         Chained(n, rank), MembersSoFar(n, mro, dict), OtherMembers(resolving, resolved, dict),
         \/ Returns(t, c, n)
         \/ Resolves(t, c, n) /\ mro[c] # <<>>
         \/ Creates(t, c, r, n) /\ (r = TRUE => ForSubtypesOf(c, n, t, rank))
  PROVE  /\ Chained(stack', rank) /\ MembersSoFar(stack', mro', dict')
         /\ OtherMembers(resolving', resolved', dict')
<1>0. /\ mro \in [Classes -> Seq(Classes)] /\ dict \in [Classes -> SUBSET (Nat \ {0})]
      /\ registered \subseteq Classes
  BY DEF Core, TypeOK
<1>1. CASE Returns(t, c, n)
  BY <1>1 DEF Returns
<1>2. CASE Resolves(t, c, n) /\ mro[c] # <<>>
  <2> DEFINE f == ResolveCall(c)
             new == stack'
  <2>1. /\ Grows(n, new, t, f) /\ new \in Stacks /\ f.op = "resolve" /\ f.class = c
        /\ f.member = 1 /\ f.op # "get"
        /\ resolving' = resolving \cup {c} /\ c \notin resolving /\ c \notin resolved
        /\ c \in Classes /\ mro' = mro /\ dict' = dict /\ resolved' = resolved
    BY <1>2, NewCalls DEF Resolves, Grows
  <2> HIDE DEF f, new
  <2>2. dict[c] = {}
    BY <2>1 DEF OtherMembers
  <2>3. Chained(new, rank)
    BY <2>1, ChainedGrows
  <2>4. MembersSoFar(new, mro, dict)
    BY <1>2, <2>1, <2>2, MembersGrows
  <2>5. OtherMembers(resolving \cup {c}, resolved, dict)
    BY DEF OtherMembers
  <2> QED
    BY <2>1, <2>3, <2>4, <2>5 DEF new
<1>3. CASE Creates(t, c, r, n) /\ (r = TRUE => ForSubtypesOf(c, n, t, rank))
  <2> DEFINE f == GetCall(c, r)
             new == stack'
  <2>1. /\ Grows(n, new, t, f) /\ new \in Stacks /\ f.op = "get" /\ f.class = c
        /\ f.resolve = r /\ f.op # "resolve" /\ c \notin registered /\ c \in Classes
        /\ resolving' = resolving \ {c} /\ resolved' = resolved \ {c}
        /\ mro' = [mro EXCEPT ![c] = <<>>] /\ dict' = [dict EXCEPT ![c] = {}]
    BY <1>3, NewCalls DEF Creates, Grows
  <2>2. /\ CallsAreResolving(n, resolving)
        /\ resolving \subseteq registered /\ resolved \subseteq registered
    BY DEF Resolution
  <2>3. resolving' = resolving /\ resolved' = resolved
    BY <2>1, <2>2
  <2> HIDE DEF f, new
  <2>4. \A d \in Classes : d # c => mro'[d] = mro[d] /\ dict'[d] = dict[d]
    BY <1>0, <2>1
  <2>5. dict'[c] = {}
    BY <1>0, <2>1
  <2>6. Chained(new, rank)
    <3>1. ASSUME f.op = "get" /\ f.resolve = TRUE, NEW j \in 1 .. Len(n[t])
          PROVE  /\ n[t][j].op = "get" /\ n[t][j].resolve = TRUE
                 /\ rank[f.class] < rank[n[t][j].class]
      <4>1. ForSubtypesOf(c, n, t, rank)
        BY <1>3, <2>1, <3>1
      <4> QED
        BY <2>1, <4>1 DEF ForSubtypesOf
    <3> QED
      BY <2>1, <3>1, ChainedGrows
  <2>7. \A d \in resolving : d \in Classes /\ d # c
    BY <1>0, <2>1, <2>2
  <2> DEFINE mr1 == mro'
             dct1 == dict'
  <2>8. \A d \in resolving : (mro[d] # <<>> => mr1[d] # <<>>) /\ dct1[d] = dict[d]
    BY <2>4, <2>7
  <2> HIDE DEF mr1, dct1
  <2>9. MembersSoFar(n, mr1, dct1)
    BY <2>2, <2>8, MembersSame
  <2>10. MembersSoFar(new, mr1, dct1)
    BY <2>1, <2>9, MembersGrows
  <2>11. OtherMembers(resolving, resolved, dict')
    <3>1. \A d \in resolved : d \in Classes /\ d # c
      BY <1>0, <2>1, <2>2
    <3> QED
      BY <2>4, <2>5, <3>1 DEF OtherMembers
  <2> QED
    BY <2>3, <2>6, <2>10, <2>11 DEF new, mr1, dct1
<1> QED
  BY <1>1, <1>2, <1>3

\* The member that the innermost call t is at is added, or rejected.
LEMMA MovesOnMembers ==
  ASSUME Core, NoFailure, NEW t \in Threads, MovesOn(t), MembersSoFar(stack, mro, dict)
  PROVE  MembersSoFar(stack', mro, dict')
<1> DEFINE new == stack'
           k == Top(t).class
           m == Top(t).member
           l == Len(stack[t])
<1>0. /\ stack \in Stacks /\ dict \in [Classes -> SUBSET (Nat \ {0})]
      /\ CallsAreResolving(stack, resolving) /\ OneCallEach(stack, "resolve")
  BY TypeOKStacks DEF Core, NoFailure, Resolution
<1>1. PICK f \in ResolveFrames :
        /\ Steps(stack, new, t, f)
        /\ \/ f.member = m /\ dict' = dict
           \/ /\ f.member = m + 1
              /\ \/ <<k, m>> \in LeftOut /\ dict' = dict
                 \/ /\ <<k, m>> \notin LeftOut
                    /\ dict' = [dict EXCEPT ![k] = @ \cup {m}]
                 \/ ~HasDict(k) /\ dict' = dict
  BY DEF MovesOn
<1>2. /\ Top(t).op = "resolve" /\ k \in Classes /\ m \in Nat \ {0}
      /\ l \in 1 .. l /\ stack[t][l] = Top(t)
  BY <1>1, TopClass DEF MovesOn, Steps, Top
<1>3. new \in Stacks /\ f.op = "resolve" /\ f.class = k
  BY <1>1, <1>2 DEF Steps, SameCall, ResolveFrames
<1> HIDE DEF new
<1>4. \A u \in Threads : \A i \in 1 .. Len(new[u]) :
        /\ i \in 1 .. Len(stack[u])
        /\ new[u][i] = stack[u][i] \/ (u = t /\ i = l /\ new[u][i] = f)
  BY <1>0, <1>1, <1>3, StepsWithin
<1>5. /\ mro[k] # <<>>
      /\ \A j \in Nat \ {0} : j \in dict[k] <=> j < m /\ <<k, j>> \notin LeftOut
  BY <1>2 DEF MembersSoFar
<1>6. \A c \in Classes : c # k => dict'[c] = dict[c]
  BY <1>0, <1>1
<1>7. \A j \in Nat \ {0} : j \in dict'[k] <=> j < f.member /\ <<k, j>> \notin LeftOut
  <2>1. CASE f.member = m /\ dict' = dict
    BY <1>5, <2>1
  <2>2. CASE f.member = m + 1 /\ <<k, m>> \in LeftOut /\ dict' = dict
    <3> SUFFICES ASSUME NEW j \in Nat \ {0}
                 PROVE  j \in dict[k] <=> j < m + 1 /\ <<k, j>> \notin LeftOut
      BY <2>2
    <3>1. j \in dict[k] <=> j < m /\ <<k, j>> \notin LeftOut
      BY <1>5
    <3>2. j < m + 1 <=> j < m \/ j = m
      BY <1>2
    <3> HIDE DEF k, m
    <3> QED
      BY <2>2, <3>1, <3>2
  <2>3. CASE /\ f.member = m + 1 /\ <<k, m>> \notin LeftOut
             /\ dict' = [dict EXCEPT ![k] = @ \cup {m}]
    <3>1. dict'[k] = dict[k] \cup {m}
      BY <1>0, <1>2, <2>3
    <3> SUFFICES ASSUME NEW j \in Nat \ {0}
                 PROVE  j \in dict[k] \cup {m} <=> j < m + 1 /\ <<k, j>> \notin LeftOut
      BY <2>3, <3>1
    <3>2. j \in dict[k] <=> j < m /\ <<k, j>> \notin LeftOut
      BY <1>5
    <3>3. j < m + 1 <=> j < m \/ j = m
      BY <1>2
    <3> HIDE DEF k, m
    <3> QED
      BY <2>3, <3>2, <3>3
  <2>4. ~(~HasDict(k))
    BY <1>5 DEF HasDict
  <2> HIDE DEF k, m
  <2> QED
    BY <1>1, <2>1, <2>2, <2>3, <2>4
<1>8. MembersSoFar(new, mro, dict')
  <2> SUFFICES ASSUME NEW u \in Threads, NEW i \in 1 .. Len(new[u]), new[u][i].op = "resolve"
               PROVE  /\ mro[new[u][i].class] # <<>>
                      /\ \A j \in Nat \ {0} :
                           j \in dict'[new[u][i].class]
                           <=> j < new[u][i].member /\ <<new[u][i].class, j>> \notin LeftOut
    BY DEF MembersSoFar
  <2>1. CASE u = t /\ i = l
    <3>1. new[u][i] = f
      BY <1>1, <2>1 DEF Steps
    <3> HIDE DEF k, m
    <3> QED
      BY <1>3, <1>5, <1>7, <3>1
  <2>2. CASE ~(u = t /\ i = l)
    <3>1. i \in 1 .. Len(stack[u]) /\ new[u][i] = stack[u][i] /\ stack[u][i].op = "resolve"
      BY <1>4, <2>2
    <3>2. stack[u][i].class # k
      BY <1>0, <1>2, <2>2, <3>1 DEF OneCallEach
    <3>3. stack[u][i].class \in Classes
      BY <1>0, <3>1, StackFrame, FrameFacts
    <3>4. dict'[stack[u][i].class] = dict[stack[u][i].class]
      BY <1>6, <3>2, <3>3
    <3>5. /\ mro[stack[u][i].class] # <<>>
          /\ \A j \in Nat \ {0} :
               j \in dict[stack[u][i].class]
               <=> j < stack[u][i].member /\ <<stack[u][i].class, j>> \notin LeftOut
      BY <3>1 DEF MembersSoFar
    <3> QED
      BY <3>1, <3>4, <3>5
  <2> QED
    BY <2>1, <2>2
<1> QED
  BY <1>8 DEF new

\* Every step without a failure preserves the invariant.
LEMMA StepMembers ==
  ASSUME Sequential, Core, NEW rank \in [Classes -> Nat], IsRank(rank), [Next]_vars,
         failures = 0 => NoFailure /\ MembersOK(rank), failures' = 0
  PROVE  MembersOK(rank)'
<1> DEFINE Goal == /\ Chained(stack', rank)
                   /\ MembersSoFar(stack', mro', dict')
                   /\ OtherMembers(resolving', resolved', dict')
<1>0. TypeOK' /\ TypeOK /\ stack \in Stacks /\ stack' \in Stacks /\ failures \in Nat
  BY StepTyped, BoundsAssumption DEF Core, TypeOK, Stacks, Frames
<1> SUFFICES Goal
  BY DEF MembersOK, Chained, MembersSoFar, OtherMembers
<1>00. ASSUME NEW t, NEW n, Fails(t, n)
       PROVE  FALSE
  BY <1>0, <1>00 DEF Fails
<1>000. ASSUME failures' = failures
        PROVE  /\ NoFailure /\ MembersOK(rank)
               /\ Chained(stack, rank) /\ MembersSoFar(stack, mro, dict)
               /\ OtherMembers(resolving, resolved, dict)
               /\ Resolution(stack, registered, resolving, resolved)
  BY <1>000 DEF MembersOK, NoFailure
<1>1. CASE UNCHANGED <<registered, slotted, mro, resolving, resolved, dict, stack,
                       given, failures>>
  BY <1>000, <1>1
<1>2. ASSUME NEW t \in Threads, NEW n \in Stacks, NEW c \in Classes \cup {NoClass},
             NEW r \in BOOLEAN, Asks(t, c, r, n), failures' = failures,
             \/ Returns(t, c, n)
             \/ Resolves(t, c, n) /\ mro[c] # <<>>
             \/ Creates(t, c, r, n) /\ (r = TRUE => ForSubtypesOf(c, n, t, rank))
      PROVE  Goal
  <2>1. /\ NoFailure /\ MembersOK(rank) /\ OtherMembers(resolving, resolved, dict)
    BY <1>000, <1>2
  <2>2. Resolution(n, registered, resolving, resolved)
    BY <1>2, <2>1, AsksNoFailure
  <2>3. Chained(n, rank) /\ MembersSoFar(n, mro, dict)
    BY <1>2, <2>1, AsksMembers
  <2> QED
    BY <1>2, <2>1, <2>2, <2>3, RequestMembers
<1>3. ASSUME NEW t \in Threads, NEW n \in Stacks, NEW c \in Classes \cup {NoClass},
             NEW r \in BOOLEAN, Gets(t, c, r, n)
      PROVE  Goal
  <2>1. \/ Returns(t, c, n)
        \/ c \in registered /\ r /\ Resolves(t, c, n)
        \/ Creates(t, c, r, n)
    BY <1>00, <1>3 DEF Gets
  <2>2. failures' = failures
    BY <2>1 DEF Returns, Resolves, Creates
  <2>3. Asks(t, c, r, n) /\ (Calls(t, c, n) \/ Inherits(t, c, r, n) \/ Mentions(t, c, r, n))
    BY <1>3 DEF Gets, Asks
  <2>4. NoFailure /\ MembersOK(rank)
    BY <1>000, <2>2
  <2>5. r = TRUE /\ c # NoClass => ForSubtypesOf(c, n, t, rank)
    BY <2>3, <2>4, AsksMembers
  <2>6. registered \subseteq Classes /\ NoClass \notin Classes
    BY <1>0, ClassesAssumption DEF TypeOK
  <2>7. c \in registered /\ r /\ Resolves(t, c, n) => mro[c] # <<>>
    <3> SUFFICES ASSUME c \in registered, r
                 PROVE  mro[c] # <<>>
      OBVIOUS
    <3>1. ForSubtypesOf(c, n, t, rank)
      BY <2>5, <2>6
    <3>2. Registration(n, registered, slotted)
      BY <2>3, AsksCore
    <3> QED
      BY <2>4, <2>6, <3>1, <3>2, NotInProgress
  <2>8. Creates(t, c, r, n) => (r = TRUE => ForSubtypesOf(c, n, t, rank))
    BY <2>5, <2>6 DEF Creates
  <2> HIDE DEF Goal
  <2> QED
    BY <1>2, <2>1, <2>2, <2>3, <2>7, <2>8
<1>4. ASSUME NEW t \in Threads, NEW n \in Stacks, NEW c \in Classes, NEW r \in BOOLEAN,
             Completes(t, c, r, n)
      PROVE  Goal
  <2>1. Leaves(t, c, r, n) /\ (Returns(t, c, n) \/ Resolves(t, c, n))
    BY <1>4 DEF Completes
  <2>2. failures' = failures
    BY <2>1 DEF Returns, Resolves
  <2>3. Asks(t, c, r, n) /\ c \in Classes \cup {NoClass} /\ c # NoClass
    BY <2>1, ClassesAssumption DEF Asks
  <2>4. mro[c] # <<>>
    BY <1>000, <2>1, <2>2, <2>3, AsksMembers
  <2> HIDE DEF Goal
  <2> QED
    BY <1>2, <2>1, <2>2, <2>3, <2>4
<1>5. ASSUME NEW t \in Threads, NEW n \in Stacks, NEW c \in Classes \cup {NoClass},
             GoesUp(t, c, n)
      PROVE  Goal
  <2>1. Derives(t, c, n) /\ (Returns(t, c, n) \/ Resolves(t, c, n))
    BY <1>5 DEF GoesUp
  <2>2. failures' = failures
    BY <2>1 DEF Returns, Resolves
  <2>3. Asks(t, c, TRUE, n) /\ TRUE \in BOOLEAN
    BY <2>1 DEF Asks
  <2>4. c # NoClass => mro[c] # <<>>
    BY <1>000, <2>1, <2>2, <2>3, AsksMembers
  <2>5. Resolves(t, c, n) => c # NoClass
    BY ClassesAssumption DEF Resolves
  <2> HIDE DEF Goal
  <2> QED
    BY <1>2, <2>1, <2>2, <2>3, <2>4, <2>5
<1>6. ASSUME NEW t \in Threads, Abandons(t)
      PROVE  Goal
  BY <1>00, <1>6 DEF Abandons
<1>7. ASSUME NEW t \in Threads, Readies(t)
      PROVE  Goal
  <2> DEFINE new == stack'
             k == Top(t).class
             l == Len(stack[t])
  <2>1. PICK f \in GetFrames :
          /\ Steps(stack, new, t, f) /\ f.resolve = Top(t).resolve
          /\ Top(t) \in GetFrames /\ Ready(k, Super[k])
    BY <1>7 DEF Readies
  <2>2. UNCHANGED <<resolving, resolved, dict, failures>> /\ new \in Stacks
    BY <1>0, <1>7 DEF Readies
  <2>3. /\ f.op = "get" /\ f.op # "resolve" /\ f.resolve = stack[t][l].resolve
        /\ k \in Classes /\ Super[k] \in Classes \cup {NoClass}
    BY <2>1, TopClass DEF GetFrames, Top
  <2>4. /\ Chained(stack, rank) /\ MembersSoFar(stack, mro, dict)
        /\ OtherMembers(resolving, resolved, dict)
        /\ Resolution(stack, registered, resolving, resolved)
    BY <1>000, <2>2
  <2>5. \A d \in Classes : HasDict(d) => mro'[d] = mro[d]
    BY <1>0, <2>1, <2>3, ReadyFacts DEF TypeOK
  <2> DEFINE mr1 == mro'
  <2>6. \A d \in resolving : (mro[d] # <<>> => mr1[d] # <<>>) /\ dict[d] = dict[d]
    <3>1. resolving \subseteq Classes
      BY <1>0 DEF TypeOK
    <3> QED
      BY <2>5, <3>1 DEF HasDict
  <2> HIDE DEF new, mr1
  <2>7. Chained(new, rank)
    BY <1>0, <2>1, <2>2, <2>3, <2>4, ChainedSteps
  <2>8. CallsAreResolving(stack, resolving)
    BY <2>4 DEF Resolution
  <2>9. MembersSoFar(stack, mr1, dict)
    BY <1>0, <2>4, <2>6, <2>8, MembersSame
  <2>10. MembersSoFar(new, mr1, dict)
    BY <1>0, <2>1, <2>2, <2>3, <2>9, MembersSteps
  <2> QED
    BY <2>2, <2>4, <2>7, <2>10 DEF new, mr1
<1>8. ASSUME NEW t \in Threads, MovesOn(t)
      PROVE  Goal
  <2> DEFINE new == stack'
             k == Top(t).class
             l == Len(stack[t])
  <2>1. PICK f \in ResolveFrames : Steps(stack, new, t, f)
    BY <1>8 DEF MovesOn
  <2>2. UNCHANGED <<registered, slotted, mro, resolving, resolved, failures>> /\ new \in Stacks
    BY <1>0, <1>8 DEF MovesOn
  <2>3. f.op = "resolve" /\ f.op # "get"
    BY DEF ResolveFrames
  <2>4. /\ Chained(stack, rank) /\ MembersSoFar(stack, mro, dict)
        /\ OtherMembers(resolving, resolved, dict) /\ NoFailure
        /\ Resolution(stack, registered, resolving, resolved)
    BY <1>000, <2>2
  <2>5. /\ Top(t).op = "resolve" /\ k \in Classes /\ l \in 1 .. l /\ stack[t][l] = Top(t)
    BY <1>8, <2>1, TopClass DEF MovesOn, Steps, Top
  <2>6. k \in resolving /\ k \notin resolved
    BY <2>4, <2>5 DEF Resolution, CallsAreResolving
  <2>7. MembersSoFar(new, mro, dict')
    BY <1>8, <2>4, MovesOnMembers
  <2> HIDE DEF new
  <2>8. Chained(new, rank)
    BY <1>0, <2>1, <2>2, <2>3, <2>4, ChainedSteps
  <2>9. \A c \in Classes : c # k => dict'[c] = dict[c]
    <3>1. dict' = dict \/ dict' = [dict EXCEPT ![k] = @ \cup {Top(t).member}]
      BY <1>8 DEF MovesOn
    <3> QED
      BY <1>0, <3>1 DEF TypeOK
  <2>10. OtherMembers(resolving, resolved, dict')
    <3>1. \A c \in resolved : c \in Classes /\ c # k
      BY <1>0, <2>6 DEF TypeOK
    <3> HIDE DEF k
    <3> QED
      BY <2>4, <2>6, <2>9, <3>1 DEF OtherMembers
  <2> QED
    BY <2>2, <2>7, <2>8, <2>10 DEF new
<1>9. ASSUME NEW t \in Threads, Finishes(t)
      PROVE  Goal
  <2> DEFINE new == stack'
             k == Top(t).class
             l == Len(stack[t])
             m == Top(t).member
  <2>1. /\ Shrinks(stack, new, t) /\ Top(t).op = "resolve" /\ k \in Classes
        /\ m \in Nat \ {0} /\ m > Len(Members[k])
        /\ resolving' = resolving \ {k} /\ resolved' = resolved \cup {k}
        /\ UNCHANGED <<registered, slotted, mro, dict, gil, failures>> /\ new \in Stacks
    BY <1>0, <1>9, TopClass DEF Finishes
  <2>2. /\ Chained(stack, rank) /\ MembersSoFar(stack, mro, dict)
        /\ OtherMembers(resolving, resolved, dict) /\ NoFailure
    BY <1>000, <2>1
  <2>3. stack[t][l] = Top(t) /\ l \in 1 .. l
    BY <2>1 DEF Top, Shrinks
  <2>4. \A j \in Nat \ {0} : j \in dict[k] <=> j < m /\ <<k, j>> \notin LeftOut
    BY <2>1, <2>2, <2>3 DEF MembersSoFar
  <2> HIDE DEF new
  <2>5. Chained(new, rank) /\ MembersSoFar(new, mro, dict)
    BY <1>0, <2>1, <2>2, ChainedShrinks, MembersShrinks
  <2>6. \A j \in 1 .. Len(Members[k]) : j \in dict[k] <=> <<k, j>> \notin LeftOut
    <3>1. Len(Members[k]) \in Nat
      <4>1. Members[k] \in Seq(Seq(Classes))
        BY <2>1, ClassesAssumption
      <4> QED
        BY <4>1
    <3> SUFFICES ASSUME NEW j \in 1 .. Len(Members[k])
                 PROVE  j \in dict[k] <=> <<k, j>> \notin LeftOut
      OBVIOUS
    <3>2. j \in Nat \ {0} /\ j < m
      BY <2>1, <3>1
    <3> QED
      BY <2>4, <3>2
  <2>7. OtherMembers(resolving \ {k}, resolved \cup {k}, dict)
    <3> HIDE DEF k
    <3> QED
      BY <2>2, <2>6 DEF OtherMembers
  <2> HIDE DEF k
  <2> QED
    BY <2>1, <2>5, <2>7 DEF new
<1> HIDE DEF Goal
<1> QED
  BY <1>0, <1>1, <1>3, <1>4, <1>5, <1>6, <1>7, <1>8, <1>9, NextCases

\* Initially there are no calls and no members.
LEMMA InitMembers ==
  ASSUME Init, NEW rank
  PROVE  MembersOK(rank)
<1>1. \A u \in Threads : \A i \in 1 .. Len(stack[u]) : FALSE
  BY DEF Init
<1>2. Chained(stack, rank) /\ MembersSoFar(stack, mro, dict)
  BY <1>1 DEF Chained, MembersSoFar
<1>3. OtherMembers(resolving, resolved, dict)
  BY DEF Init, OtherMembers
<1> QED
  BY <1>2, <1>3 DEF MembersOK

\* A type that JType_ResolveType has resolved has exactly the members that the callback
\* has not rejected, unless an allocation has failed, for all class graphs in which super
\* classes and components end, if one thread calls jpy.get_type and callbacks do not.
THEOREM ResolvedIsCompleteInSequence ==
  ASSUME Sequential, NEW rank \in [Classes -> Nat], IsRank(rank)
  PROVE  Spec => []ResolvedIsComplete
<1> DEFINE I == Sound /\ (failures = 0 => MembersOK(rank))
<1>1. Init => I
  BY InitCore, InitNoFailure, InitMembers DEF Sound
<1>2. I /\ [Next]_vars => I'
  <2> SUFFICES ASSUME I, [Next]_vars PROVE I'
    OBVIOUS
  <2>1. Sound'
    BY StepCore, StepNoFailure DEF Sound
  <2>2. failures' = 0 => MembersOK(rank)'
    BY StepMembers DEF Sound
  <2> QED
    BY <2>1, <2>2
<1>3. I => ResolvedIsComplete
  BY DEF MembersOK, OtherMembers, ResolvedIsComplete
<1> HIDE DEF I
<1> QED
  BY <1>1, <1>2, <1>3, PTL DEF Spec

-----------------------------------------------------------------------------
(* The class hierarchy *)

\* Ancestors are what they should be: super classes and components, theirs, ...
LEMMA AncestorFacts ==
  /\ \A c \in Classes : /\ Ancestors[c] \subseteq Classes
                        /\ Super[c] # NoClass => Super[c] \in Ancestors[c]
                        /\ Component[c] # NoClass => Component[c] \in Ancestors[c]
  /\ \A c, d, e \in Classes : d \in Ancestors[c] /\ e \in Ancestors[d] => e \in Ancestors[c]
<1>1. \A c \in Classes : Ancestors[c] = {d \in Classes : \A R \in Ancestries : <<c, d>> \in R}
  BY DEF Ancestors
<1>2. \A c \in Classes : Super[c] \in Classes \cup {NoClass} /\ Component[c] \in Classes \cup {NoClass}
  BY ClassesAssumption
<1>3. \A c \in Classes : /\ Super[c] # NoClass => Super[c] \in Ancestors[c]
                         /\ Component[c] # NoClass => Component[c] \in Ancestors[c]
  BY <1>1, <1>2 DEF Ancestries
<1>4. ASSUME NEW c \in Classes, NEW d \in Classes, NEW e \in Classes,
             d \in Ancestors[c], e \in Ancestors[d]
      PROVE  e \in Ancestors[c]
  <2>1. \A R \in Ancestries : <<c, d>> \in R /\ <<d, e>> \in R
    BY <1>1, <1>4
  <2>2. \A R \in Ancestries : <<c, e>> \in R
    BY <2>1 DEF Ancestries
  <2> QED
    BY <1>1, <2>2
<1> QED
  BY <1>1, <1>3, <1>4

\* ... and no class is one of its own.
LEMMA NoOwnAncestor ==
  ASSUME NEW rank \in [Classes -> Nat], IsRank(rank), NEW c \in Classes
  PROVE  c \notin Ancestors[c]
<1> DEFINE R == {p \in Classes \X Classes : rank[p[2]] < rank[p[1]]}
<1>1. \A d, e \in Classes : <<d, e>> \in R <=> rank[e] < rank[d]
  OBVIOUS
<1>2. R \in SUBSET (Classes \X Classes)
  OBVIOUS
<1> HIDE DEF R
<1>3. \A d \in Classes : rank[d] \in Nat
  OBVIOUS
<1>4. \A d \in Classes : /\ Super[d] # NoClass => <<d, Super[d]>> \in R
                         /\ Component[d] # NoClass => <<d, Component[d]>> \in R
  BY <1>1, ClassesAssumption DEF IsRank
<1>5. ASSUME NEW d \in Classes, NEW e \in Classes, NEW f \in Classes,
             <<d, e>> \in R, <<e, f>> \in R
      PROVE  <<d, f>> \in R
  <2>1. rank[e] < rank[d] /\ rank[f] < rank[e]
    BY <1>1, <1>5
  <2>2. rank[d] \in Nat /\ rank[e] \in Nat /\ rank[f] \in Nat
    BY <1>3
  <2>3. rank[f] < rank[d]
    BY <2>1, <2>2
  <2> QED
    BY <1>1, <2>3
<1>6. R \in Ancestries
  BY <1>2, <1>4, <1>5 DEF Ancestries
<1>7. <<c, c>> \notin R
  BY <1>1, <1>3
<1> QED
  BY <1>6, <1>7 DEF Ancestors

\* The type of d may be needed to create the type of c, for a super class of which it
\* is created when that is resolved.
Leads(c, d) ==
  \/ d \in Ancestors[c]
  \/ \E e \in Ancestors[c] : \E k \in MentionedBy(e) : d \in {k} \cup Ancestors[k]

\* The call g is above the call f.
Under(f, g) ==
  f.op = "get" =>
    IF g.op = "get" /\ g.resolve = FALSE THEN Leads(f.class, g.class)
    ELSE g.class \in Ancestors[f.class]

\* A type that is being created needs the types of the calls above.
Nested(stk) ==
  \A u \in Threads : \A i \in 1 .. Len(stk[u]) : \A j \in 1 .. Len(stk[u]) :
    j < i => Under(stk[u][j], stk[u][i])

\* Either way the call above is needed.
LEMMA UnderLeads ==
  ASSUME NEW f, NEW g, Under(f, g), f.op = "get"
  PROVE  Leads(f.class, g.class)
  BY DEF Under, Leads

\* What is needed needs its super classes and components, too.
LEMMA LeadsUp ==
  ASSUME NEW c \in Classes, NEW d \in Classes, NEW e \in Classes, Leads(c, d),
         e \in Ancestors[d]
  PROVE  Leads(c, e)
<1>1. CASE d \in Ancestors[c]
  BY <1>1, AncestorFacts DEF Leads
<1>2. CASE \E b \in Ancestors[c] : \E k \in MentionedBy(b) : d \in {k} \cup Ancestors[k]
  <2>0. PICK b \in Ancestors[c] : \E k \in MentionedBy(b) : d \in {k} \cup Ancestors[k]
    BY <1>2
  <2>1. PICK k \in MentionedBy(b) : d \in {k} \cup Ancestors[k]
    BY <2>0
  <2>2. k \in Classes
    BY DEF MentionedBy
  <2>3. e \in {k} \cup Ancestors[k]
    BY <2>1, <2>2, AncestorFacts
  <2> QED
    BY <2>3 DEF Leads
<1> QED
  BY <1>1, <1>2 DEF Leads

\* A class is not needed to create the type of its super class.
LEMMA SuperLeadsNot ==
  ASSUME NEW rank \in [Classes -> Nat], IsRank(rank), NoGrandchildMentioned,
         NEW c \in Classes, Super[c] # NoClass
  PROVE  ~Leads(Super[c], c)
<1>1. Super[c] \in Classes /\ Super[c] \in Ancestors[c]
  BY ClassesAssumption, AncestorFacts
<1>2. c \notin Ancestors[Super[c]]
  BY <1>1, AncestorFacts, NoOwnAncestor
<1>3. ASSUME NEW b \in Ancestors[Super[c]],
             NEW k \in MentionedBy(b), c \in {k} \cup Ancestors[k]
      PROVE  FALSE
  <2>1. b \in Classes
    BY <1>1, AncestorFacts
  <2> QED
    BY <1>3, <2>1 DEF NoGrandchildMentioned
<1> QED
  BY <1>2, <1>3 DEF Leads

\* The calls n are calls of m, and for the same purpose.
LEMMA NestedWithin ==
  ASSUME NEW m \in Stacks, NEW n \in Stacks, Nested(m),
         \A u \in Threads : \A i \in 1 .. Len(n[u]) :
           /\ i \in 1 .. Len(m[u])
           /\ n[u][i].op = m[u][i].op /\ n[u][i].class = m[u][i].class
           /\ n[u][i].op = "get" => n[u][i].resolve = m[u][i].resolve
  PROVE  Nested(n)
<1> SUFFICES ASSUME NEW u \in Threads, NEW i \in 1 .. Len(n[u]), NEW j \in 1 .. Len(n[u]), j < i
             PROVE  Under(n[u][j], n[u][i])
  BY DEF Nested
<1>1. i \in 1 .. Len(m[u]) /\ j \in 1 .. Len(m[u])
  OBVIOUS
<1>2. Under(m[u][j], m[u][i])
  BY <1>1 DEF Nested
<1> DEFINE f == m[u][j]
           g == m[u][i]
           f1 == n[u][j]
           g1 == n[u][i]
<1>3. /\ f1.op = f.op /\ f1.class = f.class /\ g1.op = g.op /\ g1.class = g.class
      /\ g1.op = "get" => g1.resolve = g.resolve
  OBVIOUS
<1>4. Under(f, g)
  BY <1>2
<1> HIDE DEF f, g, f1, g1
<1>5. Under(f1, g1)
  BY <1>3, <1>4 DEF Under
<1> QED
  BY <1>5 DEF f1, g1

\* The innermost call goes on, ...
LEMMA NestedSteps ==
  ASSUME NEW m \in Stacks, NEW n \in Stacks, NEW t \in Threads, NEW f, Steps(m, n, t, f),
         f.op = "get" => f.resolve = m[t][Len(m[t])].resolve, Nested(m)
  PROVE  Nested(n)
<1> DEFINE l == Len(m[t])
           g == m[t][l]
<1>1. /\ l \in 1 .. l /\ SameCall(g, f)
      /\ \A u \in Threads : \A i \in 1 .. Len(n[u]) :
           /\ i \in 1 .. Len(m[u])
           /\ n[u][i] = m[u][i] \/ (u = t /\ i = l /\ n[u][i] = f)
  BY StepsWithin
<1>2. \A u \in Threads : \A i \in 1 .. Len(n[u]) :
        /\ i \in 1 .. Len(m[u])
        /\ n[u][i].op = m[u][i].op /\ n[u][i].class = m[u][i].class
        /\ n[u][i].op = "get" => n[u][i].resolve = m[u][i].resolve
  BY <1>1 DEF SameCall
<1> QED
  BY <1>2, NestedWithin

\* ... or returns, ...
LEMMA NestedShrinks ==
  ASSUME NEW m \in Stacks, NEW n \in Stacks, NEW t \in Threads, Shrinks(m, n, t), Nested(m)
  PROVE  Nested(n)
<1>1. \A u \in Threads : \A i \in 1 .. Len(n[u]) :
        i \in 1 .. Len(m[u]) /\ n[u][i] = m[u][i]
  BY ShrinksWithin
<1>2. \A u \in Threads : \A i \in 1 .. Len(n[u]) :
        /\ i \in 1 .. Len(m[u])
        /\ n[u][i].op = m[u][i].op /\ n[u][i].class = m[u][i].class
        /\ n[u][i].op = "get" => n[u][i].resolve = m[u][i].resolve
  BY <1>1
<1> QED
  BY <1>2, NestedWithin

\* ... or fails, ...
LEMMA NestedCuts ==
  ASSUME NEW m \in Stacks, NEW n \in Stacks, NEW t \in Threads, NEW l, Cuts(m, n, t, l),
         Nested(m)
  PROVE  Nested(n)
<1>0. Within(n, m)
  BY CutsWithin
<1>1. \A u \in Threads : \A i \in 1 .. Len(n[u]) :
        /\ i \in 1 .. Len(m[u]) /\ SameCall(n[u][i], m[u][i])
        /\ n[u][i] = m[u][i] \/ n[u][i].op = "resolve"
  <2>1. \A u \in Threads : \A i \in 1 .. Len(n[u]) :
          n[u][i] = m[u][i] \/ n[u][i].op = "resolve"
    BY CutsWithin
  <2> QED
    BY <1>0, <2>1 DEF Within
<1>2. \A u \in Threads : \A i \in 1 .. Len(n[u]) :
        /\ i \in 1 .. Len(m[u])
        /\ n[u][i].op = m[u][i].op /\ n[u][i].class = m[u][i].class
        /\ n[u][i].op = "get" => n[u][i].resolve = m[u][i].resolve
  BY <1>1 DEF SameCall
<1> QED
  BY <1>2, NestedWithin

\* ... or makes a call.
LEMMA NestedGrows ==
  ASSUME NEW m \in Stacks, NEW n \in Stacks, NEW t \in Threads, NEW f, Grows(m, n, t, f),
         Nested(m), \A j \in 1 .. Len(m[t]) : Under(m[t][j], f)
  PROVE  Nested(n)
<1>1. /\ \A u \in Threads : \A i \in 1 .. Len(n[u]) :
           \/ i \in 1 .. Len(m[u]) /\ n[u][i] = m[u][i]
           \/ u = t /\ i = Len(m[t]) + 1 /\ n[u][i] = f
  BY GrowsWithin
<1>2. \A u \in Threads : Len(m[u]) \in Nat
  BY StackFrame
<1> SUFFICES ASSUME NEW u \in Threads, NEW i \in 1 .. Len(n[u]), NEW j \in 1 .. Len(n[u]), j < i
             PROVE  Under(n[u][j], n[u][i])
  BY DEF Nested
<1>3. CASE i \in 1 .. Len(m[u]) /\ n[u][i] = m[u][i]
  <2>1. ~(u = t /\ j = Len(m[t]) + 1)
    BY <1>2, <1>3
  <2>2. j \in 1 .. Len(m[u]) /\ n[u][j] = m[u][j]
    BY <1>1, <2>1
  <2> QED
    BY <1>3, <2>2 DEF Nested
<1>4. CASE u = t /\ i = Len(m[t]) + 1 /\ n[u][i] = f
  <2>1. ~(u = t /\ j = Len(m[t]) + 1)
    BY <1>2, <1>4
  <2>2. j \in 1 .. Len(m[t]) /\ n[t][j] = m[t][j]
    BY <1>1, <1>4, <2>1
  <2> QED
    BY <1>4, <2>2
<1> QED
  BY <1>1, <1>3, <1>4

\* A type waits for its super class to be complete before it goes on to its component
\* class and its slots.  The type of c is about to be asked for.
SupersFirst(stk, slo, c) ==
  \A u \in Threads : \A i \in 1 .. Len(stk[u]) :
    stk[u][i].op = "get" /\ stk[u][i].at \in {"component", "slots"} =>
      \/ Super[stk[u][i].class] \in slo \cup {NoClass}
      \/ i = Len(stk[u]) /\ Super[stk[u][i].class] = c
      \/ /\ i + 1 \in 1 .. Len(stk[u])
         /\ stk[u][i + 1].op = "get" /\ stk[u][i + 1].class = Super[stk[u][i].class]

\* More types may be complete.
LEMMA SupersFirstMore ==
  ASSUME NEW stk, NEW slo, NEW slo1, NEW c, NEW d, SupersFirst(stk, slo, c), slo \subseteq slo1,
         c = d \/ c \in slo1 \cup {NoClass}
  PROVE  SupersFirst(stk, slo1, d)
  BY DEF SupersFirst

\* The innermost call goes on, and asks for c; ...
LEMMA SupersFirstSteps ==
  ASSUME NEW m \in Stacks, NEW n \in Stacks, NEW t \in Threads, NEW f, Steps(m, n, t, f),
         NEW slo, NEW c, SupersFirst(m, slo, NoClass),
         f.op = "get" /\ f.at \in {"component", "slots"} =>
           Super[f.class] \in slo \cup {NoClass, c}
  PROVE  SupersFirst(n, slo, c)
<1>1. /\ Within(m, n) /\ Len(n[t]) = Len(m[t])
      /\ \A u \in Threads : \A i \in 1 .. Len(n[u]) :
           /\ i \in 1 .. Len(m[u])
           /\ n[u][i] = m[u][i] \/ (u = t /\ i = Len(m[t]) /\ n[u][i] = f)
  BY StepsWithin
<1> SUFFICES ASSUME NEW u \in Threads, NEW i \in 1 .. Len(n[u]),
                    n[u][i].op = "get", n[u][i].at \in {"component", "slots"}
             PROVE  \/ Super[n[u][i].class] \in slo \cup {NoClass}
                    \/ i = Len(n[u]) /\ Super[n[u][i].class] = c
                    \/ /\ i + 1 \in 1 .. Len(n[u])
                       /\ n[u][i + 1].op = "get"
                       /\ n[u][i + 1].class = Super[n[u][i].class]
  BY DEF SupersFirst
<1>2. CASE u = t /\ i = Len(m[t]) /\ n[u][i] = f
  BY <1>1, <1>2
<1>3. CASE i \in 1 .. Len(m[u]) /\ n[u][i] = m[u][i]
  <2>1. \/ Super[m[u][i].class] \in slo \cup {NoClass}
        \/ /\ i + 1 \in 1 .. Len(m[u])
           /\ m[u][i + 1].op = "get" /\ m[u][i + 1].class = Super[m[u][i].class]
    BY <1>3 DEF SupersFirst
  <2>2. i + 1 \in 1 .. Len(m[u]) =>
          i + 1 \in 1 .. Len(n[u]) /\ SameCall(m[u][i + 1], n[u][i + 1])
    BY <1>1 DEF Within
  <2> QED
    BY <1>3, <2>1, <2>2 DEF SameCall
<1> QED
  BY <1>1, <1>2, <1>3

\* ... it returns, with a complete type, if it has created one; ...
LEMMA SupersFirstShrinks ==
  ASSUME NEW m \in Stacks, NEW n \in Stacks, NEW t \in Threads, Shrinks(m, n, t),
         NEW slo, SupersFirst(m, slo, NoClass),
         m[t][Len(m[t])].op = "get" => m[t][Len(m[t])].class \in slo
  PROVE  SupersFirst(n, slo, NoClass)
<1>1. /\ \A u \in Threads : \A i \in 1 .. Len(n[u]) :
           i \in 1 .. Len(m[u]) /\ n[u][i] = m[u][i] /\ (u = t => i # Len(m[t]))
      /\ \A u \in Threads : \A i \in 1 .. Len(m[u]) :
           i \in 1 .. Len(n[u]) \/ (u = t /\ i = Len(m[t]))
  BY ShrinksWithin
<1> SUFFICES ASSUME NEW u \in Threads, NEW i \in 1 .. Len(n[u]),
                    n[u][i].op = "get", n[u][i].at \in {"component", "slots"}
             PROVE  \/ Super[n[u][i].class] \in slo \cup {NoClass}
                    \/ /\ i + 1 \in 1 .. Len(n[u])
                       /\ n[u][i + 1].op = "get"
                       /\ n[u][i + 1].class = Super[n[u][i].class]
  BY DEF SupersFirst
<1>2. i \in 1 .. Len(m[u]) /\ n[u][i] = m[u][i]
  BY <1>1
<1>3. \/ Super[m[u][i].class] \in slo \cup {NoClass}
      \/ /\ i + 1 \in 1 .. Len(m[u])
         /\ m[u][i + 1].op = "get" /\ m[u][i + 1].class = Super[m[u][i].class]
  BY <1>2 DEF SupersFirst
<1>4. CASE Super[m[u][i].class] \in slo \cup {NoClass}
  BY <1>2, <1>4
<1>5. CASE /\ i + 1 \in 1 .. Len(m[u])
           /\ m[u][i + 1].op = "get" /\ m[u][i + 1].class = Super[m[u][i].class]
  <2> DEFINE k == i + 1
  <2>1. k \in 1 .. Len(m[u]) /\ m[u][k].op = "get" /\ m[u][k].class = Super[m[u][i].class]
    BY <1>5
  <2> HIDE DEF k
  <2>2. CASE u = t /\ k = Len(m[t])
    BY <1>2, <2>1, <2>2
  <2>3. CASE k \in 1 .. Len(n[u])
    <3>1. n[u][k] = m[u][k]
      BY <1>1, <2>3
    <3> QED
      BY <1>2, <2>1, <2>3, <3>1 DEF k
  <2> QED
    BY <1>1, <2>1, <2>2, <2>3
<1> QED
  BY <1>3, <1>4, <1>5

\* ... it calls for the type that it asks for, or for another one to be resolved; ...
LEMMA SupersFirstGrows ==
  ASSUME Sequential,
         NEW m \in Stacks, NEW n \in Stacks, NEW t \in Threads, NEW f, Grows(m, n, t, f),
         NEW slo, NEW c, SupersFirst(m, slo, c),
         IF f.op = "get" THEN f.class = c /\ f.at = "super" ELSE c \in slo \cup {NoClass}
  PROVE  SupersFirst(n, slo, NoClass)
<1>1. /\ Len(m[t]) + 1 \in 1 .. Len(n[t]) /\ n[t][Len(m[t]) + 1] = f
      /\ \A u \in Threads : \A i \in 1 .. Len(m[u]) :
           i \in 1 .. Len(n[u]) /\ n[u][i] = m[u][i]
      /\ \A u \in Threads : \A i \in 1 .. Len(n[u]) :
           \/ i \in 1 .. Len(m[u]) /\ n[u][i] = m[u][i]
           \/ u = t /\ i = Len(m[t]) + 1 /\ n[u][i] = f
  BY GrowsWithin
<1>2. \A u \in Threads : u = t
  BY DEF Sequential
<1> SUFFICES ASSUME NEW u \in Threads, NEW i \in 1 .. Len(n[u]),
                    n[u][i].op = "get", n[u][i].at \in {"component", "slots"}
             PROVE  \/ Super[n[u][i].class] \in slo \cup {NoClass}
                    \/ /\ i + 1 \in 1 .. Len(n[u])
                       /\ n[u][i + 1].op = "get"
                       /\ n[u][i + 1].class = Super[n[u][i].class]
  BY DEF SupersFirst
<1>3. n[u][i] # f
  OBVIOUS
<1>4. i \in 1 .. Len(m[u]) /\ n[u][i] = m[u][i]
  BY <1>1, <1>3
<1>5. \/ Super[m[u][i].class] \in slo \cup {NoClass}
      \/ i = Len(m[u]) /\ Super[m[u][i].class] = c
      \/ /\ i + 1 \in 1 .. Len(m[u])
         /\ m[u][i + 1].op = "get" /\ m[u][i + 1].class = Super[m[u][i].class]
  BY <1>4 DEF SupersFirst
<1>6. CASE Super[m[u][i].class] \in slo \cup {NoClass}
  BY <1>4, <1>6
<1>7. CASE i = Len(m[u]) /\ Super[m[u][i].class] = c
  <2>1. i + 1 \in 1 .. Len(n[u]) /\ n[u][i + 1] = f
    BY <1>1, <1>2, <1>7
  <2> QED
    BY <1>4, <1>7, <2>1
<1>8. CASE /\ i + 1 \in 1 .. Len(m[u])
           /\ m[u][i + 1].op = "get" /\ m[u][i + 1].class = Super[m[u][i].class]
  BY <1>1, <1>4, <1>8
<1> QED
  BY <1>5, <1>6, <1>7, <1>8

\* ... or it fails with those that wait for it.
LEMMA SupersFirstCuts ==
  ASSUME Sequential,
         NEW m \in Stacks, NEW n \in Stacks, NEW t \in Threads, NEW l, Cuts(m, n, t, l),
         NEW slo, NEW c, SupersFirst(m, slo, c)
  PROVE  SupersFirst(n, slo, NoClass)
<1>1. /\ l \in Nat /\ l <= Len(m[t]) /\ Len(m[t]) \in Nat /\ Len(n[t]) = l
      /\ \A u \in Threads : \A i \in 1 .. Len(n[u]) :
           /\ i \in 1 .. Len(m[u])
           /\ \/ n[u][i] = m[u][i]
              \/ u = t /\ i = l /\ m[u][i].op = "resolve" /\ n[u][i].op = "resolve"
      /\ \A u \in Threads : \A i \in 1 .. Len(m[u]) :
           i \in 1 .. Len(n[u]) \/ (u = t /\ i \in l + 1 .. Len(m[t]))
  BY CutsWithin
<1>2. \A u \in Threads : u = t
  BY DEF Sequential
<1>3. l > 0 => m[t][l].op = "resolve"
  BY DEF Cuts
<1> SUFFICES ASSUME NEW i \in 1 .. Len(n[t]),
                    n[t][i].op = "get", n[t][i].at \in {"component", "slots"}
             PROVE  \/ Super[n[t][i].class] \in slo \cup {NoClass}
                    \/ /\ i + 1 \in 1 .. Len(n[t])
                       /\ n[t][i + 1].op = "get"
                       /\ n[t][i + 1].class = Super[n[t][i].class]
  BY <1>2 DEF SupersFirst
<1>4. i \in 1 .. Len(m[t]) /\ n[t][i] = m[t][i]
  BY <1>1
<1>5. i # l
  <2>1. i > 0
    BY <1>1
  <2> QED
    BY <1>3, <1>4, <2>1
<1>6. i + 1 \in 1 .. Len(n[t]) /\ i # Len(m[t])
  <2> DEFINE k == Len(m[t])
             h == Len(n[t])
  <2>1. k \in Nat /\ h = l /\ l \in Nat /\ l <= k /\ i \in 1 .. h
    BY <1>1
  <2> HIDE DEF k, h
  <2>2. i + 1 \in 1 .. h /\ i # k
    BY <1>5, <2>1
  <2> QED
    BY <2>2 DEF k, h
<1>7. \/ Super[m[t][i].class] \in slo \cup {NoClass}
      \/ /\ i + 1 \in 1 .. Len(m[t])
         /\ m[t][i + 1].op = "get" /\ m[t][i + 1].class = Super[m[t][i].class]
  BY <1>4, <1>6 DEF SupersFirst
<1>8. n[t][i + 1] = m[t][i + 1] \/ m[t][i + 1].op = "resolve"
  BY <1>1, <1>6
<1> QED
  BY <1>4, <1>6, <1>7, <1>8

\* The mro of a complete type goes on with that of its super class, which is complete,
\* and no other type has an mro.
Derived(reg, slo, mr) ==
  /\ \A c \in slo :
       \/ Super[c] = NoClass /\ mr[c] = <<c>>
       \/ Super[c] \in slo /\ mr[c] = <<c>> \o mr[Super[c]]
  /\ \A c \in reg \ slo : mr[c] = <<>>

\* The invariant of the super classes.
HierarchyOK ==
  /\ Nested(stack)
  /\ SupersFirst(stack, slotted, NoClass)
  /\ Derived(registered, slotted, mro)

\* A new type has no mro.
LEMMA DerivedCreates ==
  ASSUME NEW reg, NEW slo, NEW mr, mr \in [Classes -> Seq(Classes)],
         slo \subseteq reg, reg \subseteq Classes, NEW c \in Classes, c \notin reg,
         Derived(reg, slo, mr)
  PROVE  Derived(reg \cup {c}, slo \ {c}, [mr EXCEPT ![c] = <<>>])
<1> DEFINE mr1 == [mr EXCEPT ![c] = <<>>]
<1>1. slo \ {c} = slo
  OBVIOUS
<1>2. mr1[c] = <<>> /\ \A d \in Classes : d # c => mr1[d] = mr[d]
  OBVIOUS
<1> HIDE DEF mr1
<1>3. ASSUME NEW d \in slo
      PROVE  \/ Super[d] = NoClass /\ mr1[d] = <<d>>
             \/ Super[d] \in slo /\ mr1[d] = <<d>> \o mr1[Super[d]]
  <2>1. d \in Classes /\ d # c /\ mr1[d] = mr[d]
    BY <1>2
  <2>2. CASE Super[d] = NoClass /\ mr[d] = <<d>>
    BY <2>1, <2>2
  <2>3. CASE Super[d] \in slo /\ mr[d] = <<d>> \o mr[Super[d]]
    <3>1. mr1[Super[d]] = mr[Super[d]]
      BY <1>2, <2>3
    <3> QED
      BY <2>1, <2>3, <3>1
  <2> QED
    BY <2>2, <2>3 DEF Derived
<1>4. ASSUME NEW d \in (reg \cup {c}) \ slo
      PROVE  mr1[d] = <<>>
  <2>1. CASE d = c
    BY <1>2, <2>1
  <2>2. CASE d # c
    <3>1. mr[d] = <<>> /\ mr1[d] = mr[d]
      BY <1>2, <2>2 DEF Derived
    <3> QED
      BY <3>1
  <2> QED
    BY <2>1, <2>2
<1>5. Derived(reg \cup {c}, slo, mr1)
  BY <1>3, <1>4 DEF Derived
<1> QED
  BY <1>1, <1>5 DEF mr1

\* PyType_Ready gives the type an mro, and finds one at its super class.
LEMMA DerivedReadies ==
  ASSUME NEW reg, NEW slo, mro \in [Classes -> Seq(Classes)],
         slo \subseteq reg, reg \subseteq Classes, NEW k \in reg, k \notin slo,
         Derived(reg, slo, mro), Super[k] \in slo \cup {NoClass}, Ready(k, Super[k])
  PROVE  Derived(reg, slo \cup {k}, mro')
<1> DEFINE base == Super[k]
<1>1. mro[k] = <<>> /\ k \in Classes /\ NoClass \notin Classes
  BY ClassesAssumption DEF Derived
<1>2. \A d \in slo : mro[d] # <<>>
  <2> SUFFICES ASSUME NEW d \in slo PROVE mro[d] # <<>>
    OBVIOUS
  <2>1. CASE mro[d] = <<d>>
    BY <2>1
  <2>2. CASE Super[d] \in slo /\ mro[d] = <<d>> \o mro[Super[d]]
    <3> DEFINE s == mro[Super[d]]
    <3>1. s \in Seq(Classes) /\ <<d>> \in Seq(Classes)
      BY <2>2
    <3>2. mro[d] = <<d>> \o s
      BY <2>2
    <3> HIDE DEF s
    <3>3. Len(<<d>> \o s) = 1 + Len(s) /\ Len(s) \in Nat
      BY <3>1
    <3> QED
      BY <3>2, <3>3
  <2> QED
    BY <2>1, <2>2 DEF Derived
<1>3. base # k /\ (base # NoClass => base \in slo /\ HasDict(base))
  BY <1>1, <1>2 DEF HasDict
<1> DEFINE baseMro == IF base = NoClass THEN <<>>
                      ELSE IF HasDict(base) THEN mro[base] ELSE <<base>>
<1>4. mro' = [d \in Classes |-> IF d = base THEN baseMro
                                ELSE IF d = k /\ ~HasDict(k) THEN <<k>> \o baseMro
                                ELSE mro[d]]
  BY DEF Ready
<1>5. ~HasDict(k)
  BY <1>1 DEF HasDict
<1>6. base # NoClass => baseMro = mro[base]
  BY <1>3
<1>7. base = NoClass => baseMro = <<>>
  OBVIOUS
<1> HIDE DEF baseMro
<1>8. mro'[k] = <<k>> \o baseMro
  <2> HIDE DEF base
  <2> QED
    BY <1>1, <1>3, <1>4, <1>5
<1>9. \A d \in Classes : d # k => mro'[d] = mro[d]
  <2> SUFFICES ASSUME NEW d \in Classes, d # k PROVE mro'[d] = mro[d]
    OBVIOUS
  <2>1. mro'[d] = IF d = base THEN baseMro ELSE mro[d]
    <3> HIDE DEF base
    <3> QED
      BY <1>4
  <2> QED
    BY <1>1, <1>6, <2>1
<1>10. ASSUME NEW d \in slo \cup {k}
       PROVE  \/ Super[d] = NoClass /\ mro'[d] = <<d>>
              \/ Super[d] \in slo \cup {k} /\ mro'[d] = <<d>> \o mro'[Super[d]]
  <2>1. CASE d = k
    <3>1. CASE base = NoClass
      <4>1. <<k>> \o <<>> = <<k>>
        OBVIOUS
      <4> QED
        BY <1>7, <1>8, <2>1, <3>1, <4>1
    <3>2. CASE base # NoClass
      <4>1. base \in slo /\ base \in Classes /\ mro'[base] = mro[base]
        BY <1>3, <1>9, <3>2
      <4> QED
        BY <1>6, <1>8, <2>1, <3>2, <4>1
    <3> QED
      BY <3>1, <3>2
  <2>2. CASE d # k
    <3>1. d \in slo /\ d \in Classes /\ mro'[d] = mro[d]
      BY <1>9, <2>2
    <3>2. CASE Super[d] = NoClass /\ mro[d] = <<d>>
      BY <3>1, <3>2
    <3>3. CASE Super[d] \in slo /\ mro[d] = <<d>> \o mro[Super[d]]
      <4>1. Super[d] \in Classes /\ Super[d] # k /\ mro'[Super[d]] = mro[Super[d]]
        BY <1>9, <3>3
      <4> QED
        BY <3>1, <3>3, <4>1
    <3> QED
      BY <3>1, <3>2, <3>3 DEF Derived
  <2> QED
    BY <2>1, <2>2
<1>11. ASSUME NEW d \in reg \ (slo \cup {k})
       PROVE  mro'[d] = <<>>
  BY <1>9 DEF Derived
<1> QED
  BY <1>10, <1>11 DEF Derived

\* The calls of t may ask for the type of c, to be resolved if r.
Fits(n, t, c, r) ==
  \A j \in 1 .. Len(n[t]) :
    n[t][j].op = "get" =>
      IF r THEN c \in Ancestors[n[t][j].class] ELSE Leads(n[t][j].class, c)

\* Such a request makes a call that belongs above those of t.
LEMMA FitsUnder ==
  ASSUME NEW n, NEW t, NEW c \in Classes, NEW r \in BOOLEAN, Fits(n, t, c, r)
  PROVE  /\ \A j \in 1 .. Len(n[t]) : Under(n[t][j], GetCall(c, r))
         /\ r => \A j \in 1 .. Len(n[t]) : Under(n[t][j], ResolveCall(c))
<1>1. /\ GetCall(c, r).op = "get" /\ GetCall(c, r).class = c /\ GetCall(c, r).resolve = r
      /\ ResolveCall(c).op = "resolve" /\ ResolveCall(c).class = c
  BY NewCalls
<1> DEFINE g == GetCall(c, r)
           h == ResolveCall(c)
<1> HIDE DEF g, h
<1>2. \A j \in 1 .. Len(n[t]) : Under(n[t][j], g)
  BY <1>1 DEF Under, Fits, g
<1>3. r => \A j \in 1 .. Len(n[t]) : Under(n[t][j], h)
  BY <1>1 DEF Under, Fits, h
<1> QED
  BY <1>2, <1>3 DEF g, h

\* What the innermost call asks for is what the calls below it may ask for.
LEMMA FitsBelow ==
  ASSUME NEW t \in Threads, NEW j \in 1 .. Len(stack[t]), j < Len(stack[t]),
         stack \in Stacks, Nested(stack), stack[t][j].op = "get"
  PROVE  /\ stack[t][j].class \in Classes
         /\ Top(t).op = "get" /\ Top(t).resolve = FALSE =>
              Leads(stack[t][j].class, Top(t).class)
         /\ ~(Top(t).op = "get" /\ Top(t).resolve = FALSE) =>
              Top(t).class \in Ancestors[stack[t][j].class]
<1>1. Len(stack[t]) \in 1 .. Len(stack[t])
  BY StackFrame
<1>2. Under(stack[t][j], stack[t][Len(stack[t])])
  BY <1>1 DEF Nested
<1>3. stack[t][j].class \in Classes
  BY StackFrame, FrameFacts
<1> QED
  BY <1>2, <1>3 DEF Under, Top

\* What is asked for is what the calls of t may ask for.
LEMMA AsksFits ==
  ASSUME Sequential, Core, HierarchyOK, NEW t \in Threads, NEW n \in Stacks,
         NEW c \in Classes, NEW r \in BOOLEAN,
         \/ Calls(t, c, n) \/ Inherits(t, c, r, n) \/ Mentions(t, c, r, n)
         \/ Leaves(t, c, r, n) \/ (Derives(t, c, n) /\ r = TRUE)
  PROVE  Fits(n, t, c, r)
<1> DEFINE l == Len(stack[t])
           k == Top(t).class
<1>1. /\ stack \in Stacks /\ Top(t) = stack[t][l] /\ l \in Nat /\ Nested(stack)
      /\ c # NoClass
  BY TypeOKStacks, StackFrame, ClassesAssumption DEF Core, HierarchyOK, Top
<1> SUFFICES ASSUME NEW j \in 1 .. Len(n[t]), n[t][j].op = "get"
             PROVE  IF r THEN c \in Ancestors[n[t][j].class] ELSE Leads(n[t][j].class, c)
  BY DEF Fits
<1>2. ASSUME NEW f, Steps(stack, n, t, f)
      PROVE  /\ n[t][l] = f /\ f.class = k /\ f.op = Top(t).op
             /\ j # l => /\ n[t][j] = stack[t][j] /\ j \in 1 .. l /\ j < l
  <2>1. /\ Len(n[t]) = l /\ l \in 1 .. l /\ n[t][l] = f /\ SameCall(stack[t][l], f)
        /\ \A i \in 1 .. l : i # l => n[t][i] = stack[t][i]
    BY <1>2 DEF Steps
  <2>2. j \in 1 .. l /\ (j # l => j < l)
    BY <1>1, <2>1
  <2> QED
    BY <1>1, <2>1, <2>2 DEF SameCall
<1>3. CASE Calls(t, c, n)
  <2>1. n[t] = <<>>
    BY <1>3 DEF Calls, Sequential
  <2> QED
    BY <2>1
<1>4. CASE Inherits(t, c, r, n)
  <2>1. PICK f \in GetFrames :
          /\ Steps(stack, n, t, f) /\ Top(t) \in GetFrames
          /\ r = Top(t).resolve /\ (c = Super[k] \/ c = Component[k])
    BY <1>4 DEF Inherits
  <2>2. k \in Classes /\ Top(t).op = "get" /\ f.class = k /\ r = Top(t).resolve
    BY <1>2, <2>1, TopClass
  <2>3. c \in Ancestors[k]
    BY <1>1, <2>1, <2>2, AncestorFacts
  <2>4. CASE j = l
    <3>1. n[t][j].class = k
      BY <1>2, <2>1, <2>4
    <3> QED
      BY <2>3, <3>1 DEF Leads
  <2>5. CASE j # l
    <3>1. n[t][j] = stack[t][j] /\ j \in 1 .. l /\ j < l
      BY <1>2, <2>1, <2>5
    <3> DEFINE d == stack[t][j].class
    <3>2. /\ d \in Classes
          /\ r = FALSE => Leads(d, k)
          /\ r = TRUE => k \in Ancestors[d]
      BY <1>1, <2>2, <3>1, FitsBelow
    <3> HIDE DEF d
    <3>3. r = FALSE => Leads(d, c)
      BY <2>2, <2>3, <3>2, LeadsUp
    <3>4. r = TRUE => c \in Ancestors[d]
      BY <2>2, <2>3, <3>2, AncestorFacts
    <3> QED
      BY <3>1, <3>3, <3>4 DEF d
  <2> QED
    BY <2>4, <2>5
<1>5. CASE Mentions(t, c, r, n)
  <2>1. PICK f \in ResolveFrames :
          /\ Steps(stack, n, t, f) /\ Top(t) \in ResolveFrames /\ r = FALSE
          /\ c \in MentionedBy(k)
    BY <1>5 DEF Mentions
  <2>2. k \in Classes /\ Top(t).op = "resolve"
    BY <2>1, TopClass
  <2>3. j # l
    BY <1>2, <2>1, <2>2
  <2>4. n[t][j] = stack[t][j] /\ j \in 1 .. l /\ j < l
    BY <1>2, <2>1, <2>3
  <2>5. k \in Ancestors[stack[t][j].class]
    BY <1>1, <2>2, <2>4, FitsBelow
  <2>6. Leads(n[t][j].class, c)
    BY <2>1, <2>4, <2>5 DEF Leads
  <2> QED
    BY <2>1, <2>6
<1>6. CASE Leaves(t, c, r, n)
  <2>1. /\ Shrinks(stack, n, t) /\ Top(t) \in GetFrames /\ Top(t).op = "get"
        /\ c = k /\ r = Top(t).resolve
    BY <1>6, TopClass DEF Leaves
  <2>2. j \in 1 .. l /\ n[t][j] = stack[t][j] /\ j # l
    BY <1>1, <2>1, ShrinksWithin
  <2>3. j < l
    BY <1>1, <2>2
  <2> QED
    BY <1>1, <2>1, <2>2, <2>3, FitsBelow
<1>7. CASE Derives(t, c, n) /\ r = TRUE
  <2>1. PICK f \in ResolveFrames :
          /\ Steps(stack, n, t, f) /\ Top(t) \in ResolveFrames /\ c = Base(k)
    BY <1>7 DEF Derives
  <2>2. k \in Classes /\ Top(t).op = "resolve" /\ c = Super[k]
    BY <1>1, <2>1, TopClass DEF Base
  <2>3. j # l
    BY <1>2, <2>1, <2>2
  <2>4. n[t][j] = stack[t][j] /\ j \in 1 .. l /\ j < l
    BY <1>2, <2>1, <2>3
  <2>5. k \in Ancestors[stack[t][j].class] /\ stack[t][j].class \in Classes
    BY <1>1, <2>2, <2>4, FitsBelow
  <2>6. c \in Ancestors[n[t][j].class]
    BY <1>1, <2>2, <2>4, <2>5, AncestorFacts
  <2> QED
    BY <1>7, <2>6
<1> QED
  BY <1>3, <1>4, <1>5, <1>6, <1>7

\* The type of a super class is new, or complete: its creation does not lead to the
\* sub class.
LEMMA SuperNotInProgress ==
  ASSUME Sequential, NEW rank \in [Classes -> Nat], IsRank(rank), NoGrandchildMentioned,
         Core, HierarchyOK, NEW t \in Threads, NEW n \in Stacks, NEW c \in registered,
         NEW r, Inherits(t, c, r, n), c = Super[Top(t).class]
  PROVE  c \in slotted
<1> DEFINE l == Len(stack[t])
           k == Top(t).class
<1>1. /\ stack \in Stacks /\ Top(t) = stack[t][l] /\ l \in Nat /\ Nested(stack)
      /\ c \in Classes /\ c # NoClass
  BY TypeOKStacks, StackFrame, ClassesAssumption DEF Core, HierarchyOK, Top, TypeOK
<1> SUFFICES ASSUME c \notin slotted PROVE FALSE
  OBVIOUS
<1>2. PICK f \in GetFrames : Steps(stack, n, t, f) /\ Top(t) \in GetFrames
  BY DEF Inherits
<1>3. k \in Classes /\ Top(t).op = "get"
  BY <1>2, TopClass
<1>4. CallOf(stack, c, "get")
  BY DEF Core, Registration, RegisteredAreCreated
<1>5. PICK u \in Threads : \E i \in 1 .. Len(stack[u]) :
        stack[u][i].op = "get" /\ stack[u][i].class = c
  BY <1>4 DEF CallOf
<1>6. u = t
  BY DEF Sequential
<1>7. PICK j \in 1 .. l : stack[t][j].op = "get" /\ stack[t][j].class = c
  BY <1>5, <1>6
<1>8. CASE j = l
  <2>1. c = k
    BY <1>1, <1>7, <1>8
  <2>2. c \in Ancestors[k]
    BY <1>1, <1>3, AncestorFacts
  <2> QED
    BY <1>1, <2>1, <2>2, NoOwnAncestor
<1>9. CASE j # l
  <2>1. j < l
    BY <1>1, <1>9
  <2>2. Under(stack[t][j], Top(t))
    <3>1. l \in 1 .. l
      BY <1>1, <2>1
    <3> QED
      BY <1>1, <2>1, <3>1 DEF Nested
  <2>3. Leads(c, k)
    BY <1>7, <2>2, UnderLeads
  <2> QED
    BY <1>1, <1>3, <2>3, SuperLeadsNot
<1> QED
  BY <1>8, <1>9

\* The calls that ask are nested and ordered like those that are there.
LEMMA AsksHierarchy ==
  ASSUME Sequential, NEW rank \in [Classes -> Nat], IsRank(rank), NoGrandchildMentioned,
         Core, HierarchyOK, NEW t \in Threads, NEW n \in Stacks,
         NEW c \in Classes \cup {NoClass}, NEW r, Asks(t, c, r, n)
  PROVE  /\ Nested(n) /\ SupersFirst(n, slotted, c)
         /\ c \in registered \cup {NoClass} => SupersFirst(n, slotted, NoClass)
         /\ Leaves(t, c, r, n) \/ Derives(t, c, n) => c \in registered \cup {NoClass}
<1> DEFINE l == Len(stack[t])
           k == Top(t).class
<1>1. /\ stack \in Stacks /\ Top(t) = stack[t][l] /\ l \in Nat
      /\ Nested(stack) /\ SupersFirst(stack, slotted, NoClass)
      /\ Derived(registered, slotted, mro)
      /\ Registration(stack, registered, slotted) /\ slotted \subseteq registered
  BY TypeOKStacks, StackFrame DEF Core, HierarchyOK, Top, Registration
<1>2. ASSUME SupersFirst(n, slotted, NoClass)
      PROVE  SupersFirst(n, slotted, c)
  BY <1>2, SupersFirstMore
<1>3. CASE Calls(t, c, n)
  BY <1>1, <1>2, <1>3 DEF Calls, Inherits, Leaves, Derives, Shrinks, Steps
<1>4. CASE Inherits(t, c, r, n)
  <2>1. PICK f \in GetFrames :
          /\ Steps(stack, n, t, f) /\ Top(t) \in GetFrames /\ f.resolve = Top(t).resolve
          /\ \/ Top(t).at = "super" /\ f.at = "component" /\ c = Super[k]
             \/ Top(t).at = "component" /\ f.at = "slots"
    BY <1>4 DEF Inherits
  <2>2. /\ k \in Classes /\ Top(t).op = "get" /\ f.op = "get" /\ f.class = k
        /\ l \in 1 .. Len(stack[t])
    BY <1>1, <2>1, TopClass DEF Steps, SameCall
  <2>3. Nested(n)
    BY <1>1, <2>1, NestedSteps
  <2>4. CASE Top(t).at = "super" /\ f.at = "component" /\ c = Super[k]
    <3>1. SupersFirst(n, slotted, c)
      BY <1>1, <2>1, <2>2, <2>4, SupersFirstSteps
    <3>2. c \in registered => c \in slotted
      BY <1>4, <2>4, SuperNotInProgress
    <3>3. c \in registered \cup {NoClass} => SupersFirst(n, slotted, NoClass)
      BY <3>1, <3>2, SupersFirstMore
    <3> QED
      BY <2>3, <2>4, <3>1, <3>3 DEF Leaves, Derives, GetFrames, ResolveFrames
  <2>5. CASE Top(t).at = "component" /\ f.at = "slots"
    <3>1. Super[k] \in slotted \cup {NoClass}
      <4>1. l + 1 \notin 1 .. Len(stack[t])
        BY <1>1
      <4> QED
        BY <1>1, <2>2, <2>5, <4>1 DEF SupersFirst
    <3>2. SupersFirst(n, slotted, NoClass)
      BY <1>1, <2>1, <2>2, <3>1, SupersFirstSteps
    <3> QED
      BY <1>2, <2>3, <2>5, <3>2 DEF Leaves, Derives, GetFrames, ResolveFrames
  <2> QED
    BY <2>1, <2>4, <2>5
<1>5. CASE Mentions(t, c, r, n) \/ Derives(t, c, n)
  <2>1. PICK f \in ResolveFrames :
          Steps(stack, n, t, f) /\ Top(t) \in ResolveFrames
    BY <1>5 DEF Mentions, Derives
  <2>2. f.op # "get" /\ Top(t).op = "resolve"
    BY <2>1, TopClass DEF ResolveFrames
  <2>3. Nested(n)
    BY <1>1, <2>1, <2>2, NestedSteps
  <2>4. SupersFirst(n, slotted, NoClass)
    BY <1>1, <2>1, <2>2, SupersFirstSteps
  <2>5. Derives(t, c, n) => c \in registered \cup {NoClass}
    BY <1>1 DEF Derives, Base, Derived
  <2>6. ~Leaves(t, c, r, n)
    BY <2>2, TopClass DEF Leaves
  <2> QED
    BY <1>2, <2>3, <2>4, <2>5, <2>6
<1>6. CASE Leaves(t, c, r, n)
  <2>1. /\ Shrinks(stack, n, t) /\ Top(t).op = "get" /\ Top(t).at = "resolve"
        /\ c = k
    BY <1>6, TopClass DEF Leaves
  <2>2. l \in 1 .. Len(stack[t])
    BY <2>1 DEF Shrinks
  <2>3. c \in slotted
    BY <1>1, <2>1, <2>2 DEF Registration, CreatedAreRegistered
  <2>4. Nested(n) /\ SupersFirst(n, slotted, NoClass)
    BY <1>1, <2>1, <2>3, NestedShrinks, SupersFirstShrinks
  <2> QED
    BY <1>1, <1>2, <2>3, <2>4
<1> QED
  BY <1>3, <1>4, <1>5, <1>6 DEF Asks

\* What the request comes to has the invariant, too.
LEMMA RequestHierarchy ==
  ASSUME Sequential, Core, NEW t \in Threads, NEW n \in Stacks,
         NEW c \in Classes \cup {NoClass}, NEW r \in BOOLEAN,
         Nested(n), SupersFirst(n, slotted, c), Derived(registered, slotted, mro),
         c \in registered \cup {NoClass} => SupersFirst(n, slotted, NoClass),
         \/ c \in registered \cup {NoClass} /\ Returns(t, c, n)
         \/ c \in registered \cup {NoClass} /\ Resolves(t, c, n) /\ Fits(n, t, c, TRUE)
         \/ Creates(t, c, r, n) /\ Fits(n, t, c, r)
         \/ Fails(t, n)
  PROVE  /\ Nested(stack') /\ SupersFirst(stack', slotted', NoClass)
         /\ Derived(registered', slotted', mro')
<1>0. /\ mro \in [Classes -> Seq(Classes)] /\ registered \subseteq Classes
      /\ slotted \subseteq registered
  BY DEF Core, TypeOK, Registration
<1>1. CASE c \in registered \cup {NoClass} /\ Returns(t, c, n)
  BY <1>1 DEF Returns
<1>2. CASE c \in registered \cup {NoClass} /\ Resolves(t, c, n) /\ Fits(n, t, c, TRUE)
  <2> DEFINE f == ResolveCall(c)
             new == stack'
  <2>1. /\ Grows(n, new, t, f) /\ new \in Stacks /\ f.op # "get" /\ c \in Classes
        /\ UNCHANGED <<registered, slotted, mro>>
    BY <1>2, NewCalls DEF Resolves, Grows
  <2>2. \A j \in 1 .. Len(n[t]) : Under(n[t][j], f)
    BY <1>2, <2>1, FitsUnder
  <2> HIDE DEF f, new
  <2>3. Nested(new)
    BY <2>1, <2>2, NestedGrows
  <2>4. SupersFirst(new, slotted, NoClass)
    BY <1>2, <2>1, SupersFirstGrows
  <2> QED
    BY <2>1, <2>3, <2>4 DEF new
<1>3. CASE Creates(t, c, r, n) /\ Fits(n, t, c, r)
  <2> DEFINE f == GetCall(c, r)
             new == stack'
  <2>1. /\ Grows(n, new, t, f) /\ new \in Stacks /\ f.op = "get" /\ f.class = c
        /\ f.at = "super" /\ c \in Classes /\ c \notin registered
        /\ registered' = registered \cup {c} /\ slotted' = slotted \ {c}
        /\ mro' = [mro EXCEPT ![c] = <<>>]
    BY <1>3, NewCalls DEF Creates, Grows
  <2>2. \A j \in 1 .. Len(n[t]) : Under(n[t][j], f)
    BY <1>3, <2>1, FitsUnder
  <2> HIDE DEF f, new
  <2>3. Nested(new)
    BY <2>1, <2>2, NestedGrows
  <2>4. SupersFirst(new, slotted, NoClass)
    BY <2>1, SupersFirstGrows
  <2>5. slotted' = slotted
    BY <1>0, <2>1
  <2>6. Derived(registered', slotted', mro')
    BY <1>0, <2>1, DerivedCreates
  <2> QED
    BY <2>3, <2>4, <2>5, <2>6 DEF new
<1>4. CASE Fails(t, n)
  <2> DEFINE new == stack'
  <2>1. PICK l \in 0 .. Len(n[t]) : Cuts(n, new, t, l)
    BY <1>4 DEF Fails
  <2>2. new \in Stacks /\ UNCHANGED <<slotted, mro>> /\ registered' \subseteq registered
    BY <1>4, <2>1 DEF Fails, Cuts
  <2> HIDE DEF new
  <2>3. Nested(new)
    BY <2>1, <2>2, NestedCuts
  <2>4. SupersFirst(new, slotted, NoClass)
    BY <2>1, <2>2, SupersFirstCuts
  <2>5. Derived(registered', slotted, mro)
    BY <2>2 DEF Derived
  <2> QED
    BY <2>2, <2>3, <2>4, <2>5 DEF new
<1> QED
  BY <1>1, <1>2, <1>3, <1>4

\* Every step preserves the invariant.
LEMMA StepHierarchy ==
  ASSUME Sequential, NEW rank \in [Classes -> Nat], IsRank(rank), NoGrandchildMentioned,
         Core, HierarchyOK, [Next]_vars
  PROVE  HierarchyOK'
<1> DEFINE Goal == /\ Nested(stack')
                   /\ SupersFirst(stack', slotted', NoClass)
                   /\ Derived(registered', slotted', mro')
<1>0. /\ TypeOK' /\ TypeOK /\ stack \in Stacks /\ stack' \in Stacks
      /\ Nested(stack) /\ SupersFirst(stack, slotted, NoClass)
      /\ Derived(registered, slotted, mro)
      /\ Registration(stack, registered, slotted) /\ slotted \subseteq registered
      /\ registered \subseteq Classes
  BY StepTyped DEF Core, HierarchyOK, TypeOK, Stacks, Frames, Registration
<1> SUFFICES Goal
  BY DEF HierarchyOK, Nested, SupersFirst, Derived
<1>1. CASE UNCHANGED <<registered, slotted, mro, resolving, resolved, dict, stack,
                       given, failures>>
  BY <1>0, <1>1
<1>2. ASSUME NEW t \in Threads, NEW n \in Stacks, NEW c \in Classes \cup {NoClass},
             NEW r \in BOOLEAN, Asks(t, c, r, n),
             \/ c \in registered \cup {NoClass} /\ Returns(t, c, n)
             \/ c \in registered \cup {NoClass} /\ Resolves(t, c, n) /\ Fits(n, t, c, TRUE)
             \/ Creates(t, c, r, n) /\ Fits(n, t, c, r)
             \/ Fails(t, n)
      PROVE  Goal
  <2>1. /\ Nested(n) /\ SupersFirst(n, slotted, c)
        /\ c \in registered \cup {NoClass} => SupersFirst(n, slotted, NoClass)
    BY <1>2, AsksHierarchy
  <2> QED
    BY <1>0, <1>2, <2>1, RequestHierarchy
<1>3. ASSUME NEW t \in Threads, NEW n \in Stacks, NEW c \in Classes \cup {NoClass},
             NEW r \in BOOLEAN, Gets(t, c, r, n)
      PROVE  Goal
  <2>1. /\ Calls(t, c, n) \/ Inherits(t, c, r, n) \/ Mentions(t, c, r, n)
        /\ Asks(t, c, r, n)
    BY <1>3 DEF Gets, Asks
  <2>2. c \in Classes => Fits(n, t, c, r)
    BY <2>1, AsksFits
  <2>3. c \in registered /\ r => Fits(n, t, c, TRUE)
    BY <1>0, <2>2
  <2>4. Creates(t, c, r, n) => c \in Classes
    BY DEF Creates
  <2>5. \/ c \in registered \cup {NoClass} /\ Returns(t, c, n)
        \/ c \in registered /\ r /\ Resolves(t, c, n)
        \/ Creates(t, c, r, n)
        \/ Fails(t, n)
    BY <1>3 DEF Gets
  <2> HIDE DEF Goal
  <2> QED
    BY <1>2, <2>1, <2>2, <2>3, <2>4, <2>5
<1>4. ASSUME NEW t \in Threads, NEW n \in Stacks, NEW c \in Classes, NEW r \in BOOLEAN,
             Completes(t, c, r, n)
      PROVE  Goal
  <2>1. /\ Leaves(t, c, r, n) /\ Asks(t, c, r, n) /\ c \in Classes \cup {NoClass}
        /\ Returns(t, c, n) \/ (r /\ Resolves(t, c, n))
    BY <1>4 DEF Completes, Asks
  <2>2. c \in registered \cup {NoClass}
    BY <2>1, AsksHierarchy
  <2>3. r => Fits(n, t, c, TRUE)
    BY <2>1, AsksFits
  <2> HIDE DEF Goal
  <2> QED
    BY <1>2, <2>1, <2>2, <2>3
<1>5. ASSUME NEW t \in Threads, NEW n \in Stacks, NEW c \in Classes \cup {NoClass},
             GoesUp(t, c, n)
      PROVE  Goal
  <2>1. /\ Derives(t, c, n) /\ Asks(t, c, TRUE, n) /\ TRUE \in BOOLEAN
        /\ Returns(t, c, n) \/ Resolves(t, c, n)
    BY <1>5 DEF GoesUp, Asks
  <2>2. c \in registered \cup {NoClass}
    BY <2>1, AsksHierarchy
  <2>3. c \in Classes => Fits(n, t, c, TRUE)
    BY <2>1, AsksFits
  <2>4. Resolves(t, c, n) => c \in Classes
    BY DEF Resolves
  <2> HIDE DEF Goal
  <2> QED
    BY <1>2, <2>1, <2>2, <2>3, <2>4
<1>6. ASSUME NEW t \in Threads, Abandons(t)
      PROVE  Goal
  <2>1. TRUE \in BOOLEAN /\ NoClass \in Classes \cup {NoClass} /\ Fails(t, stack)
    BY <1>6 DEF Abandons
  <2> QED
    BY <1>0, <2>1, RequestHierarchy
<1>7. ASSUME NEW t \in Threads, Readies(t)
      PROVE  Goal
  <2> DEFINE new == stack'
             k == Top(t).class
             l == Len(stack[t])
  <2>1. PICK f \in GetFrames :
          /\ Steps(stack, new, t, f) /\ f.resolve = Top(t).resolve /\ f.at = "resolve"
          /\ Top(t) \in GetFrames /\ Top(t).at = "slots" /\ Ready(k, Super[k])
          /\ slotted' = slotted \cup {k} /\ registered' = registered
    BY <1>7 DEF Readies
  <2>2. /\ f.op = "get" /\ f.resolve = stack[t][l].resolve
        /\ k \in Classes /\ Top(t).op = "get" /\ stack[t][l] = Top(t)
        /\ l \in 1 .. Len(stack[t]) /\ l + 1 \notin 1 .. Len(stack[t])
    <3>1. l \in 1 .. l /\ l \in Nat
      BY <1>0, <2>1, StackFrame DEF Steps
    <3>2. l + 1 \notin 1 .. l
      BY <3>1
    <3> QED
      BY <2>1, <3>1, <3>2, TopClass DEF GetFrames, Top
  <2>3. k \in registered /\ k \notin slotted
    BY <1>0, <2>1, <2>2 DEF Registration, CreatedAreRegistered
  <2>4. Super[k] \in slotted \cup {NoClass}
    BY <1>0, <2>1, <2>2 DEF SupersFirst
  <2>5. Derived(registered, slotted \cup {k}, mro')
    BY <1>0, <2>1, <2>3, <2>4, DerivedReadies DEF TypeOK
  <2> HIDE DEF new, k
  <2>6. Nested(new)
    BY <1>0, <2>1, <2>2, NestedSteps DEF new
  <2>7. SupersFirst(new, slotted, NoClass)
    BY <1>0, <2>1, <2>2, SupersFirstSteps DEF new
  <2>8. SupersFirst(new, slotted \cup {k}, NoClass)
    BY <2>7, SupersFirstMore
  <2> QED
    BY <2>1, <2>5, <2>6, <2>8 DEF new
<1>8. ASSUME NEW t \in Threads, MovesOn(t)
      PROVE  Goal
  <2> DEFINE new == stack'
  <2>1. PICK f \in ResolveFrames : Steps(stack, new, t, f)
    BY <1>8 DEF MovesOn
  <2>2. UNCHANGED <<registered, slotted, mro>> /\ new \in Stacks
    BY <1>0, <1>8 DEF MovesOn
  <2>3. f.op # "get"
    BY DEF ResolveFrames
  <2> HIDE DEF new
  <2>4. Nested(new) /\ SupersFirst(new, slotted, NoClass)
    BY <1>0, <2>1, <2>2, <2>3, NestedSteps, SupersFirstSteps
  <2> QED
    BY <1>0, <2>2, <2>4 DEF new
<1>9. ASSUME NEW t \in Threads, Finishes(t)
      PROVE  Goal
  <2> DEFINE new == stack'
  <2>1. /\ Shrinks(stack, new, t) /\ Top(t).op = "resolve"
        /\ UNCHANGED <<registered, slotted, mro>> /\ new \in Stacks
    BY <1>0, <1>9, TopClass DEF Finishes
  <2>2. stack[t][Len(stack[t])].op # "get"
    BY <2>1 DEF Top
  <2> HIDE DEF new
  <2>3. Nested(new) /\ SupersFirst(new, slotted, NoClass)
    BY <1>0, <2>1, <2>2, NestedShrinks, SupersFirstShrinks
  <2> QED
    BY <1>0, <2>1, <2>3 DEF new
<1> HIDE DEF Goal
<1> QED
  BY <1>0, <1>1, <1>3, <1>4, <1>5, <1>6, <1>7, <1>8, <1>9, NextCases

\* Initially there are no calls and no types.
LEMMA InitHierarchy ==
  ASSUME Init
  PROVE  HierarchyOK
<1>1. \A u \in Threads : \A i \in 1 .. Len(stack[u]) : FALSE
  BY DEF Init
<1>2. Nested(stack) /\ SupersFirst(stack, slotted, NoClass)
  BY <1>1 DEF Nested, SupersFirst
<1>3. Derived(registered, slotted, mro)
  BY DEF Init, Derived
<1> QED
  BY <1>2, <1>3 DEF HierarchyOK

-----------------------------------------------------------------------------
(* Super classes *)

\* Induction over the natural numbers, as a statement about sets.
LEMMA NaturalsUp ==
  ASSUME NEW S, S \subseteq Nat, 0 \in S, \A n \in S : n + 1 \in S
  PROVE  S = Nat
<1> SUFFICES ASSUME Nat \ S # {} PROVE FALSE
  OBVIOUS
<1> DEFINE T == {1 .. n : n \in Nat \ S}
<1>1. T \subseteq FiniteSubsetsOf(Nat) /\ T # {}
  <2>1. ASSUME NEW n \in Nat PROVE IsFiniteSet(1 .. n) /\ 1 .. n \subseteq Nat
    BY FS_Interval
  <2>2. \A n \in Nat : 1 .. n \in FiniteSubsetsOf(Nat)
    BY <2>1 DEF FiniteSubsetsOf
  <2> QED
    BY <2>2
<1>2. PICK x \in T : \A y \in T : ~(<<y, x>> \in StrictSubsetOrdering(Nat))
  <2> HIDE DEF T
  <2> QED
    BY <1>1, FS_StrictSubsetOrderingWellFounded, WFMin
<1>3. PICK n \in Nat \ S : x = 1 .. n
  OBVIOUS
<1>4. n # 0 /\ n - 1 \in Nat /\ n - 1 \notin S
  OBVIOUS
<1>5. 1 .. (n - 1) \in T /\ 1 .. (n - 1) \subseteq x /\ 1 .. (n - 1) # x
  BY <1>3, <1>4
<1>6. <<1 .. (n - 1), x>> \in StrictSubsetOrdering(Nat)
  <2> HIDE DEF T
  <2>1. x \subseteq Nat
    BY <1>3
  <2> QED
    BY <1>5, <2>1 DEF StrictSubsetOrdering
<1> QED
  BY <1>2, <1>5, <1>6

\* The super classes of c, if f gives those of its super class.
Extended(f, c) == IF Super[c] = NoClass THEN <<c>> ELSE <<c>> \o f[Super[c]]

\* f gives the super classes of all classes ...
IsChain(f) == f = [c \in Classes |-> Extended(f, c)]

\* ... or only of those with a rank below n.
IsPart(f, rank, n) ==
  /\ f \in [Classes -> Seq(Classes)]
  /\ \A c \in Classes : rank[c] < n => f[c] = Extended(f, c)

\* This only depends on what f gives for the super class.
LEMMA ExtendedFacts ==
  ASSUME NEW f \in [Classes -> Seq(Classes)], NEW c \in Classes
  PROVE  /\ Extended(f, c) \in Seq(Classes)
         /\ \A g \in [Classes -> Seq(Classes)] :
              (Super[c] # NoClass => g[Super[c]] = f[Super[c]]) => Extended(g, c) = Extended(f, c)
<1>1. Super[c] \in Classes \cup {NoClass} /\ <<c>> \in Seq(Classes)
  BY ClassesAssumption
<1>2. Super[c] # NoClass => f[Super[c]] \in Seq(Classes)
  BY <1>1
<1>3. \A s \in Seq(Classes) : <<c>> \o s \in Seq(Classes)
  OBVIOUS
<1>4. Extended(f, c) \in Seq(Classes)
  BY <1>1, <1>2, <1>3 DEF Extended
<1> QED
  BY <1>4 DEF Extended

\* Some f gives the super classes up to any rank, ...
LEMMA PartExists ==
  ASSUME NEW rank \in [Classes -> Nat], IsRank(rank)
  PROVE  \A n \in Nat : \E f : IsPart(f, rank, n)
<1> DEFINE S == {n \in Nat : \E f : IsPart(f, rank, n)}
<1>1. 0 \in S
  <2>1. [c \in Classes |-> <<>>] \in [Classes -> Seq(Classes)] /\ \A c \in Classes : ~(rank[c] < 0)
    <3>1. <<>> \in Seq(Classes)
      OBVIOUS
    <3>2. \A c \in Classes : rank[c] \in Nat
      OBVIOUS
    <3> QED
      BY <3>1, <3>2
  <2>2. IsPart([c \in Classes |-> <<>>], rank, 0)
    BY <2>1 DEF IsPart
  <2> QED
    BY <2>2
<1>2. ASSUME NEW n \in S
      PROVE  n + 1 \in S
  <2>1. PICK f : IsPart(f, rank, n)
    OBVIOUS
  <2> DEFINE g == [c \in Classes |-> Extended(f, c)]
  <2>2. g \in [Classes -> Seq(Classes)] /\ f \in [Classes -> Seq(Classes)] /\ n \in Nat
    BY <2>1, ExtendedFacts DEF IsPart
  <2>3. \A c \in Classes : g[c] = Extended(f, c)
    OBVIOUS
  <2> HIDE DEF g
  <2>4. ASSUME NEW c \in Classes, rank[c] < n + 1
        PROVE  g[c] = Extended(g, c)
    <3>1. ASSUME Super[c] # NoClass
          PROVE  g[Super[c]] = f[Super[c]]
      <4> DEFINE d == Super[c]
      <4>1. d \in Classes /\ rank[d] < rank[c] /\ rank[d] \in Nat /\ rank[c] \in Nat
        BY <3>1, ClassesAssumption DEF IsRank
      <4>2. rank[d] < n
        <5> HIDE DEF d
        <5> QED
          BY <2>2, <2>4, <4>1
      <4>3. f[d] = Extended(f, d)
        BY <2>1, <4>1, <4>2 DEF IsPart
      <4> QED
        BY <2>3, <4>1, <4>3
    <3>2. Extended(g, c) = Extended(f, c)
      BY <2>2, <3>1, ExtendedFacts
    <3> QED
      BY <2>3, <3>2
  <2>5. IsPart(g, rank, n + 1)
    BY <2>2, <2>4 DEF IsPart
  <2> QED
    BY <2>2, <2>5
<1> HIDE DEF S
<1>3. S \subseteq Nat
  BY DEF S
<1>4. S = Nat
  BY <1>1, <1>2, <1>3, NaturalsUp
<1> QED
  BY <1>4 DEF S

\* ... and two agree on these.
LEMMA PartsAgree ==
  ASSUME NEW rank \in [Classes -> Nat], IsRank(rank), NEW n \in Nat,
         NEW f, IsPart(f, rank, n), NEW g, IsPart(g, rank, n)
  PROVE  \A c \in Classes : rank[c] < n => f[c] = g[c]
<1> DEFINE S == {m \in Nat : \A c \in Classes : rank[c] < n /\ rank[c] < m => f[c] = g[c]}
<1>0. f \in [Classes -> Seq(Classes)] /\ g \in [Classes -> Seq(Classes)]
  BY DEF IsPart
<1>1. 0 \in S
  <2>1. \A c \in Classes : rank[c] \in Nat
    OBVIOUS
  <2> QED
    BY <2>1
<1>2. ASSUME NEW m \in S
      PROVE  m + 1 \in S
  <2>1. m \in Nat /\ m + 1 \in Nat
    OBVIOUS
  <2>2. ASSUME NEW c \in Classes, rank[c] < n, rank[c] < m + 1
        PROVE  f[c] = g[c]
    <3>1. ASSUME Super[c] # NoClass
          PROVE  f[Super[c]] = g[Super[c]]
      <4> DEFINE d == Super[c]
      <4>1. d \in Classes /\ rank[d] < rank[c] /\ rank[d] \in Nat /\ rank[c] \in Nat
        BY <3>1, ClassesAssumption DEF IsRank
      <4>2. rank[d] < n /\ rank[d] < m
        <5> HIDE DEF d
        <5> QED
          BY <2>1, <2>2, <4>1
      <4> QED
        BY <4>1, <4>2
    <3>2. Extended(f, c) = Extended(g, c)
      BY <1>0, <3>1, ExtendedFacts
    <3> QED
      BY <2>2, <3>2 DEF IsPart
  <2> QED
    BY <2>1, <2>2
<1> HIDE DEF S
<1>3. S \subseteq Nat
  BY DEF S
<1>4. S = Nat
  BY <1>1, <1>2, <1>3, NaturalsUp
<1>5. ASSUME NEW c \in Classes, rank[c] < n
      PROVE  f[c] = g[c]
  <2>1. n \in S
    BY <1>4
  <2> QED
    BY <1>5, <2>1 DEF S
<1> QED
  BY <1>5

\* The recursion of Supers is sound.
LEMMA ChainExists ==
  ASSUME NEW rank \in [Classes -> Nat], IsRank(rank)
  PROVE  \E f : IsChain(f)
<1> DEFINE P(c) == CHOOSE f : IsPart(f, rank, rank[c] + 1)
           G == [c \in Classes |-> P(c)[c]]
<1>1. ASSUME NEW c \in Classes
      PROVE  IsPart(P(c), rank, rank[c] + 1) /\ rank[c] \in Nat /\ rank[c] + 1 \in Nat
  <2>1. rank[c] \in Nat /\ rank[c] + 1 \in Nat
    OBVIOUS
  <2>2. \E f : IsPart(f, rank, rank[c] + 1)
    BY <2>1, PartExists
  <2> QED
    BY <2>1, <2>2
<1> HIDE DEF P
<1>2. ASSUME NEW c \in Classes
      PROVE  P(c)[c] = Extended(G, c)
  <2>1. P(c)[c] = Extended(P(c), c)
    <3>1. rank[c] < rank[c] + 1
      BY <1>1
    <3> QED
      BY <1>1, <3>1 DEF IsPart
  <2>2. CASE Super[c] = NoClass
    BY <2>1, <2>2 DEF Extended
  <2>3. CASE Super[c] # NoClass
    <3> DEFINE d == Super[c]
    <3>1. d \in Classes /\ rank[d] < rank[c]
      BY <2>3, ClassesAssumption DEF IsRank
    <3>2. P(c)[d] = P(d)[d]
      <4> HIDE DEF d
      <4>1. /\ rank[d] \in Nat /\ rank[c] \in Nat /\ rank[d] + 1 \in Nat
            /\ IsPart(P(d), rank, rank[d] + 1) /\ IsPart(P(c), rank, rank[c] + 1)
        BY <1>1, <3>1
      <4>2. rank[d] < rank[d] + 1
        BY <4>1
      <4>3. \A e \in Classes : rank[e] < rank[d] + 1 => rank[e] < rank[c] + 1
        <5> SUFFICES ASSUME NEW e \in Classes, rank[e] < rank[d] + 1
                     PROVE  rank[e] < rank[c] + 1
          OBVIOUS
        <5>1. rank[e] \in Nat
          OBVIOUS
        <5> QED
          BY <3>1, <4>1, <5>1
      <4>4. IsPart(P(c), rank, rank[d] + 1)
        BY <4>1, <4>3 DEF IsPart
      <4> QED
        BY <3>1, <4>1, <4>2, <4>4, PartsAgree
    <3>3. G[d] = P(d)[d]
      BY <3>1
    <3> QED
      BY <2>1, <2>3, <3>2, <3>3 DEF Extended
  <2> QED
    BY <2>2, <2>3
<1>3. G = [c \in Classes |-> Extended(G, c)]
  BY <1>2
<1> QED
  BY <1>3 DEF IsChain

\* Supers is what its recursion says.
LEMMA SupersFacts ==
  ASSUME NEW rank \in [Classes -> Nat], IsRank(rank), NEW c \in Classes
  PROVE  Supers(c) = IF Super[c] = NoClass THEN <<c>> ELSE <<c>> \o Supers(Super[c])
<1> DEFINE h == CHOOSE f : IsChain(f)
<1>1. \A d : Supers(d) = h[d]
  BY DEF Supers, IsChain, Extended
<1>2. IsChain(h)
  BY ChainExists
<1> HIDE DEF h
<1>3. h[c] = Extended(h, c)
  BY <1>2 DEF IsChain
<1> QED
  BY <1>1, <1>3 DEF Extended

\* What is derived step by step is the list of all super classes.
LEMMA DerivedSupers ==
  ASSUME NEW rank \in [Classes -> Nat], IsRank(rank), NEW reg, NEW slo, slo \subseteq Classes,
         NEW mr, Derived(reg, slo, mr)
  PROVE  \A c \in slo : mr[c] = Supers(c)
<1> DEFINE S == {n \in Nat : \A c \in slo : rank[c] < n => mr[c] = Supers(c)}
<1>0. \A c \in slo : c \in Classes /\ rank[c] \in Nat
  OBVIOUS
<1>1. 0 \in S
  BY <1>0
<1>2. ASSUME NEW n \in S
      PROVE  n + 1 \in S
  <2>1. n \in Nat /\ n + 1 \in Nat
    OBVIOUS
  <2>2. ASSUME NEW c \in slo, rank[c] < n + 1
        PROVE  mr[c] = Supers(c)
    <3>1. CASE Super[c] = NoClass /\ mr[c] = <<c>>
      BY <1>0, <3>1, SupersFacts
    <3>2. CASE Super[c] \in slo /\ mr[c] = <<c>> \o mr[Super[c]]
      <4> DEFINE d == Super[c]
      <4>1. d \in slo /\ d # NoClass /\ rank[d] < rank[c] /\ rank[d] \in Nat /\ rank[c] \in Nat
        BY <1>0, <3>2, ClassesAssumption DEF IsRank
      <4>2. rank[d] < n
        <5> HIDE DEF d
        <5> QED
          BY <2>1, <2>2, <4>1
      <4>3. mr[d] = Supers(d)
        BY <4>1, <4>2
      <4>4. Supers(c) = <<c>> \o Supers(d)
        BY <1>0, <4>1, SupersFacts
      <4> QED
        BY <3>2, <4>3, <4>4
    <3> QED
      BY <3>1, <3>2 DEF Derived
  <2> QED
    BY <2>1, <2>2
<1> HIDE DEF S
<1>3. S \subseteq Nat
  BY DEF S
<1>4. S = Nat
  BY <1>1, <1>2, <1>3, NaturalsUp
<1>5. ASSUME NEW c \in slo
      PROVE  mr[c] = Supers(c)
  <2>1. rank[c] + 1 \in Nat /\ rank[c] < rank[c] + 1
    <3>1. rank[c] \in Nat
      BY <1>0
    <3> QED
      BY <3>1
  <2>2. rank[c] + 1 \in S
    BY <1>4, <2>1
  <2> QED
    BY <2>1, <2>2 DEF S
<1> QED
  BY <1>5

\* The mro that PyType_Ready derives is the list of all Java super classes, for all
\* failures and class graphs in which super classes and components end and no class
\* mentions a grandchild, if one thread calls jpy.get_type and callbacks do not.  With a
\* grandchild that is mentioned it is not: TLC finds that with FactoryMembers.
THEOREM HierarchyIsTranslatedInSequence ==
  ASSUME Sequential, NEW rank \in [Classes -> Nat], IsRank(rank), NoGrandchildMentioned
  PROVE  Spec => []HierarchyIsTranslated
<1> DEFINE I == Core /\ HierarchyOK
<1>1. Init => I
  BY InitCore, InitHierarchy
<1>2. I /\ [Next]_vars => I'
  BY StepCore, StepHierarchy
<1>3. I => HierarchyIsTranslated
  <2> SUFFICES ASSUME I, NEW c \in registered \cap slotted
               PROVE  mro[c] = Supers(c)
    BY DEF HierarchyIsTranslated
  <2>1. slotted \subseteq Classes /\ Derived(registered, slotted, mro)
    BY DEF Core, TypeOK, HierarchyOK
  <2> QED
    BY <2>1, DerivedSupers
<1> HIDE DEF I
<1> QED
  BY <1>1, <1>2, <1>3, PTL DEF Spec
===============================================================================
