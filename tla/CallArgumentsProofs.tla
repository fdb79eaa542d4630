------------------------ MODULE CallArgumentsProofs -------------------------
(***************************************************************************)
(* What CallArguments has for any methods, any finite sets of views and of *)
(* local references, any arrays and contents, and any depth of nested      *)
(* calls.                                                                  *)
(*                                                                         *)
(* The operators of this module take the stack, the references, the        *)
(* exports and the views as parameters (s, loc, ex, vw) instead of using   *)
(* the variables, so that one lemma speaks of the state before a step and  *)
(* of the one after it.                                                    *)
(***************************************************************************)
EXTENDS CallArguments, FiniteSetTheorems, TLAPS

-----------------------------------------------------------------------------
(* What calls owe: pairs of a frame and a position *)

JArgs == [ref : Refs \cup {NoRef}, dispose : Disposers \cup {"nothing"}]
Frames == [method : Methods, args : Seq(Args), jargs : Seq(JArgs), phase : {"convert", "java"}]
Buffers == {"readonly", "writable"}

\* What the calls of a stack have to dispose, and what of it belongs to the innermost.
Owed(s, D) == UNION {{<<k, i>> : i \in With(s[k], D)} : k \in 1..Len(s)}
OwedByTop(s, D) == {<<Len(s), i>> : i \in With(s[Len(s)], D)}
RefAt(s, h) == s[h[1]].jargs[h[2]].ref
DisposerAt(s, h) == s[h[1]].jargs[h[2]].dispose
ArgAt(s, h) == s[h[1]].args[h[2]]

\* A jvalue of an argument and what is known of it do not change.
SameAt(s, t, h) ==
  /\ RefAt(t, h) = RefAt(s, h)
  /\ DisposerAt(t, h) = DisposerAt(s, h)
  /\ ArgAt(t, h) = ArgAt(s, h)

\* The stack with another innermost call, the stack without it, and what is kept next.
WithTop(s, g) == [s EXCEPT ![Len(s)] = g]
Popped(s) == SubSeq(s, 1, Len(s) - 1)
NextArg(s) == <<Len(s), Len(s[Len(s)].jargs) + 1>>
ArgToPass(s) == s[Len(s)].args[Len(s[Len(s)].jargs) + 1]

\* What is owed is a position in a frame whose disposer is one of D.
LEMMA OwedFacts ==
  ASSUME NEW s, NEW D, NEW h
  PROVE  h \in Owed(s, D) <=>
           \E k \in 1..Len(s) : \E i \in DOMAIN s[k].jargs :
             h = <<k, i>> /\ s[k].jargs[i].dispose \in D
  BY DEF Owed, With

\* What is owed, is owed by a frame of the stack.
LEMMA OwedElement ==
  ASSUME NEW s \in Seq(Frames), NEW D, NEW h \in Owed(s, D)
  PROVE  /\ h[1] \in 1..Len(s) /\ h[2] \in DOMAIN s[h[1]].jargs
         /\ h = <<h[1], h[2]>>
         /\ DisposerAt(s, h) \in D
<1>1. PICK k, i :
        /\ k \in 1..Len(s) /\ i \in DOMAIN s[k].jargs
        /\ h = <<k, i>> /\ s[k].jargs[i].dispose \in D
  BY OwedFacts
<1>2. h[1] = k /\ h[2] = i
  BY <1>1
<1> QED
  BY <1>1, <1>2 DEF DisposerAt

\* The same for the innermost call.
LEMMA OwedTopElement ==
  ASSUME NEW s, NEW D, NEW h
  PROVE  h \in OwedByTop(s, D) <=>
           \E i \in DOMAIN s[Len(s)].jargs :
             h = <<Len(s), i>> /\ s[Len(s)].jargs[i].dispose \in D
  BY DEF OwedByTop, With

\* A call that begins owes nothing yet.
LEMMA OwedPush ==
  ASSUME NEW s \in Seq(Frames), NEW f \in Frames, f.jargs = <<>>
  PROVE  /\ \A D : Owed(Append(s, f), D) = Owed(s, D)
         /\ \A D : \A h \in Owed(s, D) : SameAt(s, Append(s, f), h)
<1> DEFINE t == Append(s, f)
<1>1. /\ Len(s) \in Nat /\ Len(t) = Len(s) + 1
      /\ \A k \in 1..Len(s) : t[k] = s[k] /\ k \in 1..Len(t)
      /\ t[Len(t)] = f
      /\ \A k \in 1..Len(t) : k \in 1..Len(s) \/ k = Len(t)
  OBVIOUS
<1>2. DOMAIN f.jargs = {}
  OBVIOUS
<1> HIDE DEF t
<1>3. ASSUME NEW D PROVE Owed(t, D) = Owed(s, D)
  <2>1. ASSUME NEW h \in Owed(s, D) PROVE h \in Owed(t, D)
    <3>1. PICK k, i :
            /\ k \in 1..Len(s) /\ i \in DOMAIN s[k].jargs
            /\ h = <<k, i>> /\ s[k].jargs[i].dispose \in D
      BY OwedFacts
    <3>2. t[k] = s[k] /\ k \in 1..Len(t)
      BY <1>1, <3>1
    <3> QED
      BY <3>1, <3>2, OwedFacts
  <2>2. ASSUME NEW h \in Owed(t, D) PROVE h \in Owed(s, D)
    <3>1. PICK k, i :
            /\ k \in 1..Len(t) /\ i \in DOMAIN t[k].jargs
            /\ h = <<k, i>> /\ t[k].jargs[i].dispose \in D
      BY OwedFacts
    <3>2. k \in 1..Len(s) /\ t[k] = s[k]
      BY <1>1, <1>2, <3>1
    <3> QED
      BY <3>1, <3>2, OwedFacts
  <2> QED
    BY <2>1, <2>2
<1>4. ASSUME NEW D, NEW h \in Owed(s, D) PROVE SameAt(s, t, h)
  <2>1. h[1] \in 1..Len(s)
    BY OwedElement
  <2> QED
    BY <1>1, <2>1 DEF SameAt, RefAt, DisposerAt, ArgAt
<1> QED
  BY <1>3, <1>4 DEF t

\* An argument that is kept is owed, if it has a disposer.
LEMMA OwedKeep ==
  ASSUME NEW s \in Seq(Frames), s # <<>>, NEW j \in JArgs, NEW g \in Frames,
         g.args = s[Len(s)].args, g.jargs = Append(s[Len(s)].jargs, j)
  PROVE  /\ \A D : j.dispose \in D => Owed(WithTop(s, g), D) = Owed(s, D) \cup {NextArg(s)}
         /\ \A D : j.dispose \notin D => Owed(WithTop(s, g), D) = Owed(s, D)
         /\ \A D : NextArg(s) \notin Owed(s, D)
         /\ \A D : \A h \in Owed(s, D) : SameAt(s, WithTop(s, g), h)
         /\ RefAt(WithTop(s, g), NextArg(s)) = j.ref
         /\ DisposerAt(WithTop(s, g), NextArg(s)) = j.dispose
         /\ ArgAt(WithTop(s, g), NextArg(s)) = ArgToPass(s)
<1> DEFINE n == Len(s)
           old == s[n].jargs
           t == [s EXCEPT ![n] = g]
           next == Len(old) + 1
           new == <<n, next>>
<1>1. n \in Nat /\ n \in 1..n /\ s[n] \in Frames
  OBVIOUS
<1>2. /\ Len(t) = n /\ t[n] = g
      /\ \A k \in 1..n : k # n => t[k] = s[k]
  BY <1>1
<1>3. old \in Seq(JArgs) /\ Len(old) \in Nat
  BY <1>1 DEF Frames
<1>4. /\ DOMAIN g.jargs = 1..next /\ DOMAIN old = 1..Len(old)
      /\ g.jargs[next] = j /\ next \in 1..next
      /\ \A i \in 1..Len(old) : g.jargs[i] = old[i]
      /\ \A i \in 1..next : i \in 1..Len(old) \/ i = next
      /\ \A i \in 1..Len(old) : i \in 1..next /\ i # next
  BY <1>3
<1>5. next \notin DOMAIN old
  BY <1>3, <1>4
<1> HIDE DEF t, next, old, n
<1>6. ASSUME NEW D, NEW h \in Owed(s, D) PROVE h \in Owed(t, D) /\ h # new
  <2>1. PICK k, i :
          /\ k \in 1..n /\ i \in DOMAIN s[k].jargs
          /\ h = <<k, i>> /\ s[k].jargs[i].dispose \in D
    BY OwedFacts DEF n
  <2>2. CASE k = n
    <3>1. i \in 1..Len(old) /\ old[i].dispose \in D
      BY <1>4, <2>1, <2>2 DEF old
    <3>2. i \in DOMAIN t[k].jargs /\ t[k].jargs[i].dispose \in D
      BY <1>2, <1>4, <2>2, <3>1
    <3>3. i # next
      BY <1>4, <3>1
    <3> QED
      BY <1>2, <2>1, <3>2, <3>3, OwedFacts
  <2>3. CASE k # n
    <3>1. t[k] = s[k]
      BY <1>2, <2>1, <2>3
    <3> QED
      BY <1>2, <2>1, <2>3, <3>1, OwedFacts
  <2> QED
    BY <2>2, <2>3
<1>7. ASSUME NEW D, NEW h \in Owed(t, D)
      PROVE  h \in Owed(s, D) \/ (h = new /\ j.dispose \in D)
  <2>1. PICK k, i :
          /\ k \in 1..n /\ i \in DOMAIN t[k].jargs
          /\ h = <<k, i>> /\ t[k].jargs[i].dispose \in D
    BY <1>2, OwedFacts
  <2>2. CASE k # n
    <3>1. t[k] = s[k]
      BY <1>2, <2>1, <2>2
    <3> QED
      BY <2>1, <3>1, OwedFacts DEF n
  <2>3. CASE k = n /\ i = next
    BY <1>2, <1>4, <2>1, <2>3
  <2>4. CASE k = n /\ i # next
    <3>1. i \in 1..Len(old) /\ t[k].jargs[i] = old[i]
      BY <1>2, <1>4, <2>1, <2>4
    <3>2. i \in DOMAIN s[k].jargs /\ s[k].jargs[i].dispose \in D
      BY <1>4, <2>1, <2>4, <3>1 DEF old
    <3> QED
      BY <2>1, <3>2, OwedFacts DEF n
  <2> QED
    BY <2>2, <2>3, <2>4
<1>8. ASSUME NEW D, j.dispose \in D PROVE new \in Owed(t, D)
  <2>1. next \in DOMAIN t[n].jargs /\ t[n].jargs[next].dispose \in D
    BY <1>2, <1>4, <1>8
  <2> QED
    BY <1>1, <1>2, <2>1, OwedFacts
<1>9. ASSUME NEW D, NEW h \in Owed(s, D) PROVE SameAt(s, t, h)
  <2>1. h[1] \in 1..n /\ h[2] \in DOMAIN s[h[1]].jargs
    BY OwedElement DEF n
  <2>2. CASE h[1] # n
    BY <1>2, <2>1, <2>2 DEF SameAt, RefAt, DisposerAt, ArgAt
  <2>3. CASE h[1] = n
    <3>1. t[n].jargs[h[2]] = s[n].jargs[h[2]]
      BY <1>2, <1>4, <2>1, <2>3 DEF old
    <3>2. t[n].args = s[n].args
      BY <1>2 DEF n
    <3> QED
      BY <2>3, <3>1, <3>2 DEF SameAt, RefAt, DisposerAt, ArgAt
  <2> QED
    BY <2>2, <2>3
<1>10. /\ RefAt(t, new) = j.ref
       /\ DisposerAt(t, new) = j.dispose
       /\ ArgAt(t, new) = s[n].args[next]
  <2>1. t[new[1]].jargs[new[2]] = j /\ t[new[1]].args = s[n].args /\ new[2] = next
    BY <1>2, <1>4 DEF n
  <2> QED
    BY <2>1 DEF RefAt, DisposerAt, ArgAt
<1>11. \A D : j.dispose \in D => Owed(t, D) = Owed(s, D) \cup {new}
  BY <1>6, <1>7, <1>8
<1>12. \A D : j.dispose \notin D => Owed(t, D) = Owed(s, D)
  BY <1>6, <1>7
<1>13. \A D : new \notin Owed(s, D)
  BY <1>6
<1>14. t = WithTop(s, g) /\ new = NextArg(s)
  BY DEF t, new, next, old, n, WithTop, NextArg
<1>15. \A D : \A h \in Owed(s, D) : SameAt(s, t, h)
  BY <1>9
<1> HIDE DEF new
<1>16. ArgAt(t, new) = ArgToPass(s)
  BY <1>10 DEF n, next, old, new, ArgToPass
<1> QED
  BY <1>10, <1>11, <1>12, <1>13, <1>14, <1>15, <1>16

\* A call that ends takes what it owes with it.
LEMMA OwedPop ==
  ASSUME NEW s \in Seq(Frames), s # <<>>
  PROVE  /\ \A D : Owed(Popped(s), D) = Owed(s, D) \ OwedByTop(s, D)
         /\ \A D : OwedByTop(s, D) \subseteq Owed(s, D)
         /\ \A D : \A h \in Owed(Popped(s), D) : SameAt(s, Popped(s), h)
<1> DEFINE n == Len(s)
           t == SubSeq(s, 1, n - 1)
<1>1. n \in Nat /\ n \in 1..n
  OBVIOUS
<1>2. /\ t \in Seq(Frames) /\ Len(t) = n - 1
      /\ \A k \in 1..(n - 1) : t[k] = s[k]
  <2>1. n - 1 \in Nat /\ n - 1 <= Len(s)
    BY <1>1
  <2> QED
    BY <2>1
<1>3. \A k \in 1..n : k # n <=> k \in 1..Len(t)
  BY <1>1, <1>2
<1>4. \A k \in 1..Len(t) : k \in 1..n /\ t[k] = s[k]
  BY <1>1, <1>2
<1> HIDE DEF t, n
<1>5. ASSUME NEW D, NEW h \in Owed(t, D) PROVE h \in Owed(s, D) \ OwedByTop(s, D)
  <2>1. PICK k, i :
          /\ k \in 1..Len(t) /\ i \in DOMAIN t[k].jargs
          /\ h = <<k, i>> /\ t[k].jargs[i].dispose \in D
    BY OwedFacts
  <2>2. k \in 1..n /\ t[k] = s[k] /\ k # n
    BY <1>3, <1>4, <2>1
  <2>3. h \in Owed(s, D)
    BY <2>1, <2>2, OwedFacts DEF n
  <2>4. h \notin OwedByTop(s, D)
    BY <2>1, <2>2, OwedTopElement DEF n
  <2> QED
    BY <2>3, <2>4
<1>6. ASSUME NEW D, NEW h \in Owed(s, D) \ OwedByTop(s, D) PROVE h \in Owed(t, D)
  <2>1. PICK k, i :
          /\ k \in 1..n /\ i \in DOMAIN s[k].jargs
          /\ h = <<k, i>> /\ s[k].jargs[i].dispose \in D
    BY OwedFacts DEF n
  <2>2. k # n
    BY <2>1, OwedTopElement DEF n
  <2>3. k \in 1..Len(t) /\ t[k] = s[k]
    BY <1>3, <1>4, <2>1, <2>2
  <2> QED
    BY <2>1, <2>3, OwedFacts
<1>7. ASSUME NEW D, NEW h \in OwedByTop(s, D) PROVE h \in Owed(s, D)
  BY <1>1, OwedFacts, OwedTopElement DEF n
<1>8. ASSUME NEW D, NEW h \in Owed(t, D) PROVE SameAt(s, t, h)
  <2>1. h[1] \in 1..Len(t)
    BY <1>2, OwedElement
  <2> QED
    BY <1>4, <2>1 DEF SameAt, RefAt, DisposerAt, ArgAt
<1>9. t = Popped(s)
  BY DEF t, n, Popped
<1>10. \A D : Owed(t, D) = Owed(s, D) \ OwedByTop(s, D)
  BY <1>5, <1>6
<1>11. \A D : OwedByTop(s, D) \subseteq Owed(s, D)
  BY <1>7
<1>12. \A D : \A h \in Owed(t, D) : SameAt(s, t, h)
  BY <1>8
<1> QED
  BY <1>9, <1>10, <1>11, <1>12

-----------------------------------------------------------------------------
(* Frames and the stack *)

\* What is kept of an argument is disposed as the parameter requires.
Fitting(param, arg, jarg) ==
  /\ arg \in Views => jarg.dispose = IF param.isMutable THEN "writable" ELSE "readonly"
  /\ arg \notin Views => jarg.dispose \in {"ref", "nothing"}
  /\ jarg.dispose # "nothing" => jarg.ref \in Refs

FrameInv(f) ==
  /\ Len(f.args) = Arity(f)
  /\ Len(f.jargs) <= Arity(f)
  /\ (f.phase = "java") <=> (Len(f.jargs) = Arity(f))
  /\ \A i \in 1..Arity(f) : Fits(f.args[i], f.method.params[i].type)
  /\ \A i \in 1..Len(f.jargs) : Fitting(f.method.params[i], f.args[i], f.jargs[i])

\* Only the innermost call is not in Java.
IsStack(s) ==
  /\ s \in Seq(Frames)
  /\ \A k \in 1..Len(s) : FrameInv(s[k])
  /\ \A k \in 1..Len(s) : k < Len(s) => s[k].phase = "java"

Kept(f, jarg) ==
  [f EXCEPT !.jargs = Append(@, jarg),
            !.phase = IF Len(f.jargs) + 1 = Arity(f) THEN "java" ELSE @]

\* What a frame is made of.
LEMMA FrameFacts ==
  ASSUME NEW f \in Frames
  PROVE  /\ f.method \in Methods
         /\ f.args \in Seq(Args) /\ Len(f.args) \in Nat
         /\ f.jargs \in Seq(JArgs) /\ Len(f.jargs) \in Nat /\ DOMAIN f.jargs = 1..Len(f.jargs)
         /\ f.phase \in {"convert", "java"}
         /\ f.method.params \in Seq(Params) /\ Arity(f) \in Nat /\ Arity(f) > 0
<1>1. f.method \in Methods /\ f.args \in Seq(Args) /\ f.jargs \in Seq(JArgs)
  BY DEF Frames
<1>2. f.method.params \in Seq(Params) /\ f.method.params # <<>>
  BY <1>1, CallsAssumption
<1>3. Len(f.method.params) \in Nat /\ Len(f.method.params) > 0
  BY <1>2
<1> QED
  BY <1>1, <1>2, <1>3 DEF Frames, Arity

\* A frame that keeps one more argument is a frame; after the last it is in Java.
LEMMA KeptFrame ==
  ASSUME NEW f \in Frames, FrameInv(f), f.phase = "convert", NEW jarg \in JArgs,
         Fitting(f.method.params[Len(f.jargs) + 1], f.args[Len(f.jargs) + 1], jarg)
  PROVE  /\ Kept(f, jarg) \in Frames /\ FrameInv(Kept(f, jarg))
         /\ Kept(f, jarg).method = f.method
         /\ Kept(f, jarg).args = f.args
         /\ Kept(f, jarg).jargs = Append(f.jargs, jarg)
         /\ Kept(f, jarg).phase = "java" <=> Len(f.jargs) + 1 = Arity(f)
         /\ Len(f.jargs) + 1 \in 1..Arity(f)
<1> DEFINE n == Len(f.jargs)
           g == Kept(f, jarg)
<1>1. /\ g.method = f.method /\ g.args = f.args /\ g.jargs = Append(f.jargs, jarg)
      /\ g.phase = IF n + 1 = Arity(f) THEN "java" ELSE "convert"
      /\ g \in Frames
  <2>1. Append(f.jargs, jarg) \in Seq(JArgs)
    BY FrameFacts
  <2> QED
    <3> DEFINE new   == Append(f.jargs, jarg)
               phase == IF n + 1 = Arity(f) THEN "java" ELSE "convert"
    <3>1. g = [f EXCEPT !.jargs = new, !.phase = phase]
      BY DEF Kept
    <3>2. phase \in {"convert", "java"}
      OBVIOUS
    <3>3. new \in Seq(JArgs)
      BY <2>1
    <3> HIDE DEF new, phase, g
    <3>4. /\ g \in Frames
          /\ g.method = f.method /\ g.args = f.args /\ g.jargs = new /\ g.phase = phase
      BY <3>1, <3>2, <3>3 DEF Frames
    <3> QED
      BY <3>4 DEF phase, new
<1>2. n \in Nat /\ Arity(f) \in Nat /\ n < Arity(f) /\ Arity(g) = Arity(f)
  BY <1>1, FrameFacts DEF FrameInv, Arity
<1>3. /\ Len(g.jargs) = n + 1
      /\ \A i \in 1..n : g.jargs[i] = f.jargs[i]
      /\ g.jargs[n + 1] = jarg
      /\ \A i \in 1..(n + 1) : i \in 1..n \/ i = n + 1
  BY <1>1, <1>2, FrameFacts
<1>4. g.phase = "java" <=> n + 1 = Arity(f)
  BY <1>1
<1> HIDE DEF g
<1>5. \A i \in 1..(n + 1) : Fitting(g.method.params[i], g.args[i], g.jargs[i])
  BY <1>1, <1>3 DEF FrameInv
<1>6. \A i \in 1..Arity(g) : Fits(g.args[i], g.method.params[i].type)
  BY <1>1, <1>2 DEF FrameInv
<1>7. Len(g.args) = Arity(g)
  BY <1>1, <1>2 DEF FrameInv
<1>8. FrameInv(g)
  BY <1>2, <1>3, <1>4, <1>5, <1>6, <1>7 DEF FrameInv
<1> QED
  BY <1>1, <1>2, <1>4, <1>8 DEF g

\* The frame of a call that begins.
LEMMA NewFrame ==
  ASSUME NEW m \in Methods, NEW args \in [1..Len(m.params) -> Args],
         \A i \in 1..Len(args) : Fits(args[i], m.params[i].type)
  PROVE  /\ Frame(m, args) \in Frames /\ FrameInv(Frame(m, args))
         /\ Frame(m, args).jargs = <<>>
         /\ Frame(m, args).phase = "convert"
         /\ Frame(m, args).args = args /\ Frame(m, args).method = m
<1> DEFINE f == Frame(m, args)
<1>1. /\ f.method = m /\ f.args = args /\ f.jargs = <<>> /\ f.phase = "convert"
      /\ Arity(f) = Len(m.params)
  BY DEF Frame, Arity
<1>2. Len(m.params) \in Nat /\ Len(m.params) > 0
  BY CallsAssumption
<1>3. args \in Seq(Args) /\ Len(args) = Len(m.params)
  BY <1>2
<1>4. f \in Frames
  BY <1>3 DEF Frame, Frames
<1>5. Len(f.jargs) = 0 /\ 1..Len(f.jargs) = {}
  BY <1>1
<1>6. \A i \in 1..Arity(f) : Fits(f.args[i], f.method.params[i].type)
  BY <1>1, <1>3
<1>7. FrameInv(f)
  <2> HIDE DEF f
  <2> QED
    BY <1>1, <1>2, <1>3, <1>5, <1>6 DEF FrameInv
<1> QED
  BY <1>1, <1>4, <1>7

\* A call begins in Python code or in a callback.
LEMMA StackPush ==
  ASSUME NEW s, IsStack(s), s = <<>> \/ s[Len(s)].phase = "java",
         NEW f \in Frames, FrameInv(f)
  PROVE  /\ IsStack(Append(s, f))
         /\ Len(Append(s, f)) = Len(s) + 1
         /\ Append(s, f)[Len(Append(s, f))] = f
         /\ Append(s, f) # <<>>
<1> DEFINE t == Append(s, f)
<1>1. s \in Seq(Frames) /\ Len(s) \in Nat
  BY DEF IsStack
<1>2. /\ t \in Seq(Frames) /\ Len(t) = Len(s) + 1 /\ t[Len(s) + 1] = f /\ t # <<>>
      /\ \A k \in 1..Len(s) : t[k] = s[k]
      /\ \A k \in 1..Len(t) : k \in 1..Len(s) \/ k = Len(s) + 1
  <2>1. t \in Seq(Frames) /\ Len(t) = Len(s) + 1
    BY <1>1
  <2>2. t # <<>>
    BY <1>1, <2>1
  <2>3. t[Len(s) + 1] = f /\ \A k \in 1..Len(s) : t[k] = s[k]
    BY <1>1
  <2>4. \A k \in 1..Len(t) : k \in 1..Len(s) \/ k = Len(s) + 1
    BY <1>1, <2>1
  <2> QED
    BY <2>1, <2>2, <2>3, <2>4
<1> HIDE DEF t
<1>3. \A k \in 1..Len(t) : FrameInv(t[k])
  BY <1>2 DEF IsStack
<1>4. ASSUME NEW k \in 1..Len(t), k < Len(t) PROVE t[k].phase = "java"
  <2>1. k \in 1..Len(s) /\ t[k] = s[k]
    BY <1>1, <1>2, <1>4
  <2>2. CASE k < Len(s)
    BY <2>1, <2>2 DEF IsStack
  <2>3. CASE ~(k < Len(s))
    <3>1. k = Len(s) /\ s # <<>>
      BY <1>1, <2>1, <2>3
    <3> QED
      BY <2>1, <3>1
  <2> QED
    BY <2>2, <2>3
<1>5. IsStack(t)
  BY <1>2, <1>3, <1>4 DEF IsStack
<1> QED
  BY <1>2, <1>5 DEF t

\* The innermost call has a frame.
LEMMA StackTop ==
  ASSUME NEW s, IsStack(s), s # <<>>
  PROVE  /\ s \in Seq(Frames) /\ Len(s) \in Nat /\ Len(s) > 0 /\ Len(s) \in 1..Len(s)
         /\ s[Len(s)] \in Frames /\ FrameInv(s[Len(s)])
<1>1. s \in Seq(Frames) /\ Len(s) \in Nat /\ Len(s) > 0
  BY DEF IsStack
<1>2. Len(s) \in 1..Len(s)
  BY <1>1
<1> QED
  BY <1>1, <1>2 DEF IsStack

\* The innermost call gets another frame.
LEMMA StackKeep ==
  ASSUME NEW s, IsStack(s), s # <<>>, NEW g \in Frames, FrameInv(g)
  PROVE  /\ IsStack(WithTop(s, g))
         /\ Len(WithTop(s, g)) = Len(s)
         /\ WithTop(s, g)[Len(s)] = g
         /\ WithTop(s, g) # <<>>
<1> DEFINE t == [s EXCEPT ![Len(s)] = g]
<1>1. s \in Seq(Frames) /\ Len(s) \in Nat /\ Len(s) > 0 /\ Len(s) \in 1..Len(s)
  BY StackTop
<1>2. /\ t \in Seq(Frames) /\ Len(t) = Len(s) /\ t[Len(s)] = g /\ t # <<>>
      /\ \A k \in 1..Len(s) : k # Len(s) => t[k] = s[k]
  BY <1>1
<1> HIDE DEF t
<1>3. \A k \in 1..Len(t) : FrameInv(t[k])
  BY <1>2 DEF IsStack
<1>4. \A k \in 1..Len(t) : k < Len(t) => t[k].phase = "java"
  <2> SUFFICES ASSUME NEW k \in 1..Len(t), k < Len(t) PROVE t[k].phase = "java"
    OBVIOUS
  <2>1. k # Len(s) /\ k < Len(s)
    BY <1>1, <1>2
  <2> QED
    BY <1>2, <2>1 DEF IsStack
<1>5. IsStack(t)
  BY <1>2, <1>3, <1>4 DEF IsStack
<1> QED
  BY <1>2, <1>5 DEF t, WithTop

\* A call ends, and the one that has called is in Java.
LEMMA StackPop ==
  ASSUME NEW s, IsStack(s), s # <<>>
  PROVE  /\ IsStack(Popped(s))
         /\ Len(Popped(s)) = Len(s) - 1
         /\ Popped(s) # <<>> => Popped(s)[Len(Popped(s))].phase = "java"
<1> DEFINE t == SubSeq(s, 1, Len(s) - 1)
<1>1. s \in Seq(Frames) /\ Len(s) \in Nat /\ Len(s) > 0 /\ Len(s) - 1 \in Nat
  BY StackTop
<1>2. /\ t \in Seq(Frames) /\ Len(t) = Len(s) - 1
      /\ \A k \in 1..(Len(s) - 1) : t[k] = s[k]
  <2>1. ASSUME NEW n \in Nat, n <= Len(s)
        PROVE  /\ SubSeq(s, 1, n) \in Seq(Frames) /\ Len(SubSeq(s, 1, n)) = n
               /\ \A k \in 1..n : SubSeq(s, 1, n)[k] = s[k]
    BY <1>1, <2>1
  <2>2. Len(s) - 1 \in Nat /\ Len(s) - 1 <= Len(s)
    BY <1>1
  <2> QED
    BY <2>1, <2>2
<1>3. \A k \in 1..Len(t) : k \in 1..Len(s) /\ k < Len(s) /\ t[k] = s[k]
  BY <1>1, <1>2
<1> HIDE DEF t
<1>4. \A k \in 1..Len(t) : FrameInv(t[k]) /\ t[k].phase = "java"
  BY <1>3 DEF IsStack
<1>5. IsStack(t)
  BY <1>2, <1>4 DEF IsStack
<1>6. t # <<>> => Len(t) \in 1..Len(t)
  BY <1>2
<1> QED
  BY <1>2, <1>4, <1>5, <1>6 DEF t, Popped

-----------------------------------------------------------------------------
(* Local references *)

\* The references that the calls of a stack own are in use and belong to one
\* argument each; as long as no call has lost one, no others are in use.
RefsOwned(s, loc, things) ==
  /\ \A h \in Owed(s, Disposers) : RefAt(s, h) \in Refs /\ loc[RefAt(s, h)] # Free
  /\ \A h, o \in Owed(s, Disposers) : RefAt(s, h) = RefAt(s, o) => h = o
  /\ "refs" \notin things =>
       \A r \in Refs : loc[r] # Free => \E h \in Owed(s, Disposers) : RefAt(s, h) = r

Objects == [kind : {"free", "object", "array"}, data : Contents]
Locals == [Refs -> Objects]
Taken(loc, lot, r, object) == lot = [loc EXCEPT ![r] = object]
FreeIn(loc) == {r \in Refs : loc[r] = Free}

\* A reference that refers to something is not free.
LEMMA Kinds ==
  /\ Free # Object
  /\ \A x : Array(x) # Free
  /\ Object \in Objects
  /\ \A x \in Contents : Array(x) \in Objects
  /\ Free \in Objects
<1>1. Free.kind = "free" /\ Object.kind = "object" /\ \A x : Array(x).kind = "array"
  BY DEF Free, Object, Array
<1>2. Free # Object /\ \A x : Array(x) # Free
  BY <1>1
<1> QED
  BY <1>2, BuffersAssumption DEF Free, Object, Array, Objects

\* A call begins.
LEMMA RefsPush ==
  ASSUME NEW s \in Seq(Frames), NEW f \in Frames, f.jargs = <<>>,
         NEW loc, NEW things, RefsOwned(s, loc, things)
  PROVE  RefsOwned(Append(s, f), loc, things)
<1> DEFINE t == Append(s, f)
<1>1. Owed(t, Disposers) = Owed(s, Disposers)
  BY OwedPush
<1>2. \A h \in Owed(s, Disposers) : RefAt(t, h) = RefAt(s, h)
  BY OwedPush DEF SameAt
<1> HIDE DEF t
<1>3. RefsOwned(t, loc, things)
  BY <1>1, <1>2 DEF RefsOwned
<1> QED
  BY <1>3 DEF t

\* A value is kept that is no local reference.
LEMMA RefsKeepValue ==
  ASSUME NEW s \in Seq(Frames), s # <<>>, NEW j \in JArgs, j.dispose = "nothing",
         NEW g \in Frames, g.args = s[Len(s)].args, g.jargs = Append(s[Len(s)].jargs, j),
         NEW loc, NEW things, RefsOwned(s, loc, things)
  PROVE  RefsOwned(WithTop(s, g), loc, things)
<1> DEFINE t == WithTop(s, g)
<1>1. j.dispose \notin Disposers
  BY DEF Disposers
<1>2. /\ Owed(t, Disposers) = Owed(s, Disposers)
      /\ \A h \in Owed(s, Disposers) : SameAt(s, t, h)
  BY <1>1, OwedKeep
<1>3. \A h \in Owed(s, Disposers) : RefAt(t, h) = RefAt(s, h)
  BY <1>2 DEF SameAt
<1> HIDE DEF t
<1>4. RefsOwned(t, loc, things)
  BY <1>2, <1>3 DEF RefsOwned
<1> QED
  BY <1>4 DEF t

\* A new local reference is kept.
LEMMA RefsKeepNew ==
  ASSUME NEW s \in Seq(Frames), s # <<>>, NEW j \in JArgs, j.dispose \in Disposers,
         NEW g \in Frames, g.args = s[Len(s)].args, g.jargs = Append(s[Len(s)].jargs, j),
         NEW loc \in Locals, NEW things, RefsOwned(s, loc, things),
         j.ref \in Refs, loc[j.ref] = Free, NEW object, object # Free
  PROVE  RefsOwned(WithTop(s, g), [loc EXCEPT ![j.ref] = object], things)
<1> DEFINE t == WithTop(s, g)
           new == NextArg(s)
           lot == [loc EXCEPT ![j.ref] = object]
           H == Owed(s, Disposers)
<1>1. /\ Owed(t, Disposers) = H \cup {new} /\ new \notin H
      /\ \A h \in H : SameAt(s, t, h)
      /\ RefAt(t, new) = j.ref
  BY OwedKeep
<1>2. \A h \in H : RefAt(t, h) = RefAt(s, h)
  BY <1>1 DEF SameAt
<1>3. lot[j.ref] = object /\ \A r \in Refs : r # j.ref => lot[r] = loc[r]
  BY DEF Locals
<1>4. \A h \in H : RefAt(s, h) \in Refs /\ loc[RefAt(s, h)] # Free /\ RefAt(s, h) # j.ref
  BY DEF RefsOwned
<1> HIDE DEF t, new, lot, H
<1>5. \A h \in H \cup {new} : RefAt(t, h) \in Refs /\ lot[RefAt(t, h)] # Free
  BY <1>1, <1>2, <1>3, <1>4
<1>6. \A h, o \in H \cup {new} : RefAt(t, h) = RefAt(t, o) => h = o
  <2>1. \A h, o \in H : RefAt(s, h) = RefAt(s, o) => h = o
    BY DEF RefsOwned, H
  <2> QED
    BY <1>1, <1>2, <1>4, <2>1
<1>7. ASSUME "refs" \notin things, NEW r \in Refs, lot[r] # Free
      PROVE  \E h \in H \cup {new} : RefAt(t, h) = r
  <2>1. CASE r = j.ref
    BY <1>1, <2>1
  <2>2. CASE r # j.ref
    <3>1. loc[r] # Free
      BY <1>3, <1>7, <2>2
    <3>2. \E h \in H : RefAt(s, h) = r
      BY <1>7, <3>1 DEF RefsOwned, H
    <3> QED
      BY <1>2, <3>2
  <2> QED
    BY <2>1, <2>2
<1>8. RefsOwned(t, lot, things)
  BY <1>1, <1>5, <1>6, <1>7 DEF RefsOwned
<1> QED
  BY <1>8 DEF t, lot

\* A call ends and deletes the references it owns.
LEMMA RefsDeleted ==
  ASSUME NEW s \in Seq(Frames), s # <<>>, NEW things, local \in Locals,
         RefsOwned(s, local, things)
  PROVE  /\ RefsOwned(Popped(s), Deleted(s[Len(s)]), things)
         /\ Deleted(s[Len(s)]) \in Locals
         /\ FreeIn(local) \subseteq FreeIn(Deleted(s[Len(s)]))
         /\ \A h \in Owed(Popped(s), Disposers) :
              Deleted(s[Len(s)])[RefAt(s, h)] = local[RefAt(s, h)]
<1> DEFINE t == Popped(s)
           f == s[Len(s)]
           del == Deleted(f)
           H == Owed(s, Disposers)
           top == OwedByTop(s, Disposers)
<1>1. /\ Owed(t, Disposers) = H \ top
      /\ top \subseteq H
      /\ \A h \in Owed(t, Disposers) : SameAt(s, t, h)
  BY OwedPop
<1>2. \A h \in H \ top : RefAt(t, h) = RefAt(s, h)
  BY <1>1 DEF SameAt
<1>3. \A r : (\E i \in With(f, Disposers) : f.jargs[i].ref = r) <=>
             (\E h \in top : RefAt(s, h) = r)
  <2>1. ASSUME NEW i \in With(f, Disposers)
        PROVE  <<Len(s), i>> \in top /\ RefAt(s, <<Len(s), i>>) = f.jargs[i].ref
    BY DEF OwedByTop, RefAt
  <2>2. ASSUME NEW h \in top
        PROVE  \E i \in With(f, Disposers) : f.jargs[i].ref = RefAt(s, h)
    BY DEF OwedByTop, RefAt
  <2> QED
    BY <2>1, <2>2
<1>4. /\ \A r \in Refs : (\E h \in top : RefAt(s, h) = r) => del[r] = Free
      /\ \A r \in Refs : ~(\E h \in top : RefAt(s, h) = r) => del[r] = local[r]
  BY <1>3 DEF Deleted
<1>5. \A h, o \in H : RefAt(s, h) = RefAt(s, o) => h = o
  BY DEF RefsOwned
<1>6. \A h \in H : RefAt(s, h) \in Refs /\ local[RefAt(s, h)] # Free
  BY DEF RefsOwned
<1>7. "refs" \notin things => \A r \in Refs : local[r] # Free => \E h \in H : RefAt(s, h) = r
  BY DEF RefsOwned
<1>8. del \in Locals
  BY Kinds DEF Deleted, Locals
<1>9. FreeIn(local) \subseteq FreeIn(del)
  BY <1>4 DEF FreeIn
<1> HIDE DEF t, f, del, H, top
<1>10. \A h \in H \ top : RefAt(t, h) \in Refs /\ del[RefAt(t, h)] # Free
  BY <1>1, <1>2, <1>4, <1>5, <1>6
<1>11. \A h, o \in H \ top : RefAt(t, h) = RefAt(t, o) => h = o
  BY <1>2, <1>5
<1>12. ASSUME "refs" \notin things, NEW r \in Refs, del[r] # Free
       PROVE  \E h \in H \ top : RefAt(t, h) = r
  <2>1. ~(\E h \in top : RefAt(s, h) = r) /\ local[r] # Free
    BY <1>4, <1>12
  <2> QED
    BY <1>2, <1>7, <1>12, <2>1
<1>13. RefsOwned(t, del, things)
  BY <1>1, <1>10, <1>11, <1>12 DEF RefsOwned
<1>14. \A h \in H \ top : del[RefAt(s, h)] = local[RefAt(s, h)]
  BY <1>1, <1>4, <1>5, <1>6
<1>15. \A h \in Owed(t, Disposers) : del[RefAt(s, h)] = local[RefAt(s, h)]
  BY <1>1, <1>14
<1> QED
  BY <1>8, <1>9, <1>13, <1>15 DEF t, del, f

\* A call is given up, with the references that it owns.
LEMMA RefsAbandoned ==
  ASSUME NEW s \in Seq(Frames), s # <<>>, NEW loc, NEW things,
         RefsOwned(s, loc, things), NEW more,
         "refs" \notin more => With(s[Len(s)], Disposers) = {}
  PROVE  RefsOwned(Popped(s), loc, things \cup more)
<1> DEFINE t == Popped(s)
           H == Owed(s, Disposers)
           top == OwedByTop(s, Disposers)
<1>1. /\ Owed(t, Disposers) = H \ top
      /\ \A h \in Owed(t, Disposers) : SameAt(s, t, h)
  BY OwedPop
<1>2. \A h \in H \ top : RefAt(t, h) = RefAt(s, h)
  BY <1>1 DEF SameAt
<1>3. "refs" \notin more => top = {}
  BY DEF OwedByTop
<1>4. RefsOwned(s, loc, things) /\ H = Owed(s, Disposers)
  OBVIOUS
<1> HIDE DEF t, H, top
<1>5. RefsOwned(t, loc, things \cup more)
  BY <1>1, <1>2, <1>3, <1>4 DEF RefsOwned
<1> QED
  BY <1>5 DEF t

\* A reference that nobody owns is taken and lost.
LEMMA RefsLost ==
  ASSUME NEW s, NEW loc \in Locals, NEW things, RefsOwned(s, loc, things),
         "refs" \in things, NEW r, NEW object, object # Free
  PROVE  RefsOwned(s, [loc EXCEPT ![r] = object], things)
  BY DEF RefsOwned, Locals

\* The array of a reference gets another content.
LEMMA RefsAssigned ==
  ASSUME NEW s, NEW loc \in Locals, NEW things, RefsOwned(s, loc, things),
         NEW h \in Owed(s, Disposers), NEW object, object # Free
  PROVE  RefsOwned(s, [loc EXCEPT ![RefAt(s, h)] = object], things)
<1> DEFINE r == RefAt(s, h)
           lot == [loc EXCEPT ![r] = object]
<1>1. r \in Refs /\ loc[r] # Free
  BY DEF RefsOwned
<1>2. lot[r] = object /\ \A q \in Refs : q # r => lot[q] = loc[q]
  BY <1>1 DEF Locals
<1> HIDE DEF lot
<1>3. RefsOwned(s, lot, things)
  BY <1>1, <1>2 DEF RefsOwned
<1> QED
  BY <1>3 DEF lot

-----------------------------------------------------------------------------
(* Exports of the views *)

\* What the calls of a stack hold of a view.
HeldIn(s, v) == {h \in Owed(s, Buffers) : ArgAt(s, h) = v}
HeldByTop(s, v) == {<<Len(s), i>> : i \in BufferArgs(s[Len(s)], v)}

\* A view is exported for each argument that holds it, and possibly more often if
\* an export has been lost; then it is open.
ExportsCounted(s, ex, things, open) ==
  \A v \in Views :
    /\ ex[v] \in Nat
    /\ ex[v] >= Cardinality(HeldIn(s, v))
    /\ "exports" \notin things => ex[v] = Cardinality(HeldIn(s, v))
    /\ ex[v] > 0 => v \in open

\* As many pairs as there are positions.
LEMMA PairsWith ==
  ASSUME NEW n, NEW I, IsFiniteSet(I)
  PROVE  /\ IsFiniteSet({<<n, i>> : i \in I})
         /\ Cardinality({<<n, i>> : i \in I}) = Cardinality(I)
<1> DEFINE T == {<<n, i>> : i \in I}
           f == [i \in I |-> <<n, i>>]
<1>1. \A i, k \in I : <<n, i>> = <<n, k>> => i = k
  OBVIOUS
<1>2. f \in [I -> T] /\ (\A i, k \in I : f[i] = f[k] => i = k) /\ \A t \in T : \E i \in I : f[i] = t
  BY <1>1
<1>3. f \in Bijection(I, T)
  BY <1>2 DEF Bijection, Injection, IsInjective, Surjection
<1>4. ExistsBijection(I, T)
  BY <1>3 DEF ExistsBijection
<1> QED
  BY <1>4, FS_Bijection

\* The disposers of buffers are disposers.
LEMMA DisposerSets ==
  /\ Buffers \subseteq Disposers /\ "nothing" \notin Disposers /\ "ref" \notin Buffers
  /\ "nothing" \notin Buffers /\ "writable" \in Buffers /\ "readonly" \in Buffers
  /\ "ref" \in Disposers
  /\ Buffers = {"readonly", "writable"}
  BY DEF Buffers, Disposers

\* A buffer that is to be released has a reference that is to be deleted.
LEMMA BuffersOwed ==
  ASSUME NEW s, NEW h \in Owed(s, Buffers)
  PROVE  h \in Owed(s, Disposers)
<1>1. PICK k, i : /\ k \in 1..Len(s) /\ i \in DOMAIN s[k].jargs
                  /\ h = <<k, i>> /\ s[k].jargs[i].dispose \in Buffers
  BY OwedFacts
<1> QED
  BY <1>1, OwedFacts, DisposerSets

\* A view is held by finitely many arguments.
LEMMA HeldFinite ==
  ASSUME NEW s, IsFiniteSet(Owed(s, Disposers)), NEW v
  PROVE  IsFiniteSet(HeldIn(s, v)) /\ Cardinality(HeldIn(s, v)) \in Nat
<1>1. HeldIn(s, v) \in SUBSET Owed(s, Disposers)
  BY BuffersOwed DEF HeldIn
<1>2. IsFiniteSet(HeldIn(s, v))
  BY <1>1, FS_Subset
<1> QED
  BY <1>2, FS_CardinalityType

\* A call that begins holds nothing.
LEMMA HeldPush ==
  ASSUME NEW s \in Seq(Frames), NEW f \in Frames, f.jargs = <<>>
  PROVE  \A v : HeldIn(Append(s, f), v) = HeldIn(s, v)
<1> DEFINE t == Append(s, f)
<1>1. Owed(t, Buffers) = Owed(s, Buffers)
  BY OwedPush
<1>2. \A h \in Owed(s, Buffers) : ArgAt(t, h) = ArgAt(s, h)
  BY OwedPush DEF SameAt
<1> HIDE DEF t
<1>3. \A v : HeldIn(t, v) = HeldIn(s, v)
  BY <1>1, <1>2 DEF HeldIn
<1> QED
  BY <1>3 DEF t

\* An argument that is kept holds its view, if that is to be released.
LEMMA HeldKeep ==
  ASSUME NEW s \in Seq(Frames), s # <<>>, NEW j \in JArgs, NEW g \in Frames,
         g.args = s[Len(s)].args, g.jargs = Append(s[Len(s)].jargs, j)
  PROVE  /\ j.dispose \notin Buffers => \A v : HeldIn(WithTop(s, g), v) = HeldIn(s, v)
         /\ j.dispose \in Buffers =>
              HeldIn(WithTop(s, g), ArgToPass(s)) = HeldIn(s, ArgToPass(s)) \cup {NextArg(s)}
         /\ j.dispose \in Buffers =>
              \A v : v # ArgToPass(s) => HeldIn(WithTop(s, g), v) = HeldIn(s, v)
         /\ \A v : NextArg(s) \notin HeldIn(s, v)
<1> DEFINE arg == ArgToPass(s)
<1>1. /\ j.dispose \in Buffers => Owed(WithTop(s, g), Buffers) = Owed(s, Buffers) \cup {NextArg(s)}
      /\ j.dispose \notin Buffers => Owed(WithTop(s, g), Buffers) = Owed(s, Buffers)
      /\ NextArg(s) \notin Owed(s, Buffers)
      /\ \A h \in Owed(s, Buffers) : SameAt(s, WithTop(s, g), h)
      /\ ArgAt(WithTop(s, g), NextArg(s)) = arg
  BY OwedKeep
<1>2. \A h \in Owed(s, Buffers) : ArgAt(WithTop(s, g), h) = ArgAt(s, h)
  BY <1>1 DEF SameAt
<1> HIDE DEF arg
<1>3. j.dispose \notin Buffers => \A v : HeldIn(WithTop(s, g), v) = HeldIn(s, v)
  BY <1>1, <1>2 DEF HeldIn
<1>4. j.dispose \in Buffers => HeldIn(WithTop(s, g), arg) = HeldIn(s, arg) \cup {NextArg(s)}
  BY <1>1, <1>2 DEF HeldIn
<1>5. j.dispose \in Buffers => \A v : v # arg => HeldIn(WithTop(s, g), v) = HeldIn(s, v)
  BY <1>1, <1>2 DEF HeldIn
<1>6. \A v : NextArg(s) \notin HeldIn(s, v)
  BY <1>1 DEF HeldIn
<1> QED
  BY <1>3, <1>4, <1>5, <1>6 DEF arg

\* A call that ends does not hold anything any more.
LEMMA HeldPop ==
  ASSUME NEW s \in Seq(Frames), s # <<>>, IsFiniteSet(Owed(s, Disposers)), NEW v
  PROVE  /\ HeldIn(Popped(s), v) = HeldIn(s, v) \ HeldByTop(s, v)
         /\ HeldByTop(s, v) \subseteq HeldIn(s, v)
         /\ Cardinality(BufferArgs(s[Len(s)], v)) \in Nat
         /\ Cardinality(HeldIn(Popped(s), v))
              = Cardinality(HeldIn(s, v)) - Cardinality(BufferArgs(s[Len(s)], v))
         /\ IsFiniteSet(BufferArgs(s[Len(s)], v))
<1> DEFINE top == OwedByTop(s, Buffers)
<1>1. /\ Owed(Popped(s), Buffers) = Owed(s, Buffers) \ top
      /\ top \subseteq Owed(s, Buffers)
      /\ \A h \in Owed(Popped(s), Buffers) : SameAt(s, Popped(s), h)
  BY OwedPop
<1>2. \A h \in Owed(Popped(s), Buffers) : ArgAt(Popped(s), h) = ArgAt(s, h)
  BY <1>1 DEF SameAt
<1>3. \A h : h \in HeldByTop(s, v) <=> h \in top /\ ArgAt(s, h) = v
  BY DisposerSets DEF HeldByTop, BufferArgs, OwedByTop, ArgAt
<1> HIDE DEF top
<1>4. HeldByTop(s, v) \subseteq HeldIn(s, v)
  BY <1>1, <1>3 DEF HeldIn
<1>5. HeldIn(Popped(s), v) = HeldIn(s, v) \ HeldByTop(s, v)
  BY <1>1, <1>2, <1>3 DEF HeldIn
<1>6. IsFiniteSet(HeldIn(s, v)) /\ Cardinality(HeldIn(s, v)) \in Nat
  BY HeldFinite
<1>7. s[Len(s)] \in Frames
  BY <1>6
<1>8. s[Len(s)].jargs \in Seq(JArgs) /\ DOMAIN s[Len(s)].jargs = 1..Len(s[Len(s)].jargs)
      /\ Len(s[Len(s)].jargs) \in Nat
  BY <1>7, FrameFacts
<1>9. IsFiniteSet(BufferArgs(s[Len(s)], v))
  <2>1. IsFiniteSet(1..Len(s[Len(s)].jargs))
    <3>1. 1 \in Int /\ Len(s[Len(s)].jargs) \in Int
      BY <1>8
    <3> QED
      BY <3>1, FS_Interval
  <2>2. BufferArgs(s[Len(s)], v) \in SUBSET (1..Len(s[Len(s)].jargs))
    BY <1>8 DEF BufferArgs, With
  <2> QED
    BY <2>1, <2>2, FS_Subset
<1>10. Cardinality(HeldByTop(s, v)) = Cardinality(BufferArgs(s[Len(s)], v))
  BY <1>9, PairsWith DEF HeldByTop
<1>11. Cardinality(BufferArgs(s[Len(s)], v)) \in Nat
  BY <1>9, FS_CardinalityType
<1>12. HeldIn(s, v) \cap HeldByTop(s, v) = HeldByTop(s, v)
  BY <1>4
<1>13. Cardinality(HeldIn(Popped(s), v))
         = Cardinality(HeldIn(s, v)) - Cardinality(HeldByTop(s, v))
  BY <1>5, <1>6, <1>12, FS_Difference
<1> QED
  BY <1>4, <1>5, <1>9, <1>10, <1>11, <1>13

\* The exports are counted when a call begins, ...
LEMMA CountedPush ==
  ASSUME NEW s \in Seq(Frames), NEW f \in Frames, f.jargs = <<>>, NEW ex, NEW things, NEW open,
         ExportsCounted(s, ex, things, open)
  PROVE  ExportsCounted(Append(s, f), ex, things, open)
  BY HeldPush DEF ExportsCounted

\* ... when it keeps an argument that is no buffer, ...
LEMMA CountedKeepOther ==
  ASSUME NEW s \in Seq(Frames), s # <<>>, NEW j \in JArgs, NEW g \in Frames,
         g.args = s[Len(s)].args, g.jargs = Append(s[Len(s)].jargs, j),
         j.dispose \notin Buffers, NEW ex, NEW things, NEW open,
         ExportsCounted(s, ex, things, open)
  PROVE  ExportsCounted(WithTop(s, g), ex, things, open)
<1>1. \A v : HeldIn(WithTop(s, g), v) = HeldIn(s, v)
  BY HeldKeep
<1> QED
  BY <1>1 DEF ExportsCounted

\* ... when it keeps a buffer that it has got, ...
LEMMA CountedKeepBuffer ==
  ASSUME NEW s \in Seq(Frames), s # <<>>, NEW j \in JArgs, NEW g \in Frames,
         g.args = s[Len(s)].args, g.jargs = Append(s[Len(s)].jargs, j),
         j.dispose \in Buffers, IsFiniteSet(Owed(s, Disposers)),
         NEW ex \in [Views -> Nat], NEW things, NEW open,
         ExportsCounted(s, ex, things, open),
         NEW v \in Views, v = ArgToPass(s), v \in open
  PROVE  /\ ExportsCounted(WithTop(s, g), [ex EXCEPT ![v] = @ + 1], things, open)
         /\ Cardinality(HeldIn(WithTop(s, g), v)) = Cardinality(HeldIn(s, v)) + 1
<1>1. /\ HeldIn(WithTop(s, g), v) = HeldIn(s, v) \cup {NextArg(s)}
      /\ NextArg(s) \notin HeldIn(s, v)
      /\ \A w \in Views : w # v => HeldIn(WithTop(s, g), w) = HeldIn(s, w)
  BY HeldKeep
<1>2. \A w : IsFiniteSet(HeldIn(s, w)) /\ Cardinality(HeldIn(s, w)) \in Nat
  BY HeldFinite
<1>3. Cardinality(HeldIn(WithTop(s, g), v)) = Cardinality(HeldIn(s, v)) + 1
  BY <1>1, <1>2, FS_AddElement
<1> DEFINE more == [ex EXCEPT ![v] = @ + 1]
<1>4. more[v] = ex[v] + 1 /\ \A w \in Views : w # v => more[w] = ex[w]
  OBVIOUS
<1> HIDE DEF more
<1>5. ASSUME NEW w \in Views
      PROVE  /\ more[w] \in Nat
             /\ more[w] >= Cardinality(HeldIn(WithTop(s, g), w))
             /\ "exports" \notin things => more[w] = Cardinality(HeldIn(WithTop(s, g), w))
             /\ more[w] > 0 => w \in open
  <2>1. /\ ex[w] \in Nat /\ ex[w] >= Cardinality(HeldIn(s, w))
        /\ "exports" \notin things => ex[w] = Cardinality(HeldIn(s, w))
        /\ ex[w] > 0 => w \in open
    BY DEF ExportsCounted
  <2>2. CASE w = v
    BY <1>2, <1>3, <1>4, <2>1, <2>2
  <2>3. CASE w # v
    BY <1>1, <1>4, <2>1, <2>3
  <2> QED
    BY <2>2, <2>3
<1>6. ExportsCounted(WithTop(s, g), more, things, open)
  BY <1>5 DEF ExportsCounted
<1> QED
  BY <1>3, <1>6 DEF more

\* ... when it disposes of its arguments ...
LEMMA CountedReleased ==
  ASSUME NEW s \in Seq(Frames), s # <<>>, IsFiniteSet(Owed(s, Disposers)), NEW things, NEW open,
         ExportsCounted(s, exports, things, open)
  PROVE  /\ ExportsCounted(Popped(s), Released(s[Len(s)]), things, open)
         /\ Released(s[Len(s)]) \in [Views -> Nat]
<1> DEFINE less == Released(s[Len(s)])
<1>1. \A v \in Views : less[v] = exports[v] - Cardinality(BufferArgs(s[Len(s)], v))
  BY DEF Released
<1>2. less = [v \in Views |-> less[v]]
  BY DEF Released
<1> HIDE DEF less
<1>3. ASSUME NEW v \in Views
      PROVE  /\ less[v] \in Nat
             /\ less[v] >= Cardinality(HeldIn(Popped(s), v))
             /\ "exports" \notin things => less[v] = Cardinality(HeldIn(Popped(s), v))
             /\ less[v] > 0 => v \in open
  <2>1. /\ exports[v] \in Nat /\ exports[v] >= Cardinality(HeldIn(s, v))
        /\ "exports" \notin things => exports[v] = Cardinality(HeldIn(s, v))
        /\ exports[v] > 0 => v \in open
    BY DEF ExportsCounted
  <2>2. /\ Cardinality(HeldIn(Popped(s), v))
             = Cardinality(HeldIn(s, v)) - Cardinality(BufferArgs(s[Len(s)], v))
        /\ Cardinality(BufferArgs(s[Len(s)], v)) \in Nat
        /\ IsFiniteSet(HeldIn(Popped(s), v))
    <3>1. /\ Cardinality(HeldIn(Popped(s), v))
               = Cardinality(HeldIn(s, v)) - Cardinality(BufferArgs(s[Len(s)], v))
          /\ Cardinality(BufferArgs(s[Len(s)], v)) \in Nat
          /\ HeldIn(Popped(s), v) \in SUBSET HeldIn(s, v)
      BY HeldPop
    <3>2. IsFiniteSet(HeldIn(s, v))
      BY HeldFinite
    <3> QED
      BY <3>1, <3>2, FS_Subset
  <2>3. Cardinality(HeldIn(s, v)) \in Nat /\ Cardinality(HeldIn(Popped(s), v)) \in Nat
    BY <2>2, HeldFinite, FS_CardinalityType
  <2> QED
    BY <1>1, <2>1, <2>2, <2>3
<1>4. ExportsCounted(Popped(s), less, things, open)
  BY <1>3 DEF ExportsCounted
<1>5. less \in [Views -> Nat]
  BY <1>2, <1>3
<1> QED
  BY <1>4, <1>5 DEF less

\* ... and when it gives them up.
LEMMA CountedAbandoned ==
  ASSUME NEW s \in Seq(Frames), s # <<>>, IsFiniteSet(Owed(s, Disposers)),
         NEW ex, NEW things, NEW open, ExportsCounted(s, ex, things, open),
         NEW more, "exports" \notin more => With(s[Len(s)], Buffers) = {}
  PROVE  ExportsCounted(Popped(s), ex, things \cup more, open)
<1>1. ASSUME NEW v \in Views
      PROVE  /\ ex[v] \in Nat
             /\ ex[v] >= Cardinality(HeldIn(Popped(s), v))
             /\ "exports" \notin things \cup more => ex[v] = Cardinality(HeldIn(Popped(s), v))
             /\ ex[v] > 0 => v \in open
  <2>1. /\ ex[v] \in Nat /\ ex[v] >= Cardinality(HeldIn(s, v))
        /\ "exports" \notin things => ex[v] = Cardinality(HeldIn(s, v))
        /\ ex[v] > 0 => v \in open
    BY DEF ExportsCounted
  <2>2. /\ Cardinality(HeldIn(Popped(s), v))
             = Cardinality(HeldIn(s, v)) - Cardinality(BufferArgs(s[Len(s)], v))
        /\ Cardinality(BufferArgs(s[Len(s)], v)) \in Nat
        /\ HeldIn(Popped(s), v) = HeldIn(s, v) \ HeldByTop(s, v)
    BY HeldPop
  <2>3. Cardinality(HeldIn(s, v)) \in Nat
    BY HeldFinite
  <2>4. "exports" \notin more => HeldIn(Popped(s), v) = HeldIn(s, v)
    <3>1. "exports" \notin more => BufferArgs(s[Len(s)], v) = {}
      BY DisposerSets DEF BufferArgs
    <3> QED
      BY <2>2, <3>1 DEF HeldByTop
  <2>5. "exports" \notin things \cup more => ex[v] = Cardinality(HeldIn(Popped(s), v))
    BY <2>1, <2>4
  <2>6. ex[v] >= Cardinality(HeldIn(Popped(s), v))
    BY <2>1, <2>2, <2>3
  <2> QED
    BY <2>1, <2>5, <2>6
<1> QED
  BY <1>1 DEF ExportsCounted

-----------------------------------------------------------------------------
(* Copies of the elements *)

ViewRecords == [obj : JArrays \cup {NoJArray}, readonly : BOOLEAN, buf : Contents]
OpenIn(vw) == {v \in Views : vw[v].obj # NoJArray}

\* A call that is to copy an array back to a view.
Writes(s, v) == \E h \in HeldIn(s, v) : DisposerAt(s, h) = "writable"

\* Wherever nobody is to copy anything back, the copies contain x.
Current(s, loc, ex, vw, arr, x) ==
  /\ OpenIn(vw) = {} => arr = x
  /\ \A v \in OpenIn(vw) :
       ex[v] = Cardinality(HeldIn(s, v)) /\ ~Writes(s, v) => vw[v].buf = x
  /\ \A h \in Owed(s, Buffers) : loc[RefAt(s, h)].data = x

\* What is to be released is a view that is open and exported.
LEMMA HeldArgs ==
  ASSUME NEW s, IsStack(s), IsFiniteSet(Owed(s, Disposers)), NEW ex, NEW things, NEW open,
         ExportsCounted(s, ex, things, open), NEW h \in Owed(s, Buffers)
  PROVE  /\ ArgAt(s, h) \in Views /\ h \in HeldIn(s, ArgAt(s, h))
         /\ ex[ArgAt(s, h)] > 0 /\ ArgAt(s, h) \in open
<1>1. s \in Seq(Frames)
  BY DEF IsStack
<1>2. /\ h[1] \in 1..Len(s) /\ h[2] \in DOMAIN s[h[1]].jargs
      /\ DisposerAt(s, h) \in Buffers
  BY <1>1, OwedElement
<1>3. s[h[1]] \in Frames /\ FrameInv(s[h[1]])
  BY <1>1, <1>2 DEF IsStack
<1>4. h[2] \in 1..Len(s[h[1]].jargs)
  BY <1>2, <1>3, FrameFacts
<1>5. Fitting(s[h[1]].method.params[h[2]], s[h[1]].args[h[2]], s[h[1]].jargs[h[2]])
  BY <1>3, <1>4 DEF FrameInv
<1>6. ArgAt(s, h) \in Views
  BY <1>2, <1>5, DisposerSets DEF Fitting, ArgAt, DisposerAt
<1>7. h \in HeldIn(s, ArgAt(s, h))
  BY DEF HeldIn
<1>8. /\ IsFiniteSet(HeldIn(s, ArgAt(s, h)))
      /\ Cardinality(HeldIn(s, ArgAt(s, h))) \in Nat
      /\ Cardinality(HeldIn(s, ArgAt(s, h))) # 0
  BY <1>7, HeldFinite, FS_EmptySet
<1>9. /\ ex[ArgAt(s, h)] \in Nat
      /\ ex[ArgAt(s, h)] >= Cardinality(HeldIn(s, ArgAt(s, h)))
      /\ ex[ArgAt(s, h)] > 0 => ArgAt(s, h) \in open
  BY <1>6 DEF ExportsCounted
<1>10. ex[ArgAt(s, h)] > 0
  BY <1>8, <1>9
<1> QED
  BY <1>6, <1>7, <1>9, <1>10

\* A view that nobody has exported is held by no call.
LEMMA NotHeld ==
  ASSUME NEW s, IsStack(s), IsFiniteSet(Owed(s, Disposers)), NEW ex, NEW things, NEW open,
         ExportsCounted(s, ex, things, open)
  PROVE  /\ open = {} => Owed(s, Buffers) = {}
         /\ \A v : open = {v} /\ ex[v] = 0 => Owed(s, Buffers) = {}
<1>1. \A h \in Owed(s, Buffers) : ex[ArgAt(s, h)] > 0 /\ ArgAt(s, h) \in open
  BY HeldArgs
<1>2. ~(0 > 0)
  OBVIOUS
<1> QED
  BY <1>1, <1>2

\* The copies are current when a call begins, ...
LEMMA CurrentPush ==
  ASSUME NEW s \in Seq(Frames), NEW f \in Frames, f.jargs = <<>>,
         NEW loc, NEW ex, NEW vw, NEW arr, NEW x, Current(s, loc, ex, vw, arr, x)
  PROVE  Current(Append(s, f), loc, ex, vw, arr, x)
<1> DEFINE t == Append(s, f)
<1>1. Owed(t, Buffers) = Owed(s, Buffers) /\ \A v : HeldIn(t, v) = HeldIn(s, v)
  BY OwedPush, HeldPush
<1>2. \A h \in Owed(s, Buffers) : SameAt(s, t, h)
  BY OwedPush
<1>3. \A h \in Owed(s, Buffers) : RefAt(t, h) = RefAt(s, h) /\ DisposerAt(t, h) = DisposerAt(s, h)
  BY <1>2 DEF SameAt
<1> HIDE DEF t
<1>4. \A v : Writes(t, v) <=> Writes(s, v)
  BY <1>1, <1>3 DEF Writes, HeldIn
<1>5. Current(t, loc, ex, vw, arr, x)
  BY <1>1, <1>3, <1>4 DEF Current
<1> QED
  BY <1>5 DEF t

\* ... when it keeps an argument that is no buffer ...
LEMMA CurrentKeepOther ==
  ASSUME NEW s \in Seq(Frames), s # <<>>, NEW j \in JArgs, NEW g \in Frames,
         g.args = s[Len(s)].args, g.jargs = Append(s[Len(s)].jargs, j),
         j.dispose \notin Buffers,
         NEW loc, NEW lot, \A h \in Owed(s, Buffers) : lot[RefAt(s, h)] = loc[RefAt(s, h)],
         NEW ex, NEW vw, NEW arr, NEW x, Current(s, loc, ex, vw, arr, x)
  PROVE  Current(WithTop(s, g), lot, ex, vw, arr, x)
<1> DEFINE t == WithTop(s, g)
<1>1. Owed(t, Buffers) = Owed(s, Buffers) /\ \A v : HeldIn(t, v) = HeldIn(s, v)
  BY OwedKeep, HeldKeep
<1>2. \A h \in Owed(s, Buffers) : SameAt(s, t, h)
  BY OwedKeep
<1>3. \A h \in Owed(s, Buffers) : RefAt(t, h) = RefAt(s, h) /\ DisposerAt(t, h) = DisposerAt(s, h)
  BY <1>2 DEF SameAt
<1> HIDE DEF t
<1>4. \A v : Writes(t, v) <=> Writes(s, v)
  BY <1>1, <1>3 DEF Writes, HeldIn
<1>5. Current(t, lot, ex, vw, arr, x)
  BY <1>1, <1>3, <1>4 DEF Current
<1> QED
  BY <1>5 DEF t

\* ... and when it keeps a copy of a buffer, or zeros to replace what is in it.
LEMMA CurrentKeepBuffer ==
  ASSUME NEW s, IsStack(s), s # <<>>, NEW j \in JArgs, NEW g \in Frames,
         g.args = s[Len(s)].args, g.jargs = Append(s[Len(s)].jargs, j),
         j.dispose \in Buffers, IsFiniteSet(Owed(s, Disposers)),
         NEW loc, NEW lot, \A h \in Owed(s, Buffers) : lot[RefAt(s, h)] = loc[RefAt(s, h)],
         NEW x, lot[j.ref].data = x,
         NEW ex \in [Views -> Nat], NEW things, NEW vw, NEW arr, NEW id,
         ExportsCounted(s, ex, things, OpenIn(vw)), Current(s, loc, ex, vw, arr, id),
         NEW v \in OpenIn(vw), v = ArgToPass(s),
         x = id \/ (j.dispose = "writable" /\ OpenIn(vw) = {v} /\ ex[v] = 0)
  PROVE  Current(WithTop(s, g), lot, [ex EXCEPT ![v] = @ + 1], vw, arr, x)
<1> DEFINE t == WithTop(s, g)
           new == NextArg(s)
           more == [ex EXCEPT ![v] = @ + 1]
<1>1. s \in Seq(Frames)
  BY DEF IsStack
<1>2. /\ Owed(t, Buffers) = Owed(s, Buffers) \cup {new}
      /\ \A h \in Owed(s, Buffers) : SameAt(s, t, h)
      /\ RefAt(t, new) = j.ref /\ DisposerAt(t, new) = j.dispose
  BY <1>1, OwedKeep
<1>3. \A h \in Owed(s, Buffers) : RefAt(t, h) = RefAt(s, h) /\ DisposerAt(t, h) = DisposerAt(s, h)
  BY <1>2 DEF SameAt
<1>4. /\ HeldIn(t, v) = HeldIn(s, v) \cup {new} /\ new \notin HeldIn(s, v)
      /\ \A w : w # v => HeldIn(t, w) = HeldIn(s, w)
  BY <1>1, HeldKeep
<1>5. /\ Cardinality(HeldIn(t, v)) = Cardinality(HeldIn(s, v)) + 1
      /\ Cardinality(HeldIn(s, v)) \in Nat
  BY <1>4, HeldFinite, FS_AddElement
<1>6. /\ ex[v] \in Nat /\ more[v] = ex[v] + 1
      /\ \A w \in OpenIn(vw) : w # v => more[w] = ex[w]
  BY DEF OpenIn
<1> HIDE DEF t, new, more
<1>7. \A h \in Owed(t, Buffers) : lot[RefAt(t, h)].data = x
  <2>1. CASE x = id
    BY <1>2, <1>3, <2>1 DEF Current
  <2>2. CASE OpenIn(vw) = {v} /\ ex[v] = 0
    <3>1. Owed(s, Buffers) = {}
      BY <2>2, NotHeld
    <3> QED
      BY <1>2, <3>1
  <2> QED
    BY <2>1, <2>2
<1>8. ASSUME NEW w \in OpenIn(vw), w # v, more[w] = Cardinality(HeldIn(t, w)), ~Writes(t, w)
      PROVE  vw[w].buf = x
  <2>1. x = id
    BY <1>8
  <2>2. ex[w] = Cardinality(HeldIn(s, w))
    BY <1>4, <1>6, <1>8
  <2>3. ~Writes(s, w)
    BY <1>3, <1>4, <1>8 DEF Writes, HeldIn
  <2> QED
    BY <2>1, <2>2, <2>3 DEF Current
<1>9. ASSUME more[v] = Cardinality(HeldIn(t, v)), ~Writes(t, v)
      PROVE  vw[v].buf = x
  <2>1. x = id
    BY <1>2, <1>4, <1>9 DEF Writes
  <2>2. ex[v] = Cardinality(HeldIn(s, v))
    BY <1>5, <1>6, <1>9
  <2>3. ~Writes(s, v)
    BY <1>3, <1>4, <1>9 DEF Writes, HeldIn
  <2> QED
    BY <2>1, <2>2, <2>3 DEF Current
<1>10. OpenIn(vw) # {}
  OBVIOUS
<1>11. Current(t, lot, more, vw, arr, x)
  BY <1>7, <1>8, <1>9, <1>10 DEF Current
<1> QED
  BY <1>11 DEF t, more

\* A set of positions has a last one.
LEMMA LatestOf ==
  ASSUME NEW n \in Nat, NEW I \in SUBSET (1..n), I # {}
  PROVE  Latest(I) \in I
<1> DEFINE T == {(i + 1)..n : i \in I}
<1>1. T \subseteq FiniteSubsetsOf(Nat) /\ T # {}
  <2>1. ASSUME NEW i \in I PROVE IsFiniteSet((i + 1)..n) /\ (i + 1)..n \subseteq Nat
    <3>1. i + 1 \in Int /\ n \in Int /\ i \in Nat
      OBVIOUS
    <3> QED
      BY <3>1, FS_Interval
  <2> QED
    BY <2>1 DEF FiniteSubsetsOf
<1>2. PICK x \in T : \A y \in T : ~(<<y, x>> \in StrictSubsetOrdering(Nat))
  <2> HIDE DEF T
  <2> QED
    BY <1>1, FS_StrictSubsetOrderingWellFounded, WFMin
<1>3. PICK i \in I : x = (i + 1)..n
  OBVIOUS
<1>4. ASSUME NEW k \in I, ~(k <= i) PROVE FALSE
  <2>1. k \in 1..n /\ i \in 1..n
    OBVIOUS
  <2>2. (k + 1)..n \subseteq x /\ i + 1 \in x /\ i + 1 \notin (k + 1)..n /\ x \subseteq Nat
    BY <1>3, <1>4, <2>1
  <2>3. (k + 1)..n \in T
    OBVIOUS
  <2> HIDE DEF T
  <2>4. <<(k + 1)..n, x>> \in StrictSubsetOrdering(Nat)
    BY <2>2 DEF StrictSubsetOrdering
  <2> QED
    BY <1>2, <2>3, <2>4
<1>5. \E l \in I : \A k \in I : k <= l
  BY <1>4
<1> QED
  BY <1>5 DEF Latest

\* The last of the writable arguments, whose array is copied back.
LEMMA WritableArgsFacts ==
  ASSUME NEW s, IsStack(s), s # <<>>, NEW v
  PROVE  LET I == WritableArgs(s[Len(s)], v)
         IN /\ I # {} => Latest(I) \in I
            /\ \A i \in I : /\ <<Len(s), i>> \in Owed(s, Buffers)
                            /\ <<Len(s), i>> \in HeldByTop(s, v)
                            /\ DisposerAt(s, <<Len(s), i>>) = "writable"
                            /\ s[Len(s)].jargs[i].ref = RefAt(s, <<Len(s), i>>)
            /\ \A h \in HeldByTop(s, v) : DisposerAt(s, h) = "writable" => I # {}
<1> DEFINE f == s[Len(s)]
           I == WritableArgs(f, v)
<1>1. f \in Frames /\ Len(s) \in 1..Len(s) /\ s \in Seq(Frames)
  BY StackTop
<1>2. DOMAIN f.jargs = 1..Len(f.jargs) /\ Len(f.jargs) \in Nat
  BY <1>1, FrameFacts
<1>3. I \in SUBSET (1..Len(f.jargs))
  BY <1>2 DEF WritableArgs, With
<1>4. I # {} => Latest(I) \in I
  <2> HIDE DEF I, f
  <2> QED
    BY <1>2, <1>3, LatestOf
<1>5. ASSUME NEW i \in I
      PROVE  /\ i \in DOMAIN f.jargs /\ f.jargs[i].dispose = "writable"
             /\ f.args[i] = v
  BY DEF WritableArgs, With
<1>6. \A i \in I : <<Len(s), i>> \in Owed(s, Buffers)
  BY <1>1, <1>5, OwedFacts, DisposerSets
<1>7. \A i \in I : <<Len(s), i>> \in HeldByTop(s, v)
  BY <1>5, DisposerSets DEF HeldByTop, BufferArgs, With
<1>8. \A i \in I : /\ DisposerAt(s, <<Len(s), i>>) = "writable"
                   /\ f.jargs[i].ref = RefAt(s, <<Len(s), i>>)
  BY <1>5 DEF DisposerAt, RefAt
<1>9. ASSUME NEW h \in HeldByTop(s, v), DisposerAt(s, h) = "writable" PROVE I # {}
  <2>1. PICK i \in BufferArgs(f, v) : h = <<Len(s), i>>
    BY DEF HeldByTop
  <2>2. f.jargs[i].dispose = "writable"
    BY <1>9, <2>1 DEF DisposerAt
  <2>3. i \in I
    BY <2>1, <2>2 DEF BufferArgs, WritableArgs, With
  <2> QED
    BY <2>3
<1> QED
  BY <1>4, <1>6, <1>7, <1>8, <1>9

\* Disposing of the arguments of a call leaves all copies current.
LEMMA CurrentReleased ==
  ASSUME NEW s, IsStack(s), s # <<>>, IsFiniteSet(Owed(s, Disposers)),
         NEW things, ExportsCounted(s, exports, things, OpenIn(view)),
         view \in [Views -> ViewRecords],
         NEW arr, NEW x, Current(s, local, exports, view, arr, x),
         NEW lot, \A h \in Owed(Popped(s), Buffers) : lot[RefAt(s, h)] = local[RefAt(s, h)]
  PROVE  Current(Popped(s), lot, Released(s[Len(s)]), CopiedBack(s[Len(s)]), arr, x)
<1> DEFINE f == s[Len(s)]
           t == Popped(s)
           less == Released(f)
           vw == CopiedBack(f)
<1>1. s \in Seq(Frames)
  BY DEF IsStack
<1>2. /\ Owed(t, Buffers) \subseteq Owed(s, Buffers)
      /\ \A h \in Owed(t, Buffers) :
           RefAt(t, h) = RefAt(s, h) /\ DisposerAt(t, h) = DisposerAt(s, h)
  BY <1>1, OwedPop DEF SameAt
<1>3. \A v : HeldIn(t, v) = HeldIn(s, v) \ HeldByTop(s, v)
  BY <1>1, HeldPop
<1>4. ASSUME NEW v \in Views
      PROVE  /\ vw[v].obj = view[v].obj
             /\ WritableArgs(f, v) = {} => vw[v].buf = view[v].buf
             /\ WritableArgs(f, v) # {} =>
                  vw[v].buf = local[f.jargs[Latest(WritableArgs(f, v))].ref].data
  <2>1. vw[v] = IF WritableArgs(f, v) = {} THEN view[v]
                ELSE [view[v] EXCEPT !.buf = local[f.jargs[Latest(WritableArgs(f, v))].ref].data]
    BY DEF CopiedBack
  <2>2. view[v] \in ViewRecords
    OBVIOUS
  <2> HIDE DEF vw, f
  <2> QED
    BY <2>1, <2>2 DEF ViewRecords
<1>5. OpenIn(vw) = OpenIn(view)
  BY <1>4 DEF OpenIn
<1>6. ASSUME NEW v \in OpenIn(view), less[v] = Cardinality(HeldIn(t, v)), ~Writes(t, v)
      PROVE  vw[v].buf = x
  <2>1. v \in Views
    BY DEF OpenIn
  <2>2. CASE WritableArgs(f, v) # {}
    <3>1. PICK i \in WritableArgs(f, v) : i = Latest(WritableArgs(f, v))
      BY <2>2, WritableArgsFacts
    <3>2. /\ <<Len(s), i>> \in Owed(s, Buffers)
          /\ f.jargs[i].ref = RefAt(s, <<Len(s), i>>)
      BY WritableArgsFacts
    <3>3. local[RefAt(s, <<Len(s), i>>)].data = x
      BY <3>2 DEF Current
    <3> QED
      BY <1>4, <2>1, <2>2, <3>1, <3>2, <3>3
  <2>3. CASE WritableArgs(f, v) = {}
    <3>1. \A h \in HeldByTop(s, v) : DisposerAt(s, h) # "writable"
      BY <2>3, WritableArgsFacts
    <3>2. \A h \in HeldIn(s, v) \ HeldByTop(s, v) : DisposerAt(s, h) # "writable"
      <4>1. \A h \in HeldIn(t, v) : h \in Owed(t, Buffers) /\ DisposerAt(t, h) # "writable"
        BY <1>6 DEF Writes, HeldIn
      <4> QED
        BY <1>2, <1>3, <4>1
    <3>3. ~Writes(s, v)
      BY <3>1, <3>2 DEF Writes
    <3>4. exports[v] = Cardinality(HeldIn(s, v))
      <4>1. less[v] = exports[v] - Cardinality(BufferArgs(f, v))
        BY <2>1 DEF Released
      <4>2. /\ Cardinality(HeldIn(t, v)) = Cardinality(HeldIn(s, v)) - Cardinality(BufferArgs(f, v))
            /\ Cardinality(BufferArgs(f, v)) \in Nat
        BY <1>1, HeldPop
      <4>3. Cardinality(HeldIn(s, v)) \in Nat
        BY HeldFinite
      <4>4. exports[v] \in Nat
        BY <2>1 DEF ExportsCounted
      <4>5. less[v] = Cardinality(HeldIn(t, v))
        BY <1>6
      <4> DEFINE l == less[v]
                 b == Cardinality(BufferArgs(f, v))
                 n == Cardinality(HeldIn(s, v))
                 e == exports[v]
      <4>6. l = e - b /\ l = n - b /\ b \in Nat /\ n \in Nat /\ e \in Nat
        BY <4>1, <4>2, <4>3, <4>4, <4>5
      <4> HIDE DEF l, b, n, e
      <4>7. e = n
        BY <4>6
      <4> QED
        BY <4>7 DEF e, n
    <3>5. view[v].buf = x
      BY <3>3, <3>4 DEF Current
    <3> QED
      BY <1>4, <2>1, <2>3, <3>5
  <2> QED
    BY <2>2, <2>3
<1> HIDE DEF f, t, less, vw
<1>7. \A h \in Owed(t, Buffers) : lot[RefAt(t, h)].data = x
  BY <1>2 DEF Current, t
<1>8. OpenIn(vw) = {} => arr = x
  BY <1>5 DEF Current
<1>9. Current(t, lot, less, vw, arr, x)
  BY <1>5, <1>6, <1>7, <1>8 DEF Current
<1> QED
  BY <1>9 DEF f, t, less, vw

\* So does a call that is given up.
LEMMA CurrentAbandoned ==
  ASSUME NEW s, IsStack(s), s # <<>>, IsFiniteSet(Owed(s, Disposers)),
         NEW ex, NEW things, NEW vw, ExportsCounted(s, ex, things, OpenIn(vw)),
         NEW arr, NEW x, NEW loc, Current(s, loc, ex, vw, arr, x),
         NEW lot, \A h \in Owed(s, Buffers) : lot[RefAt(s, h)] = loc[RefAt(s, h)]
  PROVE  Current(Popped(s), lot, ex, vw, arr, x)
<1> DEFINE f == s[Len(s)]
           t == Popped(s)
<1>1. s \in Seq(Frames)
  BY DEF IsStack
<1>2. /\ Owed(t, Buffers) \subseteq Owed(s, Buffers)
      /\ \A h \in Owed(t, Buffers) :
           RefAt(t, h) = RefAt(s, h) /\ DisposerAt(t, h) = DisposerAt(s, h)
  BY <1>1, OwedPop DEF SameAt
<1>3. \A v : HeldIn(t, v) = HeldIn(s, v) \ HeldByTop(s, v)
  BY <1>1, HeldPop
<1>4. ASSUME NEW v \in OpenIn(vw), ex[v] = Cardinality(HeldIn(t, v)), ~Writes(t, v)
      PROVE  vw[v].buf = x
  <2>1. v \in Views
    BY DEF OpenIn
  <2>2. BufferArgs(f, v) = {}
    <3>1. /\ Cardinality(HeldIn(t, v)) = Cardinality(HeldIn(s, v)) - Cardinality(BufferArgs(f, v))
          /\ Cardinality(BufferArgs(f, v)) \in Nat
          /\ IsFiniteSet(BufferArgs(f, v))
      BY <1>1, HeldPop
    <3>2. Cardinality(HeldIn(s, v)) \in Nat
      BY HeldFinite
    <3>3. ex[v] \in Nat /\ ex[v] >= Cardinality(HeldIn(s, v))
      BY <2>1 DEF ExportsCounted
    <3> HIDE DEF t, f
    <3>4. Cardinality(BufferArgs(f, v)) = 0
      BY <1>4, <3>1, <3>2, <3>3
    <3> QED
      BY <3>1, <3>4, FS_EmptySet
  <2>3. HeldIn(t, v) = HeldIn(s, v)
    BY <1>3, <2>2 DEF HeldByTop
  <2>4. ~Writes(s, v)
    <3>1. \A h \in HeldIn(t, v) : h \in Owed(t, Buffers) /\ DisposerAt(t, h) # "writable"
      BY <1>4 DEF Writes, HeldIn
    <3> QED
      BY <1>2, <2>3, <3>1 DEF Writes
  <2> QED
    BY <1>4, <2>3, <2>4 DEF Current
<1> HIDE DEF f, t
<1>5. \A h \in Owed(t, Buffers) : lot[RefAt(t, h)].data = x
  BY <1>2 DEF Current, t
<1>6. OpenIn(vw) = {} => arr = x
  BY DEF Current
<1>7. Current(t, lot, ex, vw, arr, x)
  BY <1>4, <1>5, <1>6 DEF Current
<1> QED
  BY <1>7 DEF t

-----------------------------------------------------------------------------
(* The inductive invariant and the steps of Python code *)

\* While arguments are converted, the views among them stay open.
OpenInv ==
  Converting => \A i \in 1..Arity(Top) : Top.args[i] \in Views => IsOpen(Top.args[i])

\* There is a reference for each argument that is still to be converted, and one
\* for each running call.
Room(s, loc) ==
  s # <<>> =>
    Cardinality(FreeIn(loc)) >= Arity(s[Len(s)]) - Len(s[Len(s)].jargs) + Len(s)

CallInv ==
  /\ IsStack(stack)
  /\ local \in Locals
  /\ IsFiniteSet(Owed(stack, Disposers))
  /\ RefsOwned(stack, local, lost)
  /\ Room(stack, local)
  /\ exports \in [Views -> Nat]
  /\ result \in [of : Views \cup {NoView}, data : Contents]
  /\ lost \subseteq {"exports", "refs"}
  /\ losses \in 0..MaxLosses

CopyInv == quiet => Current(stack, local, exports, view, array, ideal)

IInv ==
  /\ BufferTypeOK
  /\ ExportsAreCounted
  /\ CallInv
  /\ OpenInv
  /\ ExportsCounted(stack, exports, lost, OpenIn(view))
  /\ CopyInv

\* BufferTypeOK, with a name for the records.
LEMMA ViewsTyped == BufferTypeOK => view \in [Views -> ViewRecords]
  BY DEF BufferTypeOK, ViewRecords

\* Two ways to say which views are open.
LEMMA OpenViews == Open = OpenIn(view) /\ \A v \in Views : IsOpen(v) <=> v \in OpenIn(view)
  BY DEF Open, IsOpen, OpenIn

\* The invariant holds initially.
LEMMA InitIInv == Init => IInv
<1> SUFFICES ASSUME Init PROVE IInv
  OBVIOUS
<1>1. /\ array = Zero /\ bufferExportCount = [a \in JArrays |-> 0]
      /\ view = [v \in Views |-> Closed] /\ ideal = Zero /\ quiet = TRUE
      /\ stack = <<>> /\ local = [r \in Refs |-> Free] /\ exports = [v \in Views |-> 0]
      /\ result = NoResult /\ lost = {} /\ losses = 0
  BY DEF Init, BufferInit
<1>2. BufferTypeOK
  BY <1>1, BuffersAssumption DEF BufferTypeOK, Closed
<1>3. \A v \in Views : view[v].obj = NoJArray
  BY <1>1 DEF Closed
<1>4. OpenIn(view) = {}
  BY <1>3 DEF OpenIn
<1>5. \A D : Owed(stack, D) = {}
  BY <1>1, OwedFacts
<1>6. \A v : HeldIn(stack, v) = {}
  BY <1>5 DEF HeldIn
<1>7. ExportsAreCounted
  <2>1. \A a \in JArrays : {v \in Views : view[v].obj = a} = {}
    BY <1>3, BuffersAssumption
  <2> QED
    BY <1>1, <2>1, FS_EmptySet DEF ExportsAreCounted
<1>8. ExportsCounted(stack, exports, lost, OpenIn(view))
  BY <1>1, <1>6, FS_EmptySet DEF ExportsCounted
<1>9. CopyInv
  BY <1>1, <1>4, <1>5 DEF CopyInv, Current
<1>10. CallInv
  <2>1. stack \in Seq(Frames) /\ Len(stack) = 0 /\ 1..Len(stack) = {}
    BY <1>1
  <2>2. IsStack(stack)
    BY <2>1 DEF IsStack
  <2>3. local \in Locals /\ \A r \in Refs : local[r] = Free
    BY <1>1, Kinds DEF Locals
  <2>4. RefsOwned(stack, local, lost)
    BY <1>5, <2>3 DEF RefsOwned
  <2>5. Room(stack, local)
    BY <1>1 DEF Room
  <2>6. result \in [of : Views \cup {NoView}, data : Contents]
    BY <1>1, BuffersAssumption DEF NoResult
  <2>7. losses \in 0..MaxLosses
    BY <1>1, CallsAssumption
  <2>8. exports \in [Views -> Nat] /\ lost \subseteq {"exports", "refs"}
    BY <1>1
  <2>9. IsFiniteSet(Owed(stack, Disposers))
    BY <1>5, FS_EmptySet
  <2> QED
    BY <2>2, <2>3, <2>4, <2>5, <2>6, <2>7, <2>8, <2>9 DEF CallInv
<1>11. OpenInv
  BY <1>1 DEF OpenInv, Converting, Busy
<1> QED
  BY <1>2, <1>7, <1>8, <1>9, <1>10, <1>11 DEF IInv

\* What is said of the calls does not depend on the array and its views.
LEMMA SameCalls ==
  ASSUME CallInv, UNCHANGED callVars
  PROVE  CallInv'
  BY DEF CallInv, callVars, Room, FreeIn

\* Only a call that converts its arguments needs them open; no Python code runs then.
LEMMA PythonOpens == PythonRuns /\ UNCHANGED stack => OpenInv'
  BY DEF PythonRuns, OpenInv, Converting, InJava, Busy, Top

\* A new view is a copy of the array, which is current if there are no others.
LEMMA OpenViewKeepsIInv ==
  ASSUME IInv, NEW v \in Views, NEW a \in JArrays, NEW flags, OpenView(v, a, flags)
  PROVE  IInv'
<1>1. /\ ~IsOpen(v) /\ PythonRuns
      /\ view' = [view EXCEPT ![v] = [obj |-> a, readonly |-> flags # "writable", buf |-> array]]
      /\ bufferExportCount' = [bufferExportCount EXCEPT ![a] = @ + 1]
      /\ IF Open = {} THEN Track(array, TRUE) ELSE Track(ideal, quiet /\ ideal = array)
      /\ array' = array /\ UNCHANGED callVars
  BY DEF OpenView, GetBuffer
<1>2. BufferTypeOK /\ ExportsAreCounted /\ CallInv /\ view \in [Views -> ViewRecords]
  BY ViewsTyped DEF IInv
<1>3. a # NoJArray /\ view[v].obj = NoJArray
  BY <1>1, BuffersAssumption DEF IsOpen
<1>4. /\ view'[v].obj = a /\ view'[v].buf = array
      /\ \A w \in Views : w # v => view'[w] = view[w]
  BY <1>1, <1>2
<1>5. OpenIn(view') = OpenIn(view) \cup {v} /\ v \notin OpenIn(view)
  BY <1>3, <1>4 DEF OpenIn
<1>6. BufferTypeOK'
  <2>1. view' \in [Views -> ViewRecords]
    BY <1>1, <1>2 DEF ViewRecords, BufferTypeOK
  <2>2. bufferExportCount' \in [JArrays -> Nat]
    BY <1>1, <1>2 DEF BufferTypeOK
  <2>3. ideal' \in Contents /\ quiet' \in BOOLEAN
    BY <1>1, <1>2, BuffersAssumption DEF Track, BufferTypeOK
  <2> QED
    BY <1>1, <1>2, <2>1, <2>2, <2>3 DEF BufferTypeOK, ViewRecords
<1>7. ExportsAreCounted'
  <2>1. ASSUME NEW b \in JArrays
        PROVE  bufferExportCount'[b] = Cardinality({w \in Views : view'[w].obj = b})
    <3> DEFINE S == {w \in Views : view[w].obj = b}
               T == {w \in Views : view'[w].obj = b}
    <3>1. IsFiniteSet(S)
      BY BuffersAssumption, FS_Subset
    <3>2. bufferExportCount[b] = Cardinality(S) /\ bufferExportCount[b] \in Nat
      BY <1>2 DEF ExportsAreCounted, BufferTypeOK
    <3>3. CASE b = a
      <4>1. T = S \cup {v} /\ v \notin S
        BY <1>3, <1>4, <3>3
      <4>2. bufferExportCount'[b] = bufferExportCount[b] + 1
        BY <1>1, <1>2, <3>3 DEF BufferTypeOK
      <4> HIDE DEF S, T
      <4>3. Cardinality(T) = Cardinality(S) + 1
        BY <3>1, <4>1, FS_AddElement
      <4> QED
        BY <3>2, <4>2, <4>3 DEF T
    <3>4. CASE b # a
      <4>1. T = S
        BY <1>3, <1>4, <3>4, BuffersAssumption
      <4>2. bufferExportCount'[b] = bufferExportCount[b]
        BY <1>1, <1>2, <3>4 DEF BufferTypeOK
      <4> QED
        BY <3>2, <4>1, <4>2
    <3> QED
      BY <3>3, <3>4
  <2> QED
    BY <2>1 DEF ExportsAreCounted
<1>8. UNCHANGED <<stack, local, exports, lost>>
  BY <1>1 DEF callVars
<1>9. ExportsCounted(stack, exports, lost, OpenIn(view)) /\ IsStack(stack)
      /\ IsFiniteSet(Owed(stack, Disposers)) /\ CopyInv
  BY DEF IInv, CallInv
<1>10. ExportsCounted(stack', exports', lost', OpenIn(view'))
  BY <1>5, <1>8, <1>9 DEF ExportsCounted
<1>11. ASSUME quiet' PROVE Current(stack, local, exports, view', array, ideal')
  <2>1. CASE OpenIn(view) = {}
    <3>1. ideal' = array
      BY <1>1, <2>1, OpenViews DEF Track
    <3>2. Owed(stack, Buffers) = {}
      BY <1>9, <2>1, NotHeld
    <3>3. OpenIn(view') = {v}
      BY <1>5, <2>1
    <3> QED
      BY <1>4, <3>1, <3>2, <3>3 DEF Current
  <2>2. CASE OpenIn(view) # {}
    <3>1. ideal' = ideal /\ ideal = array /\ quiet
      BY <1>1, <1>11, <2>2, OpenViews DEF Track
    <3>2. Current(stack, local, exports, view, array, ideal)
      BY <1>9, <3>1 DEF CopyInv
    <3>3. ASSUME NEW w \in OpenIn(view'), exports[w] = Cardinality(HeldIn(stack, w)),
                 ~Writes(stack, w)
          PROVE  view'[w].buf = ideal
      <4>1. CASE w = v
        BY <1>4, <3>1, <4>1
      <4>2. CASE w # v
        <5>1. w \in OpenIn(view) /\ view'[w] = view[w]
          BY <1>4, <1>5, <4>2 DEF OpenIn
        <5> QED
          BY <3>2, <3>3, <5>1 DEF Current
      <4> QED
        BY <4>1, <4>2
    <3>4. OpenIn(view') # {}
      BY <1>5
    <3> QED
      BY <3>1, <3>2, <3>3, <3>4 DEF Current
  <2> QED
    BY <2>1, <2>2
<1>12. CopyInv'
  BY <1>1, <1>8, <1>11 DEF CopyInv
<1>13. CallInv' /\ OpenInv'
  BY <1>1, <1>2, <1>8, SameCalls, PythonOpens
<1> QED
  BY <1>6, <1>7, <1>10, <1>12, <1>13 DEF IInv

\* The last view that is closed was current, and is copied to the array.
LEMMA CloseViewKeepsIInv ==
  ASSUME IInv, NEW v \in Views, CloseView(v)
  PROVE  IInv'
<1> DEFINE a == view[v].obj
<1>1. /\ IsOpen(v) /\ PythonRuns /\ exports[v] = 0
      /\ bufferExportCount' = [bufferExportCount EXCEPT ![a] = @ - 1]
      /\ array' = IF bufferExportCount'[a] = 0 THEN view[v].buf ELSE array
      /\ view' = [view EXCEPT ![v] = Closed]
      /\ UNCHANGED <<ideal, quiet>> /\ UNCHANGED callVars
  BY DEF CloseView, ReleaseBuffer
<1>2. BufferTypeOK /\ ExportsAreCounted /\ CallInv /\ view \in [Views -> ViewRecords]
  BY ViewsTyped DEF IInv
<1>3. a \in JArrays /\ a # NoJArray
  BY <1>1, <1>2 DEF IsOpen, ViewRecords
<1>4. /\ view'[v].obj = NoJArray
      /\ \A w \in Views : w # v => view'[w] = view[w]
  BY <1>1, <1>2 DEF Closed
<1>5. OpenIn(view') = OpenIn(view) \ {v} /\ v \in OpenIn(view)
  BY <1>3, <1>4 DEF OpenIn
<1>6. ASSUME NEW b \in JArrays
      PROVE  /\ bufferExportCount'[b] = Cardinality({w \in Views : view'[w].obj = b})
             /\ bufferExportCount'[b] \in Nat
  <2> DEFINE S == {w \in Views : view[w].obj = b}
             T == {w \in Views : view'[w].obj = b}
  <2>1. IsFiniteSet(S)
    BY BuffersAssumption, FS_Subset
  <2>2. bufferExportCount[b] = Cardinality(S) /\ bufferExportCount[b] \in Nat
    BY <1>2 DEF ExportsAreCounted, BufferTypeOK
  <2>3. CASE b = a
    <3>1. T = S \ {v} /\ v \in S
      BY <1>3, <1>4, <2>3
    <3>2. bufferExportCount'[b] = bufferExportCount[b] - 1
      BY <1>1, <1>2, <1>3, <2>3 DEF BufferTypeOK
    <3> HIDE DEF S, T
    <3>3. Cardinality(T) = Cardinality(S) - 1 /\ IsFiniteSet(T)
      BY <2>1, <3>1, FS_RemoveElement
    <3>4. Cardinality(T) \in Nat
      BY <3>3, FS_CardinalityType
    <3> QED
      BY <2>2, <3>2, <3>3, <3>4 DEF T
  <2>4. CASE b # a
    <3>1. T = S
      BY <1>3, <1>4, <2>4, BuffersAssumption
    <3>2. bufferExportCount'[b] = bufferExportCount[b]
      BY <1>1, <1>2, <2>4 DEF BufferTypeOK
    <3> QED
      BY <2>2, <3>1, <3>2
  <2> QED
    BY <2>3, <2>4
<1>7. ExportsAreCounted'
  BY <1>6 DEF ExportsAreCounted
<1>8. BufferTypeOK'
  <2>1. view' \in [Views -> ViewRecords]
    BY <1>1, <1>2, BuffersAssumption DEF ViewRecords, Closed
  <2>2. bufferExportCount' \in [JArrays -> Nat]
    <3>1. DOMAIN bufferExportCount' = JArrays
          /\ bufferExportCount' = [b \in JArrays |-> bufferExportCount'[b]]
      BY <1>1, <1>2 DEF BufferTypeOK
    <3> QED
      BY <1>6, <3>1
  <2>3. array' \in Contents
    <3>1. view[v].buf \in Contents
      BY <1>2 DEF ViewRecords
    <3> QED
      BY <1>1, <1>2, <3>1 DEF BufferTypeOK
  <2> QED
    BY <1>1, <1>2, <2>1, <2>2, <2>3 DEF BufferTypeOK, ViewRecords
<1>9. UNCHANGED <<stack, local, exports, lost>>
  BY <1>1 DEF callVars
<1>10. ExportsCounted(stack, exports, lost, OpenIn(view)) /\ IsStack(stack)
       /\ IsFiniteSet(Owed(stack, Disposers)) /\ CopyInv
  BY DEF IInv, CallInv
<1>11. ExportsCounted(stack', exports', lost', OpenIn(view'))
  <2>1. ~(exports[v] > 0)
    BY <1>1
  <2> QED
    BY <1>5, <1>9, <1>10, <2>1 DEF ExportsCounted
<1>12. ASSUME quiet' PROVE Current(stack, local, exports, view', array', ideal')
  <2>1. ideal' = ideal /\ Current(stack, local, exports, view, array, ideal)
    BY <1>1, <1>10, <1>12 DEF CopyInv
  <2>2. \A w \in OpenIn(view') : w \in OpenIn(view) /\ view'[w] = view[w]
    BY <1>4, <1>5 DEF OpenIn
  <2>3. ASSUME OpenIn(view') = {} PROVE array' = ideal
    <3>1. bufferExportCount'[a] = 0
      <4>1. {w \in Views : view'[w].obj = a} = {}
        BY <1>3, <2>3 DEF OpenIn
      <4> HIDE DEF a
      <4> QED
        BY <1>3, <1>6, <4>1, FS_EmptySet
    <3>2. Cardinality(HeldIn(stack, v)) = 0 /\ ~Writes(stack, v)
      <4>1. OpenIn(view) = {v}
        BY <1>5, <2>3
      <4>2. Owed(stack, Buffers) = {}
        BY <1>1, <1>10, <4>1, NotHeld
      <4>3. HeldIn(stack, v) = {}
        BY <4>2 DEF HeldIn
      <4> QED
        BY <4>3, FS_EmptySet DEF Writes
    <3>3. view[v].buf = ideal
      BY <1>1, <1>5, <2>1, <3>2 DEF Current
    <3> QED
      BY <1>1, <3>1, <3>3
  <2> QED
    BY <2>1, <2>2, <2>3 DEF Current
<1>13. CopyInv'
  BY <1>9, <1>12 DEF CopyInv
<1>14. CallInv' /\ OpenInv'
  BY <1>1, <1>2, <1>9, SameCalls, PythonOpens
<1> QED
  BY <1>7, <1>8, <1>11, <1>13, <1>14 DEF IInv

\* The ghosts keep their types.
LEMMA TrackTyped ==
  ASSUME NEW x \in Contents, NEW current \in BOOLEAN, Track(x, current)
  PROVE  ideal' \in Contents /\ quiet' \in BOOLEAN
  BY BuffersAssumption DEF Track

\* The only view is assigned while no call has a copy of it.
LEMMA AssignViewKeepsIInv ==
  ASSUME IInv, NEW v \in Views, NEW x \in Contents, AssignView(v, x)
  PROVE  IInv'
<1>1. /\ IsOpen(v) /\ PythonRuns
      /\ view' = [view EXCEPT ![v].buf = x]
      /\ Track(x, quiet /\ Open = {v} /\ ~(exports[v] > 0))
      /\ UNCHANGED <<array, bufferExportCount>> /\ UNCHANGED callVars
  BY DEF AssignView, WriteView
<1>2. BufferTypeOK /\ ExportsAreCounted /\ CallInv /\ view \in [Views -> ViewRecords]
  BY ViewsTyped DEF IInv
<1>3. /\ view' \in [Views -> ViewRecords]
      /\ view'[v].obj = view[v].obj /\ view'[v].buf = x
      /\ \A w \in Views : w # v => view'[w] = view[w]
  <2> DEFINE r == [view[v] EXCEPT !.buf = x]
  <2>1. view[v] \in ViewRecords
    BY <1>2
  <2>2. r \in ViewRecords /\ r.obj = view[v].obj /\ r.buf = x
    BY <2>1 DEF ViewRecords
  <2>3. view' = [view EXCEPT ![v] = r]
    BY <1>1
  <2> HIDE DEF r
  <2> QED
    BY <1>2, <2>2, <2>3
<1>4. OpenIn(view') = OpenIn(view)
  BY <1>3 DEF OpenIn
<1>5. BufferTypeOK'
  <2>1. ideal' \in Contents /\ quiet' \in BOOLEAN
    BY <1>1, <1>2, TrackTyped DEF BufferTypeOK
  <2> QED
    BY <1>1, <1>2, <1>3, <2>1 DEF BufferTypeOK, ViewRecords
<1>6. ExportsAreCounted'
  <2>1. \A b \in JArrays : {w \in Views : view'[w].obj = b} = {w \in Views : view[w].obj = b}
    BY <1>3
  <2> QED
    BY <1>1, <1>2, <2>1 DEF ExportsAreCounted
<1>7. UNCHANGED <<stack, local, exports, lost>>
  BY <1>1 DEF callVars
<1>8. ExportsCounted(stack, exports, lost, OpenIn(view)) /\ IsStack(stack)
      /\ IsFiniteSet(Owed(stack, Disposers))
  BY DEF IInv, CallInv
<1>9. ExportsCounted(stack', exports', lost', OpenIn(view'))
  BY <1>4, <1>7, <1>8
<1>10. ASSUME quiet' PROVE Current(stack, local, exports, view', array, ideal')
  <2>1. ideal' = x /\ OpenIn(view) = {v} /\ exports[v] = 0
    <3>1. ideal' = x /\ Open = {v} /\ ~(exports[v] > 0)
      BY <1>1, <1>10 DEF Track
    <3>2. exports[v] \in Nat
      BY <1>2 DEF CallInv
    <3> QED
      BY <3>1, <3>2, OpenViews
  <2>2. Owed(stack, Buffers) = {}
    BY <1>8, <2>1, NotHeld
  <2> QED
    BY <1>3, <1>4, <2>1, <2>2 DEF Current
<1>11. CopyInv'
  BY <1>1, <1>7, <1>10 DEF CopyInv
<1>12. CallInv' /\ OpenInv'
  BY <1>1, <1>2, <1>7, SameCalls, PythonOpens
<1> QED
  BY <1>5, <1>6, <1>9, <1>11, <1>12 DEF IInv

\* The array is assigned while there are no views.
LEMMA AssignArrayKeepsIInv ==
  ASSUME IInv, NEW x \in Contents, AssignArray(x)
  PROVE  IInv'
<1>1. /\ array' = x /\ Track(x, quiet /\ Open = {})
      /\ UNCHANGED <<bufferExportCount, view>> /\ UNCHANGED callVars
  BY DEF AssignArray, WriteArray
<1>2. BufferTypeOK /\ ExportsAreCounted /\ CallInv /\ OpenInv
  BY DEF IInv
<1>3. BufferTypeOK'
  <2>1. ideal' \in Contents /\ quiet' \in BOOLEAN
    BY <1>1, <1>2, TrackTyped DEF BufferTypeOK
  <2> QED
    BY <1>1, <1>2, <2>1 DEF BufferTypeOK
<1>4. ExportsAreCounted'
  BY <1>1, <1>2 DEF ExportsAreCounted
<1>5. UNCHANGED <<stack, local, exports, lost, view>>
  BY <1>1 DEF callVars
<1>6. ExportsCounted(stack, exports, lost, OpenIn(view)) /\ IsStack(stack)
      /\ IsFiniteSet(Owed(stack, Disposers))
  BY DEF IInv, CallInv
<1>7. ASSUME quiet' PROVE Current(stack, local, exports, view, array', ideal')
  <2>1. ideal' = x /\ OpenIn(view) = {}
    BY <1>1, <1>7, OpenViews DEF Track
  <2>2. Owed(stack, Buffers) = {}
    BY <1>6, <2>1, NotHeld
  <2> QED
    BY <1>1, <2>1, <2>2 DEF Current
<1>8. CopyInv'
  BY <1>5, <1>7 DEF CopyInv
<1>9. OpenInv'
  BY <1>2, <1>5 DEF OpenInv, Converting, Busy, Top, Arity, IsOpen
<1>10. CallInv'
  BY <1>1, <1>2, SameCalls
<1>11. ExportsCounted(stack', exports', lost', OpenIn(view'))
  BY <1>5, <1>6
<1> QED
  BY <1>3, <1>4, <1>8, <1>9, <1>10, <1>11 DEF IInv

\* An argument of a running call that is a view has an array, which the call owes.
LEMMA ViewArgs ==
  ASSUME NEW s, IsStack(s), s # <<>>, NEW i \in DOMAIN s[Len(s)].jargs,
         s[Len(s)].args[i] \in Views
  PROVE  /\ <<Len(s), i>> \in Owed(s, Buffers)
         /\ <<Len(s), i>> \in Owed(s, Disposers)
         /\ ArgAt(s, <<Len(s), i>>) = s[Len(s)].args[i]
         /\ RefAt(s, <<Len(s), i>>) = s[Len(s)].jargs[i].ref
         /\ DisposerAt(s, <<Len(s), i>>) = s[Len(s)].jargs[i].dispose
         /\ i \in 1..Len(s[Len(s)].jargs)
<1>1. Len(s) \in 1..Len(s) /\ s[Len(s)] \in Frames /\ FrameInv(s[Len(s)])
  BY StackTop
<1>2. i \in 1..Len(s[Len(s)].jargs)
  BY <1>1, FrameFacts
<1>3. Fitting(s[Len(s)].method.params[i], s[Len(s)].args[i], s[Len(s)].jargs[i])
  BY <1>1, <1>2 DEF FrameInv
<1>4. s[Len(s)].jargs[i].dispose \in Buffers
  BY <1>3, DisposerSets DEF Fitting
<1>5. <<Len(s), i>> \in Owed(s, Buffers)
  BY <1>1, <1>4, OwedFacts
<1>6. <<Len(s), i>> \in Owed(s, Disposers)
  BY <1>5, BuffersOwed
<1> QED
  BY <1>2, <1>5, <1>6 DEF ArgAt, RefAt, DisposerAt

\* The only argument that holds the only view is assigned; it is to be copied back.
LEMMA AssignArgumentKeepsIInv ==
  ASSUME IInv, NEW i, NEW x \in Contents, AssignArgument(i, x)
  PROVE  IInv'
<1> DEFINE v == Top.args[i]
           h == <<Len(stack), i>>
           r == RefAt(stack, h)
<1>1. /\ InJava /\ i \in DOMAIN Top.jargs /\ v \in Views
      /\ local' = [local EXCEPT ![Top.jargs[i].ref] = Array(x)]
      /\ Track(x, quiet /\ Open = {v} /\ exports[v] = 1 /\ Top.jargs[i].dispose = "writable")
      /\ UNCHANGED <<array, bufferExportCount, view, stack, exports, result, lost, losses>>
  BY DEF AssignArgument
<1>2. BufferTypeOK /\ ExportsAreCounted /\ CallInv
  BY DEF IInv
<1>3. /\ IsStack(stack) /\ stack # <<>> /\ local \in Locals /\ RefsOwned(stack, local, lost)
      /\ IsFiniteSet(Owed(stack, Disposers)) /\ Room(stack, local)
  BY <1>1, <1>2 DEF CallInv, InJava, Busy
<1>4. /\ h \in Owed(stack, Buffers) /\ h \in Owed(stack, Disposers)
      /\ ArgAt(stack, h) = v /\ r = Top.jargs[i].ref
      /\ DisposerAt(stack, h) = Top.jargs[i].dispose
  BY <1>1, <1>3, ViewArgs DEF Top
<1>5. r \in Refs /\ local[r] # Free
  BY <1>3, <1>4 DEF RefsOwned
<1>6. local' = [local EXCEPT ![r] = Array(x)] /\ local' \in Locals
  BY <1>1, <1>3, <1>4, <1>5, Kinds DEF Locals
<1>7. local'[r] = Array(x) /\ \A q \in Refs : q # r => local'[q] = local[q]
  BY <1>3, <1>5, <1>6 DEF Locals
<1>8. RefsOwned(stack, local', lost)
  BY <1>3, <1>4, <1>6, Kinds, RefsAssigned
<1>9. FreeIn(local') = FreeIn(local)
  BY <1>5, <1>7, Kinds DEF FreeIn
<1>10. BufferTypeOK'
  <2>1. ideal' \in Contents /\ quiet' \in BOOLEAN
    BY <1>1, <1>2, TrackTyped DEF BufferTypeOK
  <2> QED
    BY <1>1, <1>2, <2>1 DEF BufferTypeOK
<1>11. ExportsAreCounted'
  BY <1>1, <1>2 DEF ExportsAreCounted
<1>12. CallInv'
  <2>1. Room(stack, local')
    BY <1>3, <1>9 DEF Room
  <2> QED
    BY <1>1, <1>2, <1>6, <1>8, <2>1 DEF CallInv
<1>13. OpenInv'
  BY <1>1 DEF OpenInv, Converting, InJava, Top
<1>14. ExportsCounted(stack, exports, lost, OpenIn(view))
  BY DEF IInv
<1>15. ASSUME quiet' PROVE Current(stack, local', exports, view, array, ideal')
  <2>1. ideal' = x /\ OpenIn(view) = {v} /\ exports[v] = 1 /\ Top.jargs[i].dispose = "writable"
    BY <1>1, <1>15, OpenViews DEF Track
  <2>2. h \in HeldIn(stack, v)
    BY <1>4 DEF HeldIn
  <2>3. Writes(stack, v)
    BY <1>4, <2>1, <2>2 DEF Writes
  <2>4. HeldIn(stack, v) = {h}
    <3>1. IsFiniteSet(HeldIn(stack, v)) /\ Cardinality(HeldIn(stack, v)) \in Nat
      BY <1>3, HeldFinite
    <3>2. exports[v] >= Cardinality(HeldIn(stack, v))
      BY <1>1, <1>14 DEF ExportsCounted
    <3>3. /\ Cardinality(HeldIn(stack, v) \ {h}) = Cardinality(HeldIn(stack, v)) - 1
          /\ IsFiniteSet(HeldIn(stack, v) \ {h})
      BY <2>2, <3>1, FS_RemoveElement
    <3>4. Cardinality(HeldIn(stack, v) \ {h}) \in Nat
      BY <3>3, FS_CardinalityType
    <3>5. Cardinality(HeldIn(stack, v) \ {h}) = 0
      <4> DEFINE n == Cardinality(HeldIn(stack, v))
                 m == Cardinality(HeldIn(stack, v) \ {h})
      <4>1. n \in Nat /\ m \in Nat /\ m = n - 1 /\ 1 >= n
        BY <2>1, <3>1, <3>2, <3>3, <3>4
      <4> HIDE DEF n, m
      <4>2. m = 0
        BY <4>1
      <4> QED
        BY <4>2 DEF m
    <3>6. HeldIn(stack, v) \ {h} = {}
      BY <3>3, <3>5, FS_EmptySet
    <3> QED
      BY <2>2, <3>6
  <2>5. \A o \in Owed(stack, Buffers) : o = h
    <3>1. ASSUME NEW o \in Owed(stack, Buffers) PROVE o \in HeldIn(stack, v)
      <4>1. ArgAt(stack, o) \in OpenIn(view) /\ o \in HeldIn(stack, ArgAt(stack, o))
        BY <1>3, <1>14, HeldArgs
      <4> QED
        BY <2>1, <4>1
    <3> QED
      BY <2>4, <3>1
  <2>6. local'[r].data = x
    BY <1>7 DEF Array
  <2> HIDE DEF h, v
  <2>7. OpenIn(view) # {}
    BY <2>1
  <2> QED
    BY <2>1, <2>3, <2>5, <2>6, <2>7 DEF Current
<1>16. CopyInv'
  BY <1>1, <1>15 DEF CopyInv
<1>17. ExportsCounted(stack', exports', lost', OpenIn(view'))
  BY <1>1, <1>14
<1> QED
  BY <1>10, <1>11, <1>12, <1>13, <1>16, <1>17 DEF IInv

-----------------------------------------------------------------------------
(* The conversion of the arguments *)

\* There are finitely many references.
LEMMA FreeFinite ==
  ASSUME NEW loc
  PROVE  IsFiniteSet(FreeIn(loc)) /\ Cardinality(FreeIn(loc)) \in Nat
<1>1. FreeIn(loc) \in SUBSET Refs
  BY DEF FreeIn
<1> QED
  BY <1>1, CallsAssumption, FS_Subset, FS_CardinalityType

\* A reference is taken that no call owns.
LEMMA TakeRef ==
  ASSUME NEW loc \in Locals, NEW r \in Refs, loc[r] = Free,
         NEW object \in Objects, object # Free,
         NEW lot, Taken(loc, lot, r, object),
         NEW s, NEW things, RefsOwned(s, loc, things)
  PROVE  /\ lot \in Locals
         /\ lot[r] = object
         /\ Cardinality(FreeIn(lot)) = Cardinality(FreeIn(loc)) - 1
         /\ Cardinality(FreeIn(lot)) >= Cardinality(FreeIn(loc)) - 1
         /\ \A h \in Owed(s, Buffers) : lot[RefAt(s, h)] = loc[RefAt(s, h)]
<1>1. lot[r] = object /\ \A q \in Refs : q # r => lot[q] = loc[q]
  BY DEF Locals, Taken
<1>2. lot \in Locals
  BY DEF Locals, Taken
<1>3. FreeIn(lot) = FreeIn(loc) \ {r} /\ r \in FreeIn(loc)
  BY <1>1 DEF FreeIn
<1>4. Cardinality(FreeIn(lot)) = Cardinality(FreeIn(loc)) - 1
  BY <1>3, FreeFinite, FS_RemoveElement
<1>5. ASSUME NEW h \in Owed(s, Buffers)
      PROVE  lot[RefAt(s, h)] = loc[RefAt(s, h)]
  <2>1. RefAt(s, h) \in Refs /\ loc[RefAt(s, h)] # Free
    BY BuffersOwed DEF RefsOwned
  <2> QED
    BY <1>1, <2>1
<1>6. Cardinality(FreeIn(lot)) >= Cardinality(FreeIn(loc)) - 1
  BY <1>4, FreeFinite
<1> QED
  BY <1>1, <1>2, <1>4, <1>5, <1>6

\* A running call finds a reference.
LEMMA NewRefIsFree ==
  ASSUME CallInv, stack # <<>>
  PROVE  NewRef \in Refs /\ local[NewRef] = Free
<1>1. IsStack(stack) /\ Room(stack, local)
  BY DEF CallInv
<1> DEFINE f == stack[Len(stack)]
<1>2. Len(stack) \in Nat /\ Len(stack) > 0 /\ f \in Frames /\ FrameInv(f)
  BY <1>1, StackTop
<1>3. Arity(f) \in Nat /\ Len(f.jargs) \in Nat /\ Len(f.jargs) <= Arity(f)
  BY <1>2, FrameFacts DEF FrameInv
<1>4. Cardinality(FreeIn(local)) >= Arity(f) - Len(f.jargs) + Len(stack)
  BY <1>1 DEF Room
<1>5. Cardinality(FreeIn(local)) # 0
  <2> HIDE DEF f
  <2> QED
    BY <1>2, <1>3, <1>4, FreeFinite
<1>6. \E r \in Refs : local[r] = Free
  BY <1>5, FS_EmptySet DEF FreeIn
<1> QED
  BY <1>6 DEF NewRef

\* The next argument is one that matches its parameter.
LEMMA NextFits ==
  ASSUME CallInv, Converting
  PROVE  /\ IsStack(stack) /\ stack # <<>> /\ Top = stack[Len(stack)]
         /\ Top \in Frames /\ FrameInv(Top) /\ Top.phase = "convert"
         /\ Len(Top.jargs) \in Nat /\ Len(Top.jargs) + 1 \in 1..Arity(Top)
         /\ Param \in Params /\ Arg \in Args /\ Fits(Arg, Param.type)
         /\ Arg = ArgToPass(stack)
<1>1. IsStack(stack) /\ stack # <<>> /\ Top = stack[Len(stack)] /\ Top.phase = "convert"
  BY DEF CallInv, Converting, Busy, Top
<1>2. Top \in Frames /\ FrameInv(Top)
  BY <1>1, StackTop
<1>3. Top.args \in Seq(Args) /\ Top.method.params \in Seq(Params)
      /\ Arity(Top) \in Nat /\ Len(Top.jargs) \in Nat
  BY <1>2, FrameFacts
<1>4. Len(Top.jargs) + 1 \in 1..Arity(Top)
  BY <1>1, <1>2, <1>3 DEF FrameInv
<1>5. Len(Top.args) = Arity(Top) /\ Len(Top.method.params) = Arity(Top)
  BY <1>2 DEF FrameInv, Arity
<1>6. Param \in Params /\ Arg \in Args
  BY <1>3, <1>4, <1>5 DEF Param, Arg
<1>7. Fits(Arg, Param.type)
  BY <1>2, <1>4 DEF FrameInv, Param, Arg
<1>8. Arg = ArgToPass(stack)
  BY <1>1 DEF Arg, ArgToPass
<1> QED
  BY <1>1, <1>2, <1>3, <1>4, <1>6, <1>7, <1>8

\* What an argument becomes is kept in the innermost call.
LEMMA KeepCall ==
  ASSUME CallInv, Converting, NEW j \in JArgs, Fitting(Param, Arg, j), Keep(j)
  PROVE  /\ stack' = WithTop(stack, Kept(Top, j))
         /\ Kept(Top, j) \in Frames
         /\ Kept(Top, j).args = stack[Len(stack)].args
         /\ Kept(Top, j).jargs = Append(stack[Len(stack)].jargs, j)
         /\ IsStack(stack') /\ IsFiniteSet(Owed(stack', Disposers))
         /\ \A loc : Cardinality(FreeIn(loc)) >= Cardinality(FreeIn(local)) - 1
              => Room(stack', loc)
         /\ OpenInv /\ UNCHANGED view => OpenInv'
<1> DEFINE g == Kept(Top, j)
           n == Len(stack)
<1>1. /\ IsStack(stack) /\ stack # <<>> /\ Top = stack[n]
      /\ Top \in Frames /\ FrameInv(Top) /\ Top.phase = "convert"
      /\ Len(Top.jargs) \in Nat /\ Len(Top.jargs) + 1 \in 1..Arity(Top)
  BY NextFits
<1>2. /\ g \in Frames /\ FrameInv(g) /\ g.method = Top.method /\ g.args = Top.args
      /\ g.jargs = Append(Top.jargs, j)
  BY <1>1, KeptFrame DEF Param, Arg
<1>3. stack' = WithTop(stack, g)
  BY DEF Keep, SetTop, Kept, WithTop
<1>4. stack \in Seq(Frames) /\ n \in Nat
  BY <1>1, StackTop
<1> HIDE DEF g, n
<1>5. IsStack(stack') /\ Len(stack') = n /\ stack'[n] = g /\ stack' # <<>>
  BY <1>1, <1>2, <1>3, StackKeep DEF n
<1>6. IsFiniteSet(Owed(stack', Disposers))
  <2>1. \/ Owed(stack', Disposers) = Owed(stack, Disposers)
        \/ Owed(stack', Disposers) = Owed(stack, Disposers) \cup {NextArg(stack)}
    BY <1>1, <1>2, <1>3, <1>4, OwedKeep DEF n
  <2>2. IsFiniteSet(Owed(stack, Disposers))
    BY DEF CallInv
  <2> QED
    BY <2>1, <2>2, FS_AddElement
<1>7. Len(g.jargs) = Len(Top.jargs) + 1 /\ Arity(g) = Arity(Top) /\ Arity(Top) \in Nat
  <2>1. Top.jargs \in Seq(JArgs) /\ Arity(Top) \in Nat
    BY <1>1, FrameFacts
  <2> QED
    BY <1>2, <2>1 DEF Arity
<1>8. ASSUME NEW loc, Cardinality(FreeIn(loc)) >= Cardinality(FreeIn(local)) - 1
      PROVE  Room(stack', loc)
  <2>1. Cardinality(FreeIn(local)) >= Arity(Top) - Len(Top.jargs) + n
    BY <1>1 DEF CallInv, Room, n
  <2>2. Cardinality(FreeIn(local)) \in Nat /\ Cardinality(FreeIn(loc)) \in Nat
    BY FreeFinite
  <2>3. Cardinality(FreeIn(loc)) >= Arity(g) - Len(g.jargs) + n
    <3> DEFINE a == Cardinality(FreeIn(local))
               b == Cardinality(FreeIn(loc))
               k == Len(Top.jargs)
    <3>1. /\ a \in Nat /\ b \in Nat /\ k \in Nat /\ n \in Nat /\ Arity(Top) \in Nat
          /\ a >= Arity(Top) - k + n /\ b >= a - 1
      BY <1>1, <1>4, <1>7, <1>8, <2>1, <2>2
    <3> HIDE DEF a, b, k
    <3>2. b >= Arity(Top) - (k + 1) + n
      BY <3>1
    <3> QED
      BY <1>7, <3>2 DEF b, k
  <2> QED
    BY <1>5, <2>3 DEF Room
<1>9. ASSUME OpenInv, UNCHANGED view PROVE OpenInv'
  <2>1. Top' = g /\ Arity(Top') = Arity(Top)
    BY <1>5, <1>7 DEF Top
  <2>2. \A i \in 1..Arity(Top) : Top.args[i] \in Views => IsOpen(Top.args[i])
    BY <1>9 DEF OpenInv
  <2>3. \A i \in 1..Arity(g) : g.args[i] \in Views => view'[g.args[i]].obj # NoJArray
    BY <1>2, <1>7, <1>9, <2>2 DEF IsOpen
  <2> QED
    BY <2>1, <2>3 DEF OpenInv, IsOpen, Arity
<1> QED
  BY <1>1, <1>2, <1>3, <1>5, <1>6, <1>8, <1>9 DEF g, n

\* A call begins.
LEMMA BeginCallKeepsIInv ==
  ASSUME IInv, NEW m \in Methods, NEW args \in [1..Len(m.params) -> Args], BeginCall(m, args)
  PROVE  IInv'
<1> DEFINE f == Frame(m, args)
<1>1. /\ PythonRuns
      /\ Cardinality(FreeRefs) > Len(m.params) + Len(stack)
      /\ \A i \in 1..Len(args) :
           Fits(args[i], m.params[i].type) /\ (args[i] \in Views => IsOpen(args[i]))
      /\ stack' = Append(stack, f) /\ result' = NoResult
      /\ UNCHANGED <<bufferVars, local, exports, lost, losses>>
  BY DEF BeginCall
<1>2. BufferTypeOK /\ ExportsAreCounted /\ CallInv
      /\ ExportsCounted(stack, exports, lost, OpenIn(view)) /\ CopyInv
  BY DEF IInv
<1>3. /\ IsStack(stack) /\ RefsOwned(stack, local, lost) /\ stack \in Seq(Frames)
      /\ IsFiniteSet(Owed(stack, Disposers)) /\ Len(stack) \in Nat
  BY <1>2 DEF CallInv, IsStack
<1>4. UNCHANGED <<array, bufferExportCount, view, ideal, quiet>>
  BY <1>1 DEF bufferVars
<1>5. /\ f \in Frames /\ FrameInv(f) /\ f.jargs = <<>> /\ f.phase = "convert"
      /\ f.args = args /\ f.method = m
  BY <1>1, NewFrame
<1>6. stack = <<>> \/ stack[Len(stack)].phase = "java"
  BY <1>1 DEF PythonRuns, Busy, InJava, Top
<1> HIDE DEF f
<1>7. IsStack(stack') /\ Len(stack') = Len(stack) + 1 /\ stack'[Len(stack')] = f
  BY <1>1, <1>3, <1>5, <1>6, StackPush
<1>8. RefsOwned(stack', local, lost)
  BY <1>1, <1>3, <1>5, RefsPush
<1>9. ExportsCounted(stack', exports, lost, OpenIn(view))
  BY <1>1, <1>2, <1>3, <1>5, CountedPush
<1>10. CopyInv'
  <2>1. quiet => Current(stack', local, exports, view, array, ideal)
    BY <1>1, <1>2, <1>3, <1>5, CurrentPush DEF CopyInv
  <2> QED
    BY <1>1, <1>4, <2>1 DEF CopyInv
<1>11. Len(m.params) \in Nat /\ Len(args) = Len(m.params) /\ Arity(f) = Len(m.params)
  BY <1>5, CallsAssumption DEF Arity
<1>12. Room(stack', local)
  <2>1. Cardinality(FreeIn(local)) > Len(m.params) + Len(stack)
    BY <1>1 DEF FreeRefs, FreeIn
  <2>2. Len(f.jargs) = 0 /\ Cardinality(FreeIn(local)) \in Nat
    BY <1>5, FreeFinite
  <2>3. Cardinality(FreeIn(local)) >= Arity(f) - Len(f.jargs) + Len(stack')
    <3> DEFINE a == Cardinality(FreeIn(local))
               k == Len(m.params)
               n == Len(stack)
    <3>1. a \in Nat /\ k \in Nat /\ n \in Nat /\ a > k + n
      BY <1>3, <1>11, <2>1, <2>2
    <3>2. Arity(f) = k /\ Len(f.jargs) = 0 /\ Len(stack') = n + 1
      BY <1>7, <1>11, <2>2
    <3> HIDE DEF a, k, n
    <3>3. a >= k - 0 + (n + 1)
      BY <3>1
    <3> QED
      BY <3>2, <3>3 DEF a
  <2> QED
    BY <1>7, <2>3 DEF Room
<1>13. IsFiniteSet(Owed(stack', Disposers))
  BY <1>1, <1>3, <1>5, OwedPush
<1>14. NoResult \in [of : Views \cup {NoView}, data : Contents]
  BY BuffersAssumption DEF NoResult
<1>15. CallInv'
  BY <1>1, <1>2, <1>7, <1>8, <1>12, <1>13, <1>14 DEF CallInv
<1>16. OpenInv'
  <2>1. Top' = f
    BY <1>7 DEF Top
  <2>2. \A i \in 1..Arity(f) : f.args[i] \in Views => view'[f.args[i]].obj # NoJArray
    BY <1>1, <1>4, <1>5, <1>11 DEF IsOpen
  <2> QED
    BY <2>1, <2>2 DEF OpenInv, IsOpen, Arity
<1>17. BufferTypeOK' /\ ExportsAreCounted'
  BY <1>2, <1>4 DEF BufferTypeOK, ExportsAreCounted
<1>18. ExportsCounted(stack', exports', lost', OpenIn(view'))
  BY <1>1, <1>4, <1>9
<1> QED
  BY <1>10, <1>15, <1>16, <1>17, <1>18 DEF IInv

\* An argument needs no reference.
LEMMA PassValueKeepsIInv ==
  ASSUME IInv, PassValue
  PROVE  IInv'
<1> DEFINE j == JArg(NoRef, "nothing")
           g == Kept(Top, j)
<1>1. /\ Converting /\ (Arg = "reference" \/ Param.type = "primitive") /\ Keep(j)
      /\ UNCHANGED <<bufferVars, local, exports, result, lost, losses>>
  BY DEF PassValue
<1>2. BufferTypeOK /\ ExportsAreCounted /\ CallInv /\ OpenInv
      /\ ExportsCounted(stack, exports, lost, OpenIn(view)) /\ CopyInv
  BY DEF IInv
<1>3. UNCHANGED <<array, bufferExportCount, view, ideal, quiet>>
  BY <1>1 DEF bufferVars
<1>4. /\ IsStack(stack) /\ stack # <<>> /\ Fits(Arg, Param.type)
      /\ stack \in Seq(Frames) /\ RefsOwned(stack, local, lost)
  BY <1>1, <1>2, NextFits DEF CallInv, IsStack
<1>5. Arg \notin Views
  BY <1>1, <1>4, CallsAssumption DEF Fits
<1>6. j.dispose = "nothing" /\ j \in JArgs /\ Fitting(Param, Arg, j)
  BY <1>5 DEF JArg, JArgs, Fitting
<1> HIDE DEF j, g
<1>7. /\ stack' = WithTop(stack, g) /\ g \in Frames
      /\ g.args = stack[Len(stack)].args
      /\ g.jargs = Append(stack[Len(stack)].jargs, j)
      /\ IsStack(stack') /\ IsFiniteSet(Owed(stack', Disposers))
      /\ OpenInv'
  BY <1>1, <1>2, <1>3, <1>6, KeepCall DEF g
<1>8. Room(stack', local)
  <2>1. Cardinality(FreeIn(local)) >= Cardinality(FreeIn(local)) - 1
    BY FreeFinite
  <2> QED
    BY <1>1, <1>2, <1>6, <2>1, KeepCall
<1>9. RefsOwned(stack', local, lost)
  BY <1>4, <1>6, <1>7, RefsKeepValue
<1>10. j.dispose \notin Buffers
  BY <1>6, DisposerSets
<1>11. ExportsCounted(stack', exports, lost, OpenIn(view))
  BY <1>2, <1>4, <1>6, <1>7, <1>10, CountedKeepOther
<1>12. ASSUME quiet PROVE Current(stack', local, exports, view, array, ideal)
  <2>1. Current(stack, local, exports, view, array, ideal)
    BY <1>2, <1>12 DEF CopyInv
  <2> QED
    BY <1>4, <1>6, <1>7, <1>10, <2>1, CurrentKeepOther
<1>13. CallInv'
  BY <1>1, <1>2, <1>7, <1>8, <1>9 DEF CallInv
<1>14. CopyInv'
  BY <1>1, <1>3, <1>12 DEF CopyInv
<1>15. BufferTypeOK' /\ ExportsAreCounted'
  BY <1>2, <1>3 DEF BufferTypeOK, ExportsAreCounted
<1>16. ExportsCounted(stack', exports', lost', OpenIn(view'))
  BY <1>1, <1>3, <1>11
<1> QED
  BY <1>7, <1>13, <1>14, <1>15, <1>16 DEF IInv

\* An argument becomes a new reference that the call owns.
LEMMA KeepNewCall ==
  ASSUME CallInv, Converting, NEW object \in [kind : {"object", "array"}, data : Contents],
         NEW dispose \in Disposers, KeepNew(object, dispose),
         Fitting(Param, Arg, JArg(NewRef, dispose)),
         exports' \in [Views -> Nat], UNCHANGED <<result, lost, losses>>
  PROVE  /\ CallInv'
         /\ stack' = WithTop(stack, Kept(Top, JArg(NewRef, dispose)))
         /\ JArg(NewRef, dispose) \in JArgs
         /\ Kept(Top, JArg(NewRef, dispose)) \in Frames
         /\ Kept(Top, JArg(NewRef, dispose)).args = stack[Len(stack)].args
         /\ Kept(Top, JArg(NewRef, dispose)).jargs
              = Append(stack[Len(stack)].jargs, JArg(NewRef, dispose))
         /\ \A h \in Owed(stack, Buffers) : local'[RefAt(stack, h)] = local[RefAt(stack, h)]
         /\ local'[NewRef] = object
         /\ OpenInv /\ UNCHANGED view => OpenInv'
<1> DEFINE j == JArg(NewRef, dispose)
           g == Kept(Top, j)
<1>1. local' = [local EXCEPT ![NewRef] = object] /\ Keep(j)
  BY DEF KeepNew
<1>2. /\ IsStack(stack) /\ stack # <<>> /\ stack \in Seq(Frames)
      /\ RefsOwned(stack, local, lost) /\ local \in Locals
  BY NextFits DEF CallInv, IsStack
<1>3. NewRef \in Refs /\ local[NewRef] = Free
  BY <1>2, NewRefIsFree
<1>4. j.ref = NewRef /\ j.dispose = dispose /\ j \in JArgs
  BY <1>3 DEF JArg, JArgs
<1>5. object # Free /\ object \in Objects
  BY DEF Free, Objects
<1> HIDE DEF j, g
<1>6. /\ stack' = WithTop(stack, g) /\ g \in Frames
      /\ g.args = stack[Len(stack)].args
      /\ g.jargs = Append(stack[Len(stack)].jargs, j)
      /\ IsStack(stack') /\ IsFiniteSet(Owed(stack', Disposers))
      /\ OpenInv /\ UNCHANGED view => OpenInv'
  BY <1>1, <1>4, KeepCall DEF g, j
<1>7. /\ local' \in Locals /\ local'[NewRef] = object
      /\ Cardinality(FreeIn(local')) >= Cardinality(FreeIn(local)) - 1
      /\ \A h \in Owed(stack, Buffers) : local'[RefAt(stack, h)] = local[RefAt(stack, h)]
  <2> DEFINE r == NewRef
             lot == local'
  <2>1. r \in Refs /\ local[r] = Free /\ Taken(local, lot, r, object)
    BY <1>1, <1>3 DEF Taken
  <2> HIDE DEF r, lot
  <2>2. /\ lot \in Locals /\ lot[r] = object
        /\ Cardinality(FreeIn(lot)) >= Cardinality(FreeIn(local)) - 1
        /\ \A h \in Owed(stack, Buffers) : lot[RefAt(stack, h)] = local[RefAt(stack, h)]
    BY <1>2, <1>5, <2>1, TakeRef
  <2> QED
    BY <2>2 DEF r, lot
<1>8. Room(stack', local')
  BY <1>1, <1>4, <1>7, KeepCall DEF j
<1>9. RefsOwned(stack', local', lost)
  BY <1>1, <1>2, <1>3, <1>4, <1>5, <1>6, RefsKeepNew
<1>10. CallInv'
  BY <1>6, <1>7, <1>8, <1>9 DEF CallInv
<1> QED
  BY <1>4, <1>6, <1>7, <1>10 DEF g, j

\* PassObject and PassVarArgs
LEMMA KeepObjectKeepsIInv ==
  ASSUME IInv, Converting, Arg = "object", KeepNew(Object, "ref"),
         UNCHANGED <<bufferVars, exports, result, lost, losses>>
  PROVE  IInv'
<1> DEFINE j == JArg(NewRef, "ref")
           g == Kept(Top, j)
<1>1. BufferTypeOK /\ ExportsAreCounted /\ CallInv /\ OpenInv
      /\ ExportsCounted(stack, exports, lost, OpenIn(view)) /\ CopyInv
  BY DEF IInv
<1>2. UNCHANGED <<array, bufferExportCount, view, ideal, quiet>>
  BY DEF bufferVars
<1>3. stack # <<>> /\ stack \in Seq(Frames) /\ exports' \in [Views -> Nat]
  BY <1>1, NextFits DEF CallInv, IsStack
<1>4. NewRef \in Refs
  BY <1>1, <1>3, NewRefIsFree
<1>5. Fitting(Param, Arg, j) /\ j.dispose = "ref"
  BY <1>4, CallsAssumption DEF Fitting, JArg
<1>6. Object \in [kind : {"object", "array"}, data : Contents]
  BY BuffersAssumption DEF Object
<1>7. /\ CallInv'
      /\ stack' = WithTop(stack, g) /\ j \in JArgs /\ g \in Frames
      /\ g.args = stack[Len(stack)].args
      /\ g.jargs = Append(stack[Len(stack)].jargs, j)
      /\ \A h \in Owed(stack, Buffers) : local'[RefAt(stack, h)] = local[RefAt(stack, h)]
      /\ OpenInv'
  BY <1>1, <1>2, <1>3, <1>5, <1>6, KeepNewCall, DisposerSets
<1>8. j.dispose \notin Buffers
  BY <1>5, DisposerSets
<1> HIDE DEF j, g
<1>9. ExportsCounted(stack', exports, lost, OpenIn(view))
  BY <1>1, <1>3, <1>7, <1>8, CountedKeepOther
<1>10. ASSUME quiet PROVE Current(stack', local', exports, view, array, ideal)
  <2>1. Current(stack, local, exports, view, array, ideal)
    BY <1>1, <1>10 DEF CopyInv
  <2> QED
    BY <1>3, <1>7, <1>8, <2>1, CurrentKeepOther
<1>11. CopyInv'
  BY <1>2, <1>10 DEF CopyInv
<1>12. BufferTypeOK' /\ ExportsAreCounted'
  BY <1>1, <1>2 DEF BufferTypeOK, ExportsAreCounted
<1>13. ExportsCounted(stack', exports', lost', OpenIn(view'))
  BY <1>2, <1>9
<1> QED
  BY <1>7, <1>11, <1>12, <1>13 DEF IInv

\* A buffer is exported and copied to a new array.
LEMMA PassBufferKeepsIInv ==
  ASSUME IInv, PassBuffer
  PROVE  IInv'
<1> DEFINE v == Arg
           x == IF Param.isOutput THEN Zero ELSE view[v].buf
           replaces == Param.isOutput /\ Param.isMutable
           dispose == IF Param.isMutable THEN "writable" ELSE "readonly"
           j == JArg(NewRef, dispose)
           g == Kept(Top, j)
<1>1. /\ Converting /\ v \in Views
      /\ exports' = [exports EXCEPT ![v] = @ + 1]
      /\ KeepNew(Array(x), dispose)
      /\ Track(x, quiet /\ (x = ideal \/ (replaces /\ Open = {v} /\ exports[v] = 0)))
      /\ UNCHANGED <<array, bufferExportCount, view, result, lost, losses>>
  BY DEF PassBuffer
<1>2. BufferTypeOK /\ ExportsAreCounted /\ CallInv /\ OpenInv
      /\ ExportsCounted(stack, exports, lost, OpenIn(view)) /\ CopyInv
      /\ view \in [Views -> ViewRecords] /\ exports \in [Views -> Nat]
  BY ViewsTyped DEF IInv, CallInv
<1>3. /\ stack # <<>> /\ IsStack(stack) /\ stack \in Seq(Frames) /\ v = ArgToPass(stack)
      /\ IsFiniteSet(Owed(stack, Disposers))
  BY <1>1, <1>2, NextFits DEF CallInv, IsStack
<1>4. NewRef \in Refs
  BY <1>2, <1>3, NewRefIsFree
<1>5. x \in Contents
  <2>1. view[v] \in ViewRecords
    BY <1>1, <1>2
  <2>2. view[v].buf \in Contents
    BY <2>1 DEF ViewRecords
  <2> QED
    BY <2>2, BuffersAssumption
<1>6. /\ j.dispose = dispose /\ j.ref = NewRef
      /\ dispose \in Buffers /\ dispose \in Disposers
      /\ dispose = IF Param.isMutable THEN "writable" ELSE "readonly"
      /\ replaces => dispose = "writable"
  BY DisposerSets DEF JArg
<1>7. Fitting(Param, Arg, j)
  BY <1>1, <1>4, <1>6 DEF Fitting
<1>8. Array(x) \in [kind : {"object", "array"}, data : Contents] /\ Array(x).data = x
  BY <1>5 DEF Array
<1>9. v \in OpenIn(view)
  <2>1. /\ Len(Top.jargs) + 1 \in 1..Arity(Top)
        /\ v = Top.args[Len(Top.jargs) + 1]
    BY <1>1, <1>2, NextFits DEF Arg
  <2> HIDE DEF v
  <2>2. IsOpen(v)
    BY <1>1, <1>2, <2>1 DEF OpenInv
  <2> QED
    BY <1>1, <2>2, OpenViews
<1>10. exports' \in [Views -> Nat]
  BY <1>1, <1>2
<1> HIDE DEF x, replaces, dispose, v
<1>11. /\ CallInv'
       /\ stack' = WithTop(stack, g) /\ j \in JArgs /\ g \in Frames
       /\ g.args = stack[Len(stack)].args
       /\ g.jargs = Append(stack[Len(stack)].jargs, j)
       /\ \A h \in Owed(stack, Buffers) : local'[RefAt(stack, h)] = local[RefAt(stack, h)]
       /\ local'[NewRef] = Array(x)
       /\ OpenInv'
  BY <1>1, <1>2, <1>6, <1>7, <1>8, <1>10, KeepNewCall
<1> HIDE DEF j, g
<1>12. ExportsCounted(stack', exports', lost, OpenIn(view))
  <2>1. j.dispose \in Buffers
    BY <1>6
  <2> QED
    BY <1>1, <1>2, <1>3, <1>9, <1>11, <2>1, CountedKeepBuffer
<1>13. ASSUME quiet' PROVE Current(stack', local', exports', view, array, ideal')
  <2>1. quiet /\ ideal' = x /\ (x = ideal \/ (replaces /\ Open = {v} /\ exports[v] = 0))
    BY <1>1, <1>13 DEF Track
  <2>2. Current(stack, local, exports, view, array, ideal)
    BY <1>2, <2>1 DEF CopyInv
  <2>3. x = ideal \/ (j.dispose = "writable" /\ OpenIn(view) = {v} /\ exports[v] = 0)
    BY <1>6, <2>1, OpenViews
  <2>4. local'[j.ref].data = x /\ j.dispose \in Buffers
    BY <1>6, <1>8, <1>11
  <2> DEFINE lot == local'
  <2>5. /\ \A h \in Owed(stack, Buffers) : lot[RefAt(stack, h)] = local[RefAt(stack, h)]
        /\ lot[j.ref].data = x
    BY <1>11, <2>4
  <2> HIDE DEF lot
  <2>6. Current(WithTop(stack, g), lot, [exports EXCEPT ![v] = @ + 1], view, array, x)
    BY <1>2, <1>3, <1>9, <1>11, <2>2, <2>3, <2>4, <2>5, CurrentKeepBuffer
  <2> QED
    BY <1>1, <1>11, <2>1, <2>6 DEF lot
<1>14. CopyInv'
  BY <1>1, <1>13 DEF CopyInv
<1>15. BufferTypeOK'
  <2>1. ideal' \in Contents /\ quiet' \in BOOLEAN
    BY <1>1, <1>2, <1>5, TrackTyped DEF BufferTypeOK
  <2> QED
    BY <1>1, <1>2, <2>1 DEF BufferTypeOK
<1>16. ExportsAreCounted'
  BY <1>1, <1>2 DEF ExportsAreCounted
<1>17. ExportsCounted(stack', exports', lost', OpenIn(view'))
  BY <1>1, <1>12
<1> QED
  BY <1>11, <1>14, <1>15, <1>16, <1>17 DEF IInv

-----------------------------------------------------------------------------
(* The end of a call *)

\* A call ends.
LEMMA PopCall ==
  ASSUME CallInv, stack # <<>>, Pop
  PROVE  /\ stack' = Popped(stack)
         /\ IsStack(stack') /\ IsFiniteSet(Owed(stack', Disposers))
         /\ \A loc : Cardinality(FreeIn(loc)) >= Cardinality(FreeIn(local)) - 1
              => Room(stack', loc)
         /\ OpenInv'
<1> DEFINE n == Len(stack)
           f == stack[n]
<1>1. /\ IsStack(stack) /\ IsFiniteSet(Owed(stack, Disposers)) /\ Room(stack, local)
      /\ stack \in Seq(Frames) /\ n \in Nat /\ f \in Frames /\ FrameInv(f)
  BY StackTop DEF CallInv
<1>2. stack' = Popped(stack)
  BY DEF Pop, Popped
<1>3. /\ IsStack(stack') /\ Len(stack') = n - 1
      /\ stack' # <<>> => stack'[Len(stack')].phase = "java"
  BY <1>1, <1>2, StackPop
<1>4. IsFiniteSet(Owed(stack', Disposers))
  <2>1. Owed(stack', Disposers) \in SUBSET Owed(stack, Disposers)
    BY <1>1, <1>2, OwedPop
  <2> QED
    BY <1>1, <2>1, FS_Subset
<1>5. OpenInv'
  BY <1>3 DEF OpenInv, Converting, Busy, Top
<1>6. Cardinality(FreeIn(local)) >= n
  <2>1. Cardinality(FreeIn(local)) >= Arity(f) - Len(f.jargs) + n
    BY <1>1 DEF Room
  <2>2. Arity(f) \in Nat /\ Len(f.jargs) \in Nat /\ Len(f.jargs) <= Arity(f)
    BY <1>1, FrameFacts DEF FrameInv
  <2> DEFINE a == Cardinality(FreeIn(local))
             k == Len(f.jargs)
             m == Arity(f)
  <2>3. a \in Nat /\ k \in Nat /\ m \in Nat /\ k <= m /\ a >= m - k + n
    BY <2>1, <2>2, FreeFinite
  <2> HIDE DEF a, k, m, n
  <2>4. a >= n
    BY <1>1, <2>3
  <2> QED
    BY <2>4 DEF a
<1>7. ASSUME NEW loc, Cardinality(FreeIn(loc)) >= Cardinality(FreeIn(local)) - 1
      PROVE  Room(stack', loc)
  <2> SUFFICES ASSUME stack' # <<>>
               PROVE  Cardinality(FreeIn(loc)) >=
                        Arity(stack'[Len(stack')]) - Len(stack'[Len(stack')].jargs) + Len(stack')
    BY DEF Room
  <2> DEFINE g == stack'[Len(stack')]
  <2>1. g \in Frames /\ FrameInv(g) /\ g.phase = "java"
    BY <1>3, StackTop
  <2>2. Len(g.jargs) = Arity(g) /\ Arity(g) \in Nat
    BY <2>1, FrameFacts DEF FrameInv
  <2> DEFINE a == Cardinality(FreeIn(local))
             b == Cardinality(FreeIn(loc))
             l == Len(stack')
  <2>3. a \in Nat /\ b \in Nat /\ b >= a - 1 /\ a >= n /\ l = n - 1
    BY <1>3, <1>6, <1>7, FreeFinite
  <2> HIDE DEF a, b, l, g, n
  <2>4. b >= 0 + l
    BY <1>1, <2>3
  <2>5. Arity(g) - Len(g.jargs) = 0
    BY <2>2
  <2> QED
    BY <2>4, <2>5 DEF b, l, g
<1> QED
  BY <1>2, <1>3, <1>4, <1>5, <1>7

\* What is said of a stack stays true when more is lost.
LEMMA MoreLost ==
  ASSUME NEW s, NEW things, NEW more, things \subseteq more
  PROVE  /\ \A loc : RefsOwned(s, loc, things) => RefsOwned(s, loc, more)
         /\ \A ex, open : ExportsCounted(s, ex, things, open) => ExportsCounted(s, ex, more, open)
<1>1. ASSUME NEW loc, RefsOwned(s, loc, things) PROVE RefsOwned(s, loc, more)
  BY <1>1 DEF RefsOwned
<1>2. ASSUME NEW ex, NEW open, ExportsCounted(s, ex, things, open)
      PROVE  ExportsCounted(s, ex, more, open)
  BY <1>2 DEF ExportsCounted
<1> QED
  BY <1>1, <1>2

\* A reference is taken that nobody will give back.
LEMMA LoseRef ==
  ASSUME NEW loc \in Locals, NEW s, NEW things, RefsOwned(s, loc, things),
         NEW t, NEW more, RefsOwned(t, loc, more), "refs" \in more,
         NEW r \in Refs, loc[r] = Free,
         NEW object \in Objects, object # Free,
         NEW lot, Taken(loc, lot, r, object)
  PROVE  /\ lot \in Locals /\ RefsOwned(t, lot, more)
         /\ \A h \in Owed(s, Buffers) : lot[RefAt(s, h)] = loc[RefAt(s, h)]
         /\ Cardinality(FreeIn(lot)) >= Cardinality(FreeIn(loc)) - 1
<1>1. /\ lot \in Locals
      /\ Cardinality(FreeIn(lot)) >= Cardinality(FreeIn(loc)) - 1
      /\ \A h \in Owed(s, Buffers) : lot[RefAt(s, h)] = loc[RefAt(s, h)]
  BY TakeRef
<1>2. RefsOwned(t, lot, more)
  BY RefsLost DEF Taken
<1> QED
  BY <1>1, <1>2

\* RefuseArg, RefuseBuffer and ThrowFromConstructor: what the call owes is lost.
LEMMA AbandonKeepsIInv ==
  ASSUME IInv, stack # <<>>, NEW leftArray \in BOOLEAN, AbandonJArgs(leftArray),
         local' = IF leftArray THEN [local EXCEPT ![NewRef] = Array(Zero)] ELSE local,
         UNCHANGED <<bufferVars, exports, result>>
  PROVE  IInv'
<1> DEFINE more == {t \in {"exports"} : With(Top, {"readonly", "writable"}) # {}}
                   \cup {t \in {"refs"} : leftArray \/ With(Top, Disposers) # {}}
<1>1. Lose(more) /\ Pop
  BY DEF AbandonJArgs
<1>2. /\ "refs" \notin more => With(stack[Len(stack)], Disposers) = {} /\ ~leftArray
      /\ "exports" \notin more => With(stack[Len(stack)], Buffers) = {}
      /\ more \subseteq {"exports", "refs"}
  BY DEF Top, Buffers
<1> HIDE DEF more
<1>3. lost' = lost \cup more /\ losses' \in 0..MaxLosses /\ lost' \subseteq {"exports", "refs"}
  <2>1. lost \subseteq {"exports", "refs"} /\ losses \in 0..MaxLosses
    BY DEF IInv, CallInv
  <2> QED
    BY <1>1, <1>2, <2>1, CallsAssumption DEF Lose
<1>4. BufferTypeOK /\ ExportsAreCounted /\ CallInv
      /\ ExportsCounted(stack, exports, lost, OpenIn(view)) /\ CopyInv
  BY DEF IInv
<1>5. /\ IsStack(stack) /\ stack \in Seq(Frames) /\ local \in Locals
      /\ RefsOwned(stack, local, lost) /\ IsFiniteSet(Owed(stack, Disposers))
  BY <1>4 DEF CallInv, IsStack
<1>6. UNCHANGED <<array, bufferExportCount, view, ideal, quiet>>
  BY DEF bufferVars
<1>7. /\ stack' = Popped(stack)
      /\ IsStack(stack') /\ IsFiniteSet(Owed(stack', Disposers))
      /\ \A loc : Cardinality(FreeIn(loc)) >= Cardinality(FreeIn(local)) - 1
           => Room(stack', loc)
      /\ OpenInv'
  BY <1>1, <1>4, PopCall
<1>8. RefsOwned(stack', local, lost')
  BY <1>2, <1>3, <1>5, <1>7, RefsAbandoned
<1>9. /\ local' \in Locals /\ RefsOwned(stack', local', lost')
      /\ \A h \in Owed(stack, Buffers) : local'[RefAt(stack, h)] = local[RefAt(stack, h)]
      /\ Cardinality(FreeIn(local')) >= Cardinality(FreeIn(local)) - 1
  <2>1. CASE leftArray
    <3>1. NewRef \in Refs /\ local[NewRef] = Free /\ local' = [local EXCEPT ![NewRef] = Array(Zero)]
      BY <1>4, <2>1, NewRefIsFree
    <3>2. /\ Array(Zero) # Free
          /\ Array(Zero) \in Objects
      BY BuffersAssumption, Kinds
    <3>3. "refs" \in lost'
      BY <1>2, <1>3, <2>1
    <3> DEFINE r == NewRef
               o == Array(Zero)
               lot == local'
               t == stack'
               lost2 == lost'
    <3>4. r \in Refs /\ local[r] = Free /\ Taken(local, lot, r, o)
      BY <3>1 DEF Taken
    <3>5. o # Free /\ o \in Objects
      BY <3>2
    <3>6. RefsOwned(t, local, lost2) /\ "refs" \in lost2
      BY <1>8, <3>3
    <3> HIDE DEF r, o, lot, t, lost2
    <3>7. /\ lot \in Locals /\ RefsOwned(t, lot, lost2)
          /\ \A h \in Owed(stack, Buffers) : lot[RefAt(stack, h)] = local[RefAt(stack, h)]
          /\ Cardinality(FreeIn(lot)) >= Cardinality(FreeIn(local)) - 1
      BY <1>5, <3>4, <3>5, <3>6, LoseRef
    <3> QED
      BY <3>7 DEF lot, t, lost2
  <2>2. CASE ~leftArray
    <3>1. local' = local
      BY <2>2
    <3>2. Cardinality(FreeIn(local)) >= Cardinality(FreeIn(local)) - 1
      BY FreeFinite
    <3> QED
      BY <1>5, <1>8, <3>1, <3>2
  <2> QED
    BY <2>1, <2>2
<1>10. CallInv'
  <2>1. Room(stack', local')
    BY <1>7, <1>9
  <2> QED
    BY <1>3, <1>4, <1>7, <1>9, <2>1 DEF CallInv
<1>11. ExportsCounted(stack', exports', lost', OpenIn(view'))
  <2>1. ExportsCounted(Popped(stack), exports, lost \cup more, OpenIn(view))
    BY <1>2, <1>4, <1>5, CountedAbandoned
  <2> QED
    BY <1>3, <1>6, <1>7, <2>1
<1>12. ASSUME quiet PROVE Current(stack', local', exports, view, array, ideal)
  <2>1. Current(stack, local, exports, view, array, ideal)
    BY <1>4, <1>12 DEF CopyInv
  <2> DEFINE lot == local'
  <2>2. \A h \in Owed(stack, Buffers) : lot[RefAt(stack, h)] = local[RefAt(stack, h)]
    BY <1>9
  <2> HIDE DEF lot
  <2>3. Current(Popped(stack), lot, exports, view, array, ideal)
    BY <1>4, <1>5, <2>1, <2>2, CurrentAbandoned
  <2> QED
    BY <1>7, <2>3 DEF lot
<1>13. CopyInv'
  BY <1>6, <1>12 DEF CopyInv
<1>14. BufferTypeOK' /\ ExportsAreCounted'
  BY <1>4, <1>6 DEF BufferTypeOK, ExportsAreCounted
<1> QED
  BY <1>7, <1>10, <1>11, <1>13, <1>14 DEF IInv

\* What is copied back is the content of an array, and the view stays open.
LEMMA CopiedBackViews ==
  ASSUME IsStack(stack), stack # <<>>, local \in Locals,
         NEW things, RefsOwned(stack, local, things),
         view \in [Views -> ViewRecords]
  PROVE  /\ CopiedBack(Top) \in [Views -> ViewRecords]
         /\ \A v \in Views : CopiedBack(Top)[v].obj = view[v].obj
         /\ OpenIn(CopiedBack(Top)) = OpenIn(view)
<1> DEFINE f == stack[Len(stack)]
           vw == CopiedBack(f)
<1>1. ASSUME NEW v \in Views
      PROVE  vw[v] \in ViewRecords /\ vw[v].obj = view[v].obj
  <2> DEFINE x == local[f.jargs[Latest(WritableArgs(f, v))].ref].data
  <2>1. vw[v] = IF WritableArgs(f, v) = {} THEN view[v] ELSE [view[v] EXCEPT !.buf = x]
    BY DEF CopiedBack
  <2>2. view[v] \in ViewRecords
    OBVIOUS
  <2>3. ASSUME WritableArgs(f, v) # {} PROVE x \in Contents
    <3>1. PICK i \in WritableArgs(f, v) : i = Latest(WritableArgs(f, v))
      BY <2>3, WritableArgsFacts
    <3>2. /\ <<Len(stack), i>> \in Owed(stack, Buffers)
          /\ f.jargs[i].ref = RefAt(stack, <<Len(stack), i>>)
      BY WritableArgsFacts
    <3>3. RefAt(stack, <<Len(stack), i>>) \in Refs
      BY <3>2, BuffersOwed DEF RefsOwned
    <3>4. local[f.jargs[i].ref] \in Objects
      BY <3>2, <3>3 DEF Locals
    <3>5. x = local[f.jargs[i].ref].data
      BY <3>1
    <3> HIDE DEF x, f
    <3> QED
      BY <3>4, <3>5 DEF Objects
  <2> HIDE DEF x, f, vw
  <2>4. CASE WritableArgs(f, v) = {}
    BY <2>1, <2>2, <2>4
  <2>5. CASE WritableArgs(f, v) # {}
    BY <2>1, <2>2, <2>3, <2>5 DEF ViewRecords
  <2> QED
    BY <2>4, <2>5
<1>2. vw = [v \in Views |-> vw[v]]
  BY DEF CopiedBack
<1>3. Top = f
  BY DEF Top
<1> HIDE DEF vw, f
<1>4. vw \in [Views -> ViewRecords]
  BY <1>1, <1>2
<1>5. OpenIn(vw) = OpenIn(view)
  BY <1>1 DEF OpenIn
<1> QED
  BY <1>1, <1>3, <1>4, <1>5 DEF vw

\* A call that has returned disposes of its arguments.  What it has made besides,
\* "lot" tells of.
LEMMA DisposeKeepsIInv ==
  ASSUME IInv, stack # <<>>, Pop,
         view' = CopiedBack(Top), exports' = Released(Top),
         local' \in Locals, RefsOwned(stack', local', lost'),
         Cardinality(FreeIn(local')) >= Cardinality(FreeIn(local)) - 1,
         \A h \in Owed(stack', Buffers) : local'[RefAt(stack, h)] = local[RefAt(stack, h)],
         lost \subseteq lost', lost' \subseteq {"exports", "refs"}, losses' \in 0..MaxLosses,
         result' \in [of : Views \cup {NoView}, data : Contents],
         UNCHANGED <<array, bufferExportCount, ideal, quiet>>
  PROVE  IInv'
<1>1. BufferTypeOK /\ ExportsAreCounted /\ CallInv /\ view \in [Views -> ViewRecords]
      /\ ExportsCounted(stack, exports, lost, OpenIn(view)) /\ CopyInv
  BY ViewsTyped DEF IInv
<1>2. /\ IsStack(stack) /\ stack \in Seq(Frames) /\ local \in Locals
      /\ RefsOwned(stack, local, lost) /\ IsFiniteSet(Owed(stack, Disposers))
      /\ Top = stack[Len(stack)]
  BY <1>1 DEF CallInv, IsStack, Top
<1>3. /\ stack' = Popped(stack)
      /\ IsStack(stack') /\ IsFiniteSet(Owed(stack', Disposers))
      /\ Room(stack', local')
      /\ OpenInv'
  BY <1>1, PopCall
<1>4. /\ view' \in [Views -> ViewRecords]
      /\ \A v \in Views : view'[v].obj = view[v].obj
      /\ OpenIn(view') = OpenIn(view)
  <2> DEFINE vw == CopiedBack(Top)
  <2>1. /\ vw \in [Views -> ViewRecords]
        /\ \A v \in Views : vw[v].obj = view[v].obj
        /\ OpenIn(vw) = OpenIn(view)
    BY <1>1, <1>2, CopiedBackViews
  <2>2. view' = vw
    OBVIOUS
  <2> HIDE DEF vw
  <2> QED
    BY <2>1, <2>2
<1>5. BufferTypeOK'
  BY <1>1, <1>4 DEF BufferTypeOK, ViewRecords
<1>6. ExportsAreCounted'
  <2>1. \A b \in JArrays : {w \in Views : view'[w].obj = b} = {w \in Views : view[w].obj = b}
    BY <1>4
  <2> QED
    BY <1>1, <2>1 DEF ExportsAreCounted
<1>7. ExportsCounted(stack', exports', lost', OpenIn(view')) /\ exports' \in [Views -> Nat]
  <2> DEFINE less == Released(Top)
  <2>1. ExportsCounted(Popped(stack), less, lost, OpenIn(view)) /\ less \in [Views -> Nat]
    BY <1>1, <1>2, CountedReleased
  <2> HIDE DEF less
  <2>2. ExportsCounted(Popped(stack), less, lost', OpenIn(view))
    BY <2>1, MoreLost
  <2> QED
    BY <1>3, <1>4, <2>1, <2>2 DEF less
<1>8. CallInv'
  BY <1>3, <1>7 DEF CallInv
<1>9. ASSUME quiet PROVE Current(stack', local', exports', view', array, ideal)
  <2>1. Current(stack, local, exports, view, array, ideal)
    BY <1>1, <1>9 DEF CopyInv
  <2> DEFINE lot == local'
             less == Released(Top)
             vw == CopiedBack(Top)
  <2>2. \A h \in Owed(Popped(stack), Buffers) : lot[RefAt(stack, h)] = local[RefAt(stack, h)]
    BY <1>3
  <2> HIDE DEF lot
  <2>3. Current(Popped(stack), lot, less, vw, array, ideal)
    BY <1>1, <1>2, <2>1, <2>2, CurrentReleased
  <2> HIDE DEF less, vw
  <2> QED
    BY <1>3, <2>3 DEF lot, less, vw
<1>10. CopyInv'
  BY <1>9 DEF CopyInv
<1> QED
  BY <1>3, <1>5, <1>6, <1>7, <1>8, <1>10 DEF IInv

\* Deleting the references of a call leaves those of the others.
LEMMA DeletedFacts ==
  ASSUME CallInv, stack # <<>>, Pop
  PROVE  /\ Deleted(Top) \in Locals
         /\ RefsOwned(stack', Deleted(Top), lost)
         /\ FreeIn(local) \subseteq FreeIn(Deleted(Top))
         /\ Cardinality(FreeIn(Deleted(Top))) >= Cardinality(FreeIn(local))
         /\ \A h \in Owed(stack', Buffers) :
              /\ Deleted(Top)[RefAt(stack, h)] = local[RefAt(stack, h)]
              /\ RefAt(stack, h) \in Refs /\ local[RefAt(stack, h)] # Free
<1>1. /\ stack \in Seq(Frames) /\ local \in Locals /\ RefsOwned(stack, local, lost)
      /\ Top = stack[Len(stack)] /\ stack' = Popped(stack)
  BY PopCall DEF CallInv, IsStack, Top
<1> DEFINE del == Deleted(stack[Len(stack)])
           t == Popped(stack)
<1>2. /\ del \in Locals /\ RefsOwned(t, del, lost)
      /\ FreeIn(local) \subseteq FreeIn(del)
      /\ \A h \in Owed(t, Disposers) : del[RefAt(stack, h)] = local[RefAt(stack, h)]
  BY <1>1, RefsDeleted
<1>3. Owed(t, Disposers) \subseteq Owed(stack, Disposers)
  BY <1>1, OwedPop
<1> HIDE DEF del, t
<1>4. Cardinality(FreeIn(del)) >= Cardinality(FreeIn(local))
  <2>1. FreeIn(local) \in SUBSET FreeIn(del) /\ IsFiniteSet(FreeIn(del))
    BY <1>2, FreeFinite
  <2>2. Cardinality(FreeIn(local)) <= Cardinality(FreeIn(del))
    BY <2>1, FS_Subset
  <2> QED
    BY <2>2, FreeFinite
<1>5. ASSUME NEW h \in Owed(t, Buffers)
      PROVE  /\ del[RefAt(stack, h)] = local[RefAt(stack, h)]
             /\ RefAt(stack, h) \in Refs /\ local[RefAt(stack, h)] # Free
  <2>1. h \in Owed(t, Disposers)
    BY BuffersOwed
  <2>2. h \in Owed(stack, Disposers)
    BY <1>3, <2>1
  <2>3. RefAt(stack, h) \in Refs /\ local[RefAt(stack, h)] # Free
    BY <1>1, <2>2 DEF RefsOwned
  <2> QED
    BY <1>2, <2>1, <2>3
<1> QED
  BY <1>1, <1>2, <1>4, <1>5 DEF del, t

\* ReturnArray and ReturnOrThrow: what the call owes is given back.
LEMMA ReturnedKeepsIInv ==
  ASSUME IInv, InJava, DisposeJArgs(Top), Pop,
         result' \in [of : Views \cup {NoView}, data : Contents],
         UNCHANGED <<array, bufferExportCount, ideal, quiet, lost, losses>>
  PROVE  IInv'
<1>1. stack # <<>> /\ CallInv
  BY DEF InJava, Busy, IInv
<1>2. view' = CopiedBack(Top) /\ exports' = Released(Top) /\ local' = Deleted(Top)
  BY DEF DisposeJArgs
<1>3. /\ Deleted(Top) \in Locals
      /\ RefsOwned(stack', Deleted(Top), lost)
      /\ Cardinality(FreeIn(Deleted(Top))) >= Cardinality(FreeIn(local))
      /\ \A h \in Owed(stack', Buffers) : Deleted(Top)[RefAt(stack, h)] = local[RefAt(stack, h)]
  BY <1>1, DeletedFacts
<1>4. /\ local' \in Locals
      /\ RefsOwned(stack', local', lost')
      /\ Cardinality(FreeIn(local')) >= Cardinality(FreeIn(local)) - 1
      /\ \A h \in Owed(stack', Buffers) : local'[RefAt(stack, h)] = local[RefAt(stack, h)]
  <2> DEFINE del == Deleted(Top)
  <2>1. Cardinality(FreeIn(del)) >= Cardinality(FreeIn(local)) - 1
    BY <1>3, FreeFinite
  <2>2. local' = del
    BY <1>2
  <2> HIDE DEF del
  <2> QED
    BY <1>3, <2>1, <2>2 DEF del
<1>5. lost \subseteq lost' /\ lost' \subseteq {"exports", "refs"} /\ losses' \in 0..MaxLosses
  BY <1>1 DEF CallInv
<1> QED
  BY <1>1, <1>2, <1>4, <1>5, DisposeKeepsIInv

\* Java returns the array of an argument.
LEMMA ReturnArrayKeepsIInv ==
  ASSUME IInv, NEW i, ReturnArray(i)
  PROVE  IInv'
<1>1. /\ InJava /\ i \in DOMAIN Top.args /\ Top.args[i] \in Views
      /\ result' = FromJObject(Top, i) /\ DisposeJArgs(Top) /\ Pop
      /\ UNCHANGED <<array, bufferExportCount, ideal, quiet, lost, losses>>
  BY DEF ReturnArray
<1>2. /\ IsStack(stack) /\ stack # <<>> /\ Top = stack[Len(stack)] /\ local \in Locals
      /\ RefsOwned(stack, local, lost) /\ Top.phase = "java"
  BY <1>1 DEF InJava, Busy, Top, IInv, CallInv
<1>3. i \in DOMAIN Top.jargs
  <2>1. Top \in Frames /\ FrameInv(Top)
    BY <1>2, StackTop
  <2>2. /\ DOMAIN Top.args = 1..Len(Top.args) /\ DOMAIN Top.jargs = 1..Len(Top.jargs)
    BY <2>1, FrameFacts
  <2>3. Len(Top.args) = Len(Top.jargs)
    BY <1>2, <2>1 DEF FrameInv
  <2> QED
    BY <1>1, <2>2, <2>3
<1>4. local[Top.jargs[i].ref].data \in Contents
  <2>1. /\ <<Len(stack), i>> \in Owed(stack, Disposers)
        /\ RefAt(stack, <<Len(stack), i>>) = Top.jargs[i].ref
    BY <1>1, <1>2, <1>3, ViewArgs
  <2>2. Top.jargs[i].ref \in Refs
    BY <1>2, <2>1 DEF RefsOwned
  <2>3. local[Top.jargs[i].ref] \in Objects
    BY <1>2, <2>2 DEF Locals
  <2> QED
    BY <2>3 DEF Objects
<1>5. result' \in [of : Views \cup {NoView}, data : Contents]
  BY <1>1, <1>4, BuffersAssumption DEF FromJObject, NoResult
<1> QED
  BY <1>1, <1>5, ReturnedKeepsIInv

\* Java returns something else or throws.
LEMMA ReturnOrThrowKeepsIInv ==
  ASSUME IInv, ReturnOrThrow
  PROVE  IInv'
<1>1. NoResult \in [of : Views \cup {NoView}, data : Contents]
  BY BuffersAssumption DEF NoResult
<1> QED
  BY <1>1, ReturnedKeepsIInv DEF ReturnOrThrow

\* A constructor returns, and the reference to the object is lost.
LEMMA ReturnObjectKeepsIInv ==
  ASSUME IInv, ReturnObject
  PROVE  IInv'
<1>1. /\ InJava /\ view' = CopiedBack(Top) /\ exports' = Released(Top)
      /\ local' = [Deleted(Top) EXCEPT ![NewRef] = Object]
      /\ Lose({"refs"}) /\ Pop
      /\ UNCHANGED <<array, bufferExportCount, ideal, quiet, result>>
  BY DEF ReturnObject
<1>2. stack # <<>> /\ CallInv
  BY <1>1 DEF InJava, Busy, IInv
<1>3. /\ lost' = lost \cup {"refs"} /\ lost' \subseteq {"exports", "refs"}
      /\ losses' \in 0..MaxLosses
  <2>1. lost \subseteq {"exports", "refs"} /\ losses \in 0..MaxLosses
    BY <1>2 DEF CallInv
  <2> QED
    BY <1>1, <2>1, CallsAssumption DEF Lose
<1> DEFINE r == NewRef
           del == Deleted(Top)
           lot == local'
           t == stack'
           more == lost'
           o == Object
<1>4. r \in Refs /\ local[r] = Free
  BY <1>2, NewRefIsFree
<1>5. /\ del \in Locals
      /\ RefsOwned(t, del, lost)
      /\ FreeIn(local) \subseteq FreeIn(del)
      /\ Cardinality(FreeIn(del)) >= Cardinality(FreeIn(local))
      /\ \A h \in Owed(t, Buffers) :
           /\ del[RefAt(stack, h)] = local[RefAt(stack, h)]
           /\ RefAt(stack, h) \in Refs /\ local[RefAt(stack, h)] # Free
  BY <1>1, <1>2, DeletedFacts
<1>6. lost \subseteq more /\ "refs" \in more /\ o # Free /\ o \in Objects
  BY <1>3, Kinds
<1>7. Taken(del, lot, r, o)
  BY <1>1 DEF Taken
<1> HIDE DEF r, del, lot, t, more, o
<1>8. del[r] = Free
  BY <1>4, <1>5 DEF FreeIn
<1>9. RefsOwned(t, del, more)
  BY <1>5, <1>6, MoreLost
<1>10. /\ lot \in Locals /\ RefsOwned(t, lot, more)
       /\ Cardinality(FreeIn(lot)) >= Cardinality(FreeIn(del)) - 1
  BY <1>4, <1>5, <1>6, <1>7, <1>8, <1>9, LoseRef
<1>11. \A h \in Owed(t, Buffers) : lot[RefAt(stack, h)] = local[RefAt(stack, h)]
  <2>1. \A q \in Refs : q # r => lot[q] = del[q]
    BY <1>5, <1>7 DEF Taken, Locals
  <2> QED
    BY <1>4, <1>5, <2>1
<1>12. Cardinality(FreeIn(lot)) >= Cardinality(FreeIn(local)) - 1
  <2> DEFINE a == Cardinality(FreeIn(lot))
             b == Cardinality(FreeIn(del))
             c == Cardinality(FreeIn(local))
  <2>1. a \in Nat /\ b \in Nat /\ c \in Nat /\ a >= b - 1 /\ b >= c
    BY <1>5, <1>10, FreeFinite
  <2> HIDE DEF a, b, c
  <2>2. a >= c - 1
    BY <2>1
  <2> QED
    BY <2>2 DEF a, c
<1>13. /\ local' \in Locals /\ RefsOwned(stack', local', lost')
       /\ Cardinality(FreeIn(local')) >= Cardinality(FreeIn(local)) - 1
       /\ \A h \in Owed(stack', Buffers) : local'[RefAt(stack, h)] = local[RefAt(stack, h)]
       /\ lost \subseteq lost'
  BY <1>6, <1>10, <1>11, <1>12 DEF lot, t, more
<1>14. result' \in [of : Views \cup {NoView}, data : Contents]
  BY <1>1, <1>2 DEF CallInv
<1> QED
  BY <1>1, <1>2, <1>3, <1>13, <1>14, DisposeKeepsIInv

-----------------------------------------------------------------------------
(* The theorems *)

\* Every step keeps the invariant, ...
LEMMA NextKeepsIInv ==
  ASSUME IInv, Next
  PROVE  IInv'
<1>1. CASE \E v \in Views, a \in JArrays, flags \in {"simple", "writable"} : OpenView(v, a, flags)
  BY <1>1, OpenViewKeepsIInv
<1>2. CASE \E v \in Views : CloseView(v)
  BY <1>2, CloseViewKeepsIInv
<1>3. CASE \E v \in Views, x \in Contents : AssignView(v, x)
  BY <1>3, AssignViewKeepsIInv
<1>4. CASE \E x \in Contents : AssignArray(x)
  BY <1>4, AssignArrayKeepsIInv
<1>5. CASE \E m \in Methods : \E args \in [1..Len(m.params) -> Args] : BeginCall(m, args)
  BY <1>5, BeginCallKeepsIInv
<1>6. CASE PassValue
  BY <1>6, PassValueKeepsIInv
<1>7. CASE PassObject
  BY <1>7, KeepObjectKeepsIInv DEF PassObject
<1>8. CASE PassVarArgs
  BY <1>8, KeepObjectKeepsIInv DEF PassVarArgs
<1>9. CASE PassBuffer
  BY <1>9, PassBufferKeepsIInv
<1>10. CASE RefuseArg
  <2>1. stack # <<>> /\ FALSE \in BOOLEAN
    BY <1>10 DEF RefuseArg, Converting, Busy
  <2>2. AbandonJArgs(FALSE) /\ UNCHANGED <<bufferVars, local, exports, result>>
    BY <1>10 DEF RefuseArg
  <2> QED
    BY <2>1, <2>2, AbandonKeepsIInv
<1>11. CASE \E leftArray \in BOOLEAN : RefuseBuffer(leftArray)
  BY <1>11, AbandonKeepsIInv DEF RefuseBuffer, Converting, Busy
<1>12. CASE \E i \in ArgIndices, x \in Contents : AssignArgument(i, x)
  BY <1>12, AssignArgumentKeepsIInv
<1>13. CASE \E i \in ArgIndices : ReturnArray(i)
  BY <1>13, ReturnArrayKeepsIInv
<1>14. CASE ReturnOrThrow
  BY <1>14, ReturnOrThrowKeepsIInv
<1>15. CASE ReturnObject
  BY <1>15, ReturnObjectKeepsIInv
<1>16. CASE ThrowFromConstructor
  <2>1. stack # <<>> /\ FALSE \in BOOLEAN
    BY <1>16 DEF ThrowFromConstructor, InJava, Busy
  <2>2. AbandonJArgs(FALSE) /\ UNCHANGED <<bufferVars, local, exports, result>>
    BY <1>16 DEF ThrowFromConstructor
  <2> QED
    BY <2>1, <2>2, AbandonKeepsIInv
<1> QED
  BY <1>1, <1>2, <1>3, <1>4, <1>5, <1>6, <1>7, <1>8, <1>9, <1>10, <1>11, <1>12,
     <1>13, <1>14, <1>15, <1>16 DEF Next

\* ... and so does none.
LEMMA StutterKeepsIInv ==
  ASSUME IInv, UNCHANGED vars
  PROVE  IInv'
<1>1. UNCHANGED <<array, bufferExportCount, view, ideal, quiet>> /\ UNCHANGED callVars
  BY DEF vars, bufferVars
<1>2. UNCHANGED <<stack, local, exports, lost>>
  BY <1>1 DEF callVars
<1>3. /\ BufferTypeOK /\ ExportsAreCounted /\ CallInv /\ OpenInv
      /\ ExportsCounted(stack, exports, lost, OpenIn(view)) /\ CopyInv
  BY DEF IInv
<1>4. BufferTypeOK' /\ ExportsAreCounted'
  BY <1>1, <1>3 DEF BufferTypeOK, ExportsAreCounted
<1>5. CallInv'
  BY <1>1, <1>3, SameCalls
<1>6. OpenInv'
  BY <1>1, <1>2, <1>3 DEF OpenInv, Converting, Busy, Top, Arity, IsOpen
<1>7. ExportsCounted(stack', exports', lost', OpenIn(view'))
  BY <1>1, <1>2, <1>3
<1>8. CopyInv'
  BY <1>1, <1>2, <1>3 DEF CopyInv
<1> QED
  BY <1>3, <1>4, <1>5, <1>6, <1>7, <1>8 DEF IInv

\* The inductive invariant, for all methods, arguments and depths of nesting.
THEOREM Invariance == Spec => []IInv
<1>1. IInv /\ [Next]_vars => IInv'
  BY NextKeepsIInv, StutterKeepsIInv
<1> QED
  BY <1>1, InitIInv, PTL DEF Spec

\* The variables have their types, and only the innermost call is not in Java.
THEOREM TypeCorrect == Spec => []TypeOK
<1>1. IInv => TypeOK
  <2> SUFFICES ASSUME IInv PROVE TypeOK
    OBVIOUS
  <2>1. BufferTypeOK /\ CallInv /\ IsStack(stack)
    BY DEF IInv, CallInv
  <2>2. ASSUME NEW k \in 1..Len(stack)
        PROVE  /\ stack[k].method \in Methods
               /\ stack[k].args \in Seq(Args) /\ Len(stack[k].args) = Arity(stack[k])
               /\ stack[k].jargs \in Seq([ref : Refs \cup {NoRef},
                                          dispose : Disposers \cup {"nothing"}])
               /\ Len(stack[k].jargs) <= Arity(stack[k])
               /\ stack[k].phase \in {"convert", "java"}
               /\ k < Len(stack) => stack[k].phase = "java"
    <3>1. /\ stack[k] \in Frames /\ FrameInv(stack[k])
          /\ k < Len(stack) => stack[k].phase = "java"
      BY <2>1 DEF IsStack
    <3> QED
      BY <3>1, FrameFacts DEF FrameInv, JArgs
  <2>3. /\ local \in [Refs -> [kind : {"free", "object", "array"}, data : Contents]]
        /\ exports \in [Views -> Nat]
        /\ result \in [of : Views \cup {NoView}, data : Contents]
        /\ lost \subseteq {"exports", "refs"}
        /\ losses \in 0..MaxLosses
    BY <2>1 DEF CallInv, Locals, Objects
  <2> QED
    BY <2>1, <2>2, <2>3 DEF TypeOK
<1> QED
  BY <1>1, Invariance, PTL

\* The properties of CallArguments speak of the same things.
LEMMA WhatIsHeld ==
  /\ \A D : ToDispose(D) = Owed(stack, D)
  /\ \A v : HeldOf(v) = HeldIn(stack, v)
  /\ \A h : RefOf(h) = RefAt(stack, h)
  /\ FreeRefs = FreeIn(local)
<1>1. \A D : ToDispose(D) = Owed(stack, D)
  BY DEF ToDispose, Owed
<1>2. \A v : HeldOf(v) = HeldIn(stack, v)
  BY <1>1 DEF HeldOf, HeldIn, ArgAt, Buffers
<1> QED
  BY <1>1, <1>2 DEF RefOf, RefAt, FreeRefs, FreeIn

\* However calls nest and fail, the counts of exports are the numbers of open views, and a
\* view is exported as often as arguments of running calls hold it, unless a call was given
\* up (JMethod_CreateJArgs, JMethod_DisposeJArgs, JObj_init).
THEOREM ExportsAreHeldInvariant == Spec => []ExportsAreHeld
<1>1. IInv => ExportsAreHeld
  BY WhatIsHeld DEF IInv, ExportsAreHeld, ExportsCounted
<1> QED
  BY <1>1, Invariance, PTL

\* However calls nest and fail, each local reference in use belongs to one argument of a
\* running call, unless one was lost: none is deleted twice or while it is needed.
THEOREM RefsAreOwnedInvariant == Spec => []RefsAreOwned
<1>1. IInv => RefsAreOwned
  <2> SUFFICES ASSUME IInv PROVE RefsAreOwned
    OBVIOUS
  <2> DEFINE H == Owed(stack, Disposers)
             owned == {RefAt(stack, h) : h \in H}
             f == [h \in H |-> RefAt(stack, h)]
  <2>1. RefsOwned(stack, local, lost) /\ IsFiniteSet(H)
    BY DEF IInv, CallInv
  <2>2. /\ \A h \in H : RefAt(stack, h) \in Refs /\ local[RefAt(stack, h)] # Free
        /\ \A h, o \in H : RefAt(stack, h) = RefAt(stack, o) => h = o
        /\ "refs" \notin lost =>
             \A r \in Refs : local[r] # Free => \E h \in H : RefAt(stack, h) = r
    BY <2>1 DEF RefsOwned
  <2>3. owned = {RefOf(h) : h \in ToDispose(Disposers)} /\ H = ToDispose(Disposers)
    BY WhatIsHeld
  <2>4. Cardinality(owned) = Cardinality(H)
    <3>1. /\ f \in [H -> owned] /\ (\A h, o \in H : f[h] = f[o] => h = o)
          /\ \A r \in owned : \E h \in H : f[h] = r
      BY <2>2
    <3>2. f \in Bijection(H, owned)
      BY <3>1 DEF Bijection, Injection, IsInjective, Surjection
    <3>3. ExistsBijection(H, owned)
      BY <3>2 DEF ExistsBijection
    <3> HIDE DEF H, owned
    <3> QED
      BY <2>1, <3>3, FS_Bijection
  <2>5. owned \cap FreeRefs = {}
    BY <2>2 DEF FreeRefs
  <2>6. "refs" \notin lost => Refs \ FreeRefs = owned
    BY <2>2 DEF FreeRefs
  <2> HIDE DEF H, owned
  <2> QED
    BY <2>3, <2>4, <2>5, <2>6 DEF RefsAreOwned
<1> QED
  BY <1>1, Invariance, PTL

\* As long as everybody writes to the innermost copy only, array, views and arguments cannot
\* be told apart where nothing is to be copied back any more.
THEOREM LikeOneArrayInvariant == Spec => []LikeOneArray
<1>1. IInv => LikeOneArray
  <2> SUFFICES ASSUME IInv, quiet
               PROVE  /\ Open = {} => array = ideal
                      /\ \A v \in Open : exports[v] = 0 => view[v].buf = ideal
                      /\ \A h \in ToDispose({"readonly", "writable"}) : local[RefOf(h)].data = ideal
    BY DEF LikeOneArray
  <2>1. /\ Current(stack, local, exports, view, array, ideal)
        /\ ExportsCounted(stack, exports, lost, OpenIn(view))
        /\ IsFiniteSet(Owed(stack, Disposers))
    BY DEF IInv, CopyInv, CallInv
  <2>2. ASSUME NEW v \in Open, exports[v] = 0 PROVE view[v].buf = ideal
    <3>1. v \in OpenIn(view) /\ v \in Views
      BY OpenViews DEF Open
    <3>2. IsFiniteSet(HeldIn(stack, v)) /\ Cardinality(HeldIn(stack, v)) \in Nat
      BY <2>1, HeldFinite
    <3>3. exports[v] >= Cardinality(HeldIn(stack, v))
      BY <2>1, <3>1 DEF ExportsCounted
    <3>4. Cardinality(HeldIn(stack, v)) = 0
      BY <2>2, <3>2, <3>3
    <3>5. HeldIn(stack, v) = {}
      BY <3>2, <3>4, FS_EmptySet
    <3>6. ~Writes(stack, v)
      BY <3>5 DEF Writes
    <3> QED
      BY <2>1, <2>2, <3>1, <3>4, <3>6 DEF Current
  <2>3. \A h \in ToDispose({"readonly", "writable"}) : local[RefOf(h)].data = ideal
    BY <2>1, WhatIsHeld DEF Current, Buffers
  <2>4. Open = {} => array = ideal
    BY <2>1, OpenViews DEF Current
  <2> QED
    BY <2>2, <2>3, <2>4
<1> QED
  BY <1>1, Invariance, PTL

\* The array of the return parameter is the one that is copied back.
LEMMA ReturnCopiesBack ==
  ASSUME IInv, NEW i, ReturnArray(i), result'.of \in Views, IsMutableOnce(Top, result'.of)
  PROVE  view'[result'.of].buf = result'.data
<1> DEFINE v == Top.args[i]
           x == local[Top.jargs[i].ref].data
           I == WritableArgs(Top, v)
<1>1. /\ InJava /\ i \in DOMAIN Top.args /\ v \in Views
      /\ result' = FromJObject(Top, i) /\ view' = CopiedBack(Top)
  BY DEF ReturnArray, DisposeJArgs
<1>2. i = Top.method.paramIndex
  BY <1>1, CallsAssumption DEF FromJObject, NoResult
<1>3. result' = [of |-> v, data |-> x]
  BY <1>1, <1>2 DEF FromJObject
<1>4. result'.of = v /\ result'.data = x
  BY <1>3
<1>5. /\ IsStack(stack) /\ stack # <<>> /\ stack \in Seq(Frames) /\ Top = stack[Len(stack)]
      /\ IsFiniteSet(Owed(stack, Disposers)) /\ Top.phase = "java"
      /\ view \in [Views -> ViewRecords]
  BY <1>1, ViewsTyped DEF IInv, CallInv, InJava, Busy, Top, IsStack
<1>6. Top \in Frames /\ FrameInv(Top)
  BY <1>5, StackTop
<1>7. i \in 1..Len(Top.jargs) /\ DOMAIN Top.jargs = 1..Len(Top.jargs)
  <2>1. DOMAIN Top.args = 1..Len(Top.args) /\ DOMAIN Top.jargs = 1..Len(Top.jargs)
    BY <1>6, FrameFacts
  <2>2. Len(Top.args) = Len(Top.jargs)
    BY <1>5, <1>6 DEF FrameInv
  <2> QED
    BY <1>1, <2>1, <2>2
<1>8. Top.jargs[i].dispose = "writable"
  <2>1. Fitting(Top.method.params[i], Top.args[i], Top.jargs[i])
    BY <1>6, <1>7 DEF FrameInv
  <2>2. Top.method.params[i].isMutable
    BY <1>2 DEF IsMutableOnce
  <2> QED
    BY <1>1, <2>1, <2>2 DEF Fitting
<1>9. i \in I
  BY <1>7, <1>8 DEF WritableArgs, With
<1>10. Cardinality(I) = 1
  BY <1>4 DEF IsMutableOnce
<1>11. IsFiniteSet(I)
  <2>1. IsFiniteSet(BufferArgs(Top, v))
    BY <1>5, HeldPop
  <2>2. I \in SUBSET BufferArgs(Top, v)
    BY DEF WritableArgs, BufferArgs, With
  <2> QED
    BY <2>1, <2>2, FS_Subset
<1>12. I = {i}
  <2> HIDE DEF I
  <2>1. PICK k : I = {k}
    BY <1>10, <1>11, FS_Singleton
  <2> QED
    BY <1>9, <2>1
<1>13. Latest(I) = i
  <2>1. I # {} => Latest(I) \in I
    BY <1>5, WritableArgsFacts
  <2> QED
    BY <1>12, <2>1
<1>14. view'[v] = [view[v] EXCEPT !.buf = x]
  BY <1>1, <1>9, <1>13 DEF CopiedBack
<1>15. view[v] \in ViewRecords
  BY <1>1, <1>5
<1> HIDE DEF v, x, I
<1>16. view'[v].buf = x
  BY <1>14, <1>15 DEF ViewRecords
<1> QED
  BY <1>4, <1>16

\* A mutable argument that Java returns, and Python gets in place of the array, contains then
\* what the array contained (JMethod_FromJObject, JType_DisposeWritableBufferArg).
THEOREM ReturnedIsCurrent == Spec => ReturnedArgumentIsCurrent
<1> DEFINE A == result'.of \in Views /\ result' # result /\ IsMutableOnce(Top, result'.of)
                  => view'[result'.of].buf = result'.data
<1>1. ASSUME IInv, Next PROVE A
  <2> SUFFICES ASSUME result'.of \in Views, result' # result, IsMutableOnce(Top, result'.of)
               PROVE  view'[result'.of].buf = result'.data
    OBVIOUS
  <2>1. NoResult.of \notin Views
    BY CallsAssumption DEF NoResult
  <2>2. PICK i : ReturnArray(i)
    BY <1>1, <2>1 DEF Next, OpenView, CloseView, AssignView, AssignArray, callVars, BeginCall,
       PassValue, PassObject, PassVarArgs, PassBuffer, RefuseArg, RefuseBuffer, AssignArgument,
       ReturnOrThrow, ReturnObject, ThrowFromConstructor
  <2> QED
    BY <1>1, <2>2, ReturnCopiesBack
<1>2. IInv /\ [Next]_vars => [A]_vars
  BY <1>1
<1> QED
  BY <1>2, Invariance, PTL DEF Spec, ReturnedArgumentIsCurrent
=============================================================================
