--------------------------- MODULE ExecuteCodeProofs ---------------------------
(***************************************************************************)
(* What ExecuteCode has for any number of threads and maps.                *)
(***************************************************************************)
EXTENDS ExecuteCode, TLAPS

-----------------------------------------------------------------------------
(* The inductive invariant *)

\* What can be said of the exception of a frame: none before the code has run, and
\* after it the one of the first failure, whether it is the first to be thrown or not.
FailureInv(f) ==
  /\ f.at \in {"in", "running"} => f.exception = "none" /\ ~f.raised
  /\ f.at = "in" => ~f.copy["locals"] /\ (f.scope = "globals" => ~f.copy["globals"])
  /\ f.at = "in" /\ f.scope = "locals" /\ f.arg["globals"] # "dict" => f.copy["globals"]
  /\ f.at = "running" => \A s \in Scopes : f.arg[s] # "dict" => f.copy[s]
  /\ f.at \in {"out", "fill", "returned"} =>
       /\ f.raised => f.exception = "python"
       /\ (\E s \in Scopes : f.arg[s] # "dict" /\ ~f.copy[s]) => f.exception = "argument"

\* If a map has refused its value among the globals, an exception is pending.
GlobalsTold(f) ==
  \A m \in Maps \ Unmodifiable :
    "globals" \in Written(f, m) /\ Refuses(m, f.dict["globals"]) => f.exception # "none"

\* A map that is being filled is empty, and one that the globals were copied to
\* contains them, unless Java (d) has changed it or the locals are being copied to it.
CopyInv(f, mp, d) ==
  /\ f.at = "running" => f.scope = "globals"
  /\ f.at = "fill" =>
       /\ f.copy[f.scope] /\ ~f.odd[f.scope]
       /\ f.arg[f.scope] \notin d => mp[f.arg[f.scope]] = "absent"
  /\ f.at \in {"out", "fill"} /\ f.scope = "locals" =>
       \A m \in Maps \ (Unmodifiable \cup d) :
         "globals" \in Written(f, m) /\ ~(f.at = "fill" /\ f.arg["locals"] = m)
           => mp[m] = Stored(m, f.dict["globals"])
  /\ f.at \in {"out", "fill"} /\ f.scope = "locals" => GlobalsTold(f)

IInv ==
  /\ TypeOK
  /\ \A t \in Threads : FailureInv(pc[t]) /\ CopyInv(pc[t], map, disturbed[t])

-----------------------------------------------------------------------------
(* Frames *)

LEMMA ContentsFacts ==
  ASSUME ExecuteAssumption
  PROVE  /\ "absent" \in Contents
         /\ \A v \in Contents : ToJava(v) \in Contents
         /\ ToJava("absent") = "absent"
BY DEF ExecuteAssumption, Contents, ToJava, AllValues

\* What a map stores.
LEMMA StoredFacts ==
  ASSUME ExecuteAssumption, NEW m, NEW v \in Contents
  PROVE  /\ Stored(m, v) \in Contents
         /\ ~Refuses(m, v) => Stored(m, v) = ToJava(v)
         /\ Refuses(m, v) => Stored(m, v) = "absent"
BY ContentsFacts DEF Stored

\* The steps of a frame stay frames and copy back what is a map.
LEMMA FrameSteps ==
  ASSUME NEW f \in Frames
  PROVE  /\ Proceed(f) \in Frames /\ Proceed(f).copy = f.copy /\ Proceed(f).arg = f.arg
         /\ GiveUp(f) \in Frames /\ GiveUp(f).copy = f.copy /\ GiveUp(f).arg = f.arg
         /\ Throw(f) \in Frames /\ Throw(f).copy = f.copy /\ Throw(f).arg = f.arg
         /\ Finish(f) \in Frames /\ Finish(f).copy = f.copy /\ Finish(f).arg = f.arg
<1>1. Empty \in [Scopes -> Contents] /\ Neither \in [Scopes -> BOOLEAN]
  BY DEF Empty, Neither, Contents
<1>2. Proceed(f) \in Frames /\ Proceed(f).copy = f.copy /\ Proceed(f).arg = f.arg
  BY DEF Frames, Scopes, Proceed
<1>3. GiveUp(f) \in Frames /\ GiveUp(f).copy = f.copy /\ GiveUp(f).arg = f.arg
  BY DEF Frames, Scopes, GiveUp
<1>4. Throw(f) \in Frames /\ Throw(f).copy = f.copy /\ Throw(f).arg = f.arg
  BY DEF Frames, Throw
<1>5. Finish(f) \in Frames /\ Finish(f).copy = f.copy /\ Finish(f).arg = f.arg
  BY <1>1 DEF Frames, Scopes, Finish
<1> QED BY <1>2, <1>3, <1>4, <1>5

\* The step of one thread, which has the GIL or takes it: the frames of the others do
\* not depend on what it does.
LEMMA ThreadStep ==
  ASSUME IInv, NEW t \in Threads, NEW f \in Frames, CanRun(t), Go(t, f),
         \A s \in Scopes : f.copy[s] => f.arg[s] \in Maps,
         map' \in [Maps -> Contents],
         disturbed' \in [Threads -> SUBSET Maps],
         crashed' = crashed,
         FailureInv(f), CopyInv(f, map', disturbed'[t])
  PROVE  IInv'
<1>1. pc' \in [Threads -> Frames] /\ pc'[t] = f /\ \A u \in Threads \ {t} : pc'[u] = pc[u]
  BY DEF IInv, TypeOK, Go
<1>2. TypeOK'
  BY <1>1 DEF IInv, TypeOK
<1>3. ASSUME NEW u \in Threads \ {t}
      PROVE  FailureInv(pc'[u]) /\ CopyInv(pc'[u], map', disturbed'[u])
  <2>1. pc[u].at \notin {"out", "fill"}
    BY DEF CanRun, HasGil
  <2> QED BY <1>1, <2>1 DEF IInv, CopyInv
<1>4. \A u \in Threads : FailureInv(pc[u])' /\ CopyInv(pc[u], map, disturbed[u])'
  BY <1>1, <1>3 DEF FailureInv, CopyInv, Written, GlobalsTold, Refuses, Stored, ToJava
<1> QED BY <1>2, <1>4 DEF IInv

-----------------------------------------------------------------------------
(* Steps *)

LEMMA ExceptTrue ==
  ASSUME NEW c \in [Scopes -> BOOLEAN], NEW s \in Scopes
  PROVE  /\ [c EXCEPT ![s] = TRUE][s]
         /\ \A r \in Scopes \ {s} : [c EXCEPT ![s] = TRUE][r] = c[r]
OBVIOUS

LEMMA InitIInv == Init => IInv
<1> SUFFICES ASSUME Init PROVE IInv
  OBVIOUS
<1>1. Empty \in [Scopes -> Contents] /\ Neither \in [Scopes -> BOOLEAN]
  BY DEF Empty, Neither, Contents
<1>2. Idle \in Frames /\ Idle.at = "java" /\ \A s \in Scopes : ~Idle.copy[s]
  BY <1>1 DEF Idle, Frames, Scopes, Arguments, Neither
<1>3. TypeOK
  BY <1>2 DEF Init, TypeOK, Contents
<1>4. \A t \in Threads : FailureInv(pc[t]) /\ CopyInv(pc[t], map, disturbed[t])
  BY <1>2 DEF Init, FailureInv, CopyInv
<1> QED BY <1>3, <1>4 DEF IInv

LEMMA BeginIInv ==
  ASSUME IInv, NEW t \in Threads, NEW g \in Arguments, NEW l \in Arguments, Begin(t, g, l)
  PROVE  IInv'
<1> DEFINE f == [Idle EXCEPT !.at = "in",
                             !.arg = [s \in Scopes |-> IF s = "globals" THEN g ELSE l]]
<1>1. Empty \in [Scopes -> Contents] /\ Neither \in [Scopes -> BOOLEAN]
  BY DEF Empty, Neither, Contents
<1>2. f \in Frames
  BY <1>1 DEF Idle, Frames, Scopes, Arguments
<1>3. f.at = "in" /\ f.scope = "globals" /\ f.copy = Neither /\ f.exception = "none" /\ ~f.raised
  BY DEF Idle
<1>4. FailureInv(f) /\ CopyInv(f, map', disturbed'[t]) /\ \A s \in Scopes : ~f.copy[s]
  BY <1>3 DEF FailureInv, CopyInv, Neither, Scopes
<1> HIDE DEF f
<1> QED BY <1>2, <1>4, ThreadStep DEF Begin, f, IInv, TypeOK

\* Giving up, from a frame that has not run anything.
LEMMA GiveUpInv ==
  ASSUME NEW f \in Frames, FailureInv(f), f.at = "in", NEW mp, NEW d
  PROVE  FailureInv(GiveUp(f)) /\ CopyInv(GiveUp(f), mp, d)
BY DEF FailureInv, CopyInv, GiveUp, Frames, Scopes

LEMMA UseArgumentIInv ==
  ASSUME IInv, NEW t \in Threads, NEW s \in Scopes, UseArgument(t, s)
  PROVE  IInv'
<1> DEFINE f == IF Arg(t) = "other" THEN GiveUp(pc[t]) ELSE Proceed(pc[t])
<1>1. /\ pc[t] \in Frames /\ pc[t].at = "in" /\ pc[t].scope = s
      /\ FailureInv(pc[t]) /\ CanRun(t) /\ Go(t, f) /\ Arg(t) = pc[t].arg[s]
  BY DEF IInv, TypeOK, UseArgument, At, Arg
<1>2. f \in Frames /\ f.copy = pc[t].copy /\ f.arg = pc[t].arg
  BY <1>1, FrameSteps
<1>3. FailureInv(f) /\ CopyInv(f, map', disturbed'[t])
  <2>1. CASE Arg(t) = "other"
    BY <1>1, <2>1, GiveUpInv
  <2>2. CASE Arg(t) # "other"
    <3>1. pc[t].arg[s] = "dict"
      BY <1>1, <2>2 DEF UseArgument, Frames, Arguments
    <3>2. FailureInv(Proceed(pc[t])) /\ CopyInv(Proceed(pc[t]), map', disturbed'[t])
      BY <1>1, <3>1 DEF FailureInv, CopyInv, Proceed, Frames, Scopes
    <3> QED BY <2>2, <3>2
  <2> QED BY <2>1, <2>2
<1> HIDE DEF f
<1>4. \A r \in Scopes : f.copy[r] => f.arg[r] \in Maps
  BY <1>1, <1>2 DEF IInv, TypeOK
<1> QED BY <1>1, <1>2, <1>3, <1>4, ThreadStep DEF UseArgument, IInv, TypeOK

LEMMA CopyInIInv ==
  ASSUME IInv, NEW t \in Threads, NEW s \in Scopes, CopyIn(t, s)
  PROVE  IInv'
<1> DEFINE e == [pc[t] EXCEPT !.dict[s] = map[Arg(t)], !.copy[s] = TRUE]
           f == Proceed(e)
<1>1. /\ pc[t] \in Frames /\ pc[t].at = "in" /\ pc[t].scope = s
      /\ FailureInv(pc[t]) /\ CanRun(t) /\ Go(t, f) /\ Arg(t) = pc[t].arg[s] /\ Arg(t) \in Maps
  BY DEF IInv, TypeOK, CopyIn, At, Arg
<1>2. map[Arg(t)] \in Contents
  BY <1>1 DEF IInv, TypeOK
<1>3. e \in Frames /\ e.arg = pc[t].arg /\ e.copy = [pc[t].copy EXCEPT ![s] = TRUE]
  BY <1>1, <1>2 DEF Frames
<1>4. f \in Frames /\ f.copy = e.copy /\ f.arg = e.arg
  BY <1>3, FrameSteps
<1>5. /\ f.exception = "none" /\ ~f.raised
      /\ s = "globals" => f.at = "in" /\ f.scope = "locals"
      /\ s = "locals" => f.at = "running" /\ f.scope = "globals"
  <2>1. e.at = "in" /\ e.scope = s /\ e.exception = "none" /\ ~e.raised
    BY <1>1 DEF FailureInv, Frames
  <2> QED BY <2>1, <1>3 DEF Proceed, Frames, Scopes
<1> HIDE DEF e, f
<1>6. f.copy[s] /\ \A r \in Scopes \ {s} : f.copy[r] = pc[t].copy[r]
  <2>1. pc[t].copy \in [Scopes -> BOOLEAN]
    BY <1>1 DEF Frames
  <2> QED BY <1>3, <1>4, <2>1, ExceptTrue
<1>7. FailureInv(f) /\ CopyInv(f, map', disturbed'[t])
  <2>1. f.at # "fill" /\ f.at # "out" /\ f.at # "returned"
    BY <1>5 DEF Scopes
  <2>2. CopyInv(f, map', disturbed'[t])
    BY <1>5, <2>1 DEF CopyInv, Scopes
  <2>3. CASE s = "globals"
    BY <1>1, <1>5, <1>6, <2>1, <2>2, <2>3 DEF FailureInv, Scopes
  <2>4. CASE s = "locals"
    <3>1. f.arg["globals"] # "dict" => pc[t].copy["globals"]
      BY <1>1, <1>3, <1>4, <2>4 DEF FailureInv
    <3> QED BY <1>5, <1>6, <2>1, <2>2, <2>4, <3>1 DEF FailureInv, Scopes
  <2> QED BY <2>3, <2>4 DEF Scopes
<1>8. \A r \in Scopes : f.copy[r] => f.arg[r] \in Maps
  <2>1. \A r \in Scopes : pc[t].copy[r] => pc[t].arg[r] \in Maps
    BY DEF IInv, TypeOK
  <2> QED BY <1>1, <1>3, <1>4, <1>6, <2>1
<1> QED BY <1>1, <1>4, <1>7, <1>8, ThreadStep DEF CopyIn, IInv, TypeOK, f

LEMMA RefuseMapIInv ==
  ASSUME IInv, NEW t \in Threads, NEW s \in Scopes, RefuseMap(t, s)
  PROVE  IInv'
<1> DEFINE f == GiveUp(pc[t])
<1>1. /\ pc[t] \in Frames /\ pc[t].at = "in" /\ FailureInv(pc[t]) /\ CanRun(t) /\ Go(t, f)
  BY DEF IInv, TypeOK, RefuseMap, At
<1>2. f \in Frames /\ f.copy = pc[t].copy /\ f.arg = pc[t].arg
  BY <1>1, FrameSteps
<1>3. FailureInv(f) /\ CopyInv(f, map', disturbed'[t])
  BY <1>1, GiveUpInv
<1> HIDE DEF f
<1>4. \A r \in Scopes : f.copy[r] => f.arg[r] \in Maps
  BY <1>1, <1>2 DEF IInv, TypeOK
<1> QED BY <1>1, <1>2, <1>3, <1>4, ThreadStep DEF RefuseMap, IInv, TypeOK

LEMMA RunCodeIInv ==
  ASSUME IInv, NEW t \in Threads, NEW dict \in [Scopes -> Contents],
         NEW odd \in [Scopes -> BOOLEAN], NEW raises \in BOOLEAN, RunCode(t, dict, odd, raises)
  PROVE  IInv'
<1> DEFINE f == [pc[t] EXCEPT !.at = "out", !.dict = dict, !.odd = odd, !.raised = raises,
                              !.exception = IF raises THEN "python" ELSE "none"]
<1>1. pc[t] \in Frames /\ pc[t].at = "running" /\ FailureInv(pc[t]) /\ CanRun(t) /\ Go(t, f)
  BY DEF IInv, TypeOK, RunCode
<1>2. /\ f \in Frames /\ f.copy = pc[t].copy /\ f.arg = pc[t].arg
      /\ f.at = "out" /\ f.scope = pc[t].scope
      /\ f.raised => f.exception = "python"
  BY <1>1 DEF Frames
<1> HIDE DEF f
<1>3. FailureInv(f)
  BY <1>1, <1>2 DEF FailureInv
<1>4. CopyInv(f, map', disturbed'[t])
  <2>1. CopyInv(pc[t], map, disturbed[t])
    BY DEF IInv
  <2> QED BY <1>1, <1>2, <2>1 DEF CopyInv
<1>5. \A r \in Scopes : f.copy[r] => f.arg[r] \in Maps
  BY <1>2 DEF IInv, TypeOK
<1> QED BY <1>1, <1>2, <1>3, <1>4, <1>5, ThreadStep DEF RunCode, IInv, TypeOK

\* A scope is done: its entries are in the map, if they had to be copied.
LEMMA FinishInv ==
  ASSUME NEW f \in Frames, FailureInv(f), f.at \in {"out", "fill"}, NEW mp, NEW d,
         f.scope = "globals" =>
           /\ \A m \in Maps \ (Unmodifiable \cup d) :
                "globals" \in Written(f, m) => mp[m] = Stored(m, f.dict["globals"])
           /\ GlobalsTold(f)
  PROVE  FailureInv(Finish(f)) /\ CopyInv(Finish(f), mp, d)
<1> DEFINE g == Finish(f)
<1>1. /\ g.copy = f.copy /\ g.arg = f.arg /\ g.raised = f.raised /\ g.exception = f.exception
      /\ f.scope = "globals" => g.at = "out" /\ g.scope = "locals" /\ g.dict = f.dict /\ g.odd = f.odd
      /\ f.scope = "locals" => g.at = "returned"
      /\ f.scope \in Scopes
  BY DEF Finish, Frames, Scopes
<1> HIDE DEF g
<1>2. FailureInv(g)
  BY <1>1 DEF FailureInv, Scopes
<1>3. f.scope = "globals" => \A m : Written(g, m) = Written(f, m)
  BY <1>1 DEF Written
<1>4. f.scope = "globals" => GlobalsTold(g)
  BY <1>1, <1>3 DEF GlobalsTold
<1>5. CopyInv(g, mp, d)
  BY <1>1, <1>3, <1>4 DEF CopyInv, Scopes
<1> QED BY <1>2, <1>5 DEF g

LEMMA SkipCopyIInv ==
  ASSUME IInv, NEW t \in Threads, NEW s \in Scopes, SkipCopy(t, s) \/ RefuseDict(t, s)
  PROVE  IInv'
<1> DEFINE f == Finish(pc[t])
<1>1. /\ pc[t] \in Frames /\ pc[t].at = "out" /\ pc[t].scope = s
      /\ FailureInv(pc[t]) /\ CanRun(t) /\ Go(t, f)
      /\ ~pc[t].copy[s] \/ pc[t].odd[s]
      /\ UNCHANGED <<map, disturbed, crashed>>
  BY DEF IInv, TypeOK, SkipCopy, RefuseDict, At, Odd
<1>2. f \in Frames /\ f.copy = pc[t].copy /\ f.arg = pc[t].arg
  BY <1>1, FrameSteps
<1>3. s = "globals" => \A m : "globals" \notin Written(pc[t], m)
  BY <1>1 DEF Written
<1>4. FailureInv(f) /\ CopyInv(f, map', disturbed'[t])
  BY <1>1, <1>3, FinishInv DEF GlobalsTold
<1> HIDE DEF f
<1>5. \A r \in Scopes : f.copy[r] => f.arg[r] \in Maps
  BY <1>2 DEF IInv, TypeOK
<1> QED BY <1>1, <1>2, <1>4, <1>5, ThreadStep DEF IInv, TypeOK

LEMMA RefuseClearIInv ==
  ASSUME IInv, NEW t \in Threads, NEW s \in Scopes, RefuseClear(t, s)
  PROVE  IInv'
<1> DEFINE e == Throw(pc[t])
           f == Finish(e)
<1>1. /\ pc[t] \in Frames /\ pc[t].at = "out" /\ pc[t].scope = s
      /\ FailureInv(pc[t]) /\ CanRun(t) /\ Go(t, f) /\ pc[t].arg[s] \in Unmodifiable
      /\ UNCHANGED <<map, disturbed, crashed>>
  BY DEF IInv, TypeOK, RefuseClear, At, Arg
<1>2. /\ e \in Frames /\ e.copy = pc[t].copy /\ e.arg = pc[t].arg
      /\ e.at = "out" /\ e.scope = s /\ e.raised = pc[t].raised
      /\ pc[t].exception # "none" => e.exception = pc[t].exception
  BY <1>1, FrameSteps DEF Throw, Frames
<1>3. f \in Frames /\ f.copy = e.copy /\ f.arg = e.arg
  BY <1>2, FrameSteps
<1> HIDE DEF e
<1>4. FailureInv(e)
  BY <1>1, <1>2 DEF FailureInv
<1>5. s = "globals" => \A m \in Maps \ Unmodifiable : "globals" \notin Written(e, m)
  BY <1>1, <1>2 DEF Written
<1>6. FailureInv(f) /\ CopyInv(f, map', disturbed'[t])
  BY <1>1, <1>2, <1>4, <1>5, FinishInv DEF GlobalsTold
<1> HIDE DEF f
<1>7. \A r \in Scopes : f.copy[r] => f.arg[r] \in Maps
  BY <1>2, <1>3 DEF IInv, TypeOK
<1> QED BY <1>1, <1>3, <1>6, <1>7, ThreadStep DEF IInv, TypeOK, f, e

LEMMA ClearIInv ==
  ASSUME ExecuteAssumption, IInv, NEW t \in Threads, NEW s \in Scopes, Clear(t, s)
  PROVE  IInv'
<1> DEFINE f == [pc[t] EXCEPT !.at = "fill"]
           a == pc[t].arg[s]
<1>1. /\ pc[t] \in Frames /\ pc[t].at = "out" /\ pc[t].scope = s /\ pc[t].copy[s] /\ ~pc[t].odd[s]
      /\ FailureInv(pc[t]) /\ CopyInv(pc[t], map, disturbed[t])
      /\ CanRun(t) /\ Go(t, f) /\ a \in Maps
      /\ map' = [map EXCEPT ![a] = "absent"]
      /\ disturbed' = [disturbed EXCEPT ![t] = @ \ {a}]
      /\ crashed' = crashed
  BY DEF IInv, TypeOK, Clear, At, Arg, Odd
<1>2. /\ f \in Frames /\ f.copy = pc[t].copy /\ f.arg = pc[t].arg /\ f.odd = pc[t].odd
      /\ f.dict = pc[t].dict /\ f.at = "fill" /\ f.scope = s
      /\ f.raised = pc[t].raised /\ f.exception = pc[t].exception
  BY <1>1 DEF Frames
<1> HIDE DEF f
<1>3. /\ map' \in [Maps -> Contents] /\ map'[a] = "absent"
      /\ \A m \in Maps \ {a} : map'[m] = map[m]
  BY <1>1, ContentsFacts DEF IInv, TypeOK
<1>4. disturbed' \in [Threads -> SUBSET Maps] /\ disturbed'[t] = disturbed[t] \ {a}
  BY <1>1 DEF IInv, TypeOK
<1>5. FailureInv(f)
  BY <1>1, <1>2 DEF FailureInv
<1>6. CopyInv(f, map', disturbed'[t])
  <2>1. \A m : Written(f, m) = Written(pc[t], m)
    BY <1>2 DEF Written
  <2>2. ASSUME s = "locals", NEW m \in Maps \ (Unmodifiable \cup disturbed'[t]),
               "globals" \in Written(f, m), m # a
        PROVE  map'[m] = Stored(m, f.dict["globals"])
    <3>1. m \notin disturbed[t]
      BY <1>4, <2>2
    <3> QED BY <1>1, <1>2, <1>3, <2>1, <2>2, <3>1 DEF CopyInv
  <2>3. s = "locals" => GlobalsTold(f)
    BY <1>1, <1>2, <2>1 DEF CopyInv, GlobalsTold
  <2> QED BY <1>1, <1>2, <1>3, <2>2, <2>3 DEF CopyInv
<1>7. \A r \in Scopes : f.copy[r] => f.arg[r] \in Maps
  BY <1>2 DEF IInv, TypeOK
<1> QED BY <1>1, <1>2, <1>3, <1>4, <1>5, <1>6, <1>7, ThreadStep

\* What Fill does: a map that Java has left empty gets the entries.
LEMMA FillFacts ==
  ASSUME ExecuteAssumption, IInv, NEW t \in Threads, NEW s \in Scopes, Fill(t, s)
  PROVE  /\ pc[t] \in Frames /\ pc[t].at = "fill" /\ pc[t].scope = s
         /\ pc[t].copy[s] /\ ~pc[t].odd[s] /\ pc[t].arg[s] \in Maps
         /\ FailureInv(pc[t]) /\ CopyInv(pc[t], map, disturbed[t])
         /\ CanRun(t) /\ Go(t, Finish(pc[t]))
         /\ map' \in [Maps -> Contents] /\ UNCHANGED <<disturbed, crashed>>
         /\ ~Refuses(pc[t].arg[s], pc[t].dict[s])
         /\ pc[t].arg[s] \notin disturbed[t]
              => map'[pc[t].arg[s]] = Stored(pc[t].arg[s], pc[t].dict[s])
         /\ \A m \in Maps \ {pc[t].arg[s]} : map'[m] = map[m]
<1> DEFINE a == pc[t].arg[s]
           v == IF pc[t].dict[s] = "absent" THEN map[a] ELSE ToJava(pc[t].dict[s])
<1>1. /\ pc[t] \in Frames /\ pc[t].at = "fill" /\ pc[t].scope = s
      /\ FailureInv(pc[t]) /\ CopyInv(pc[t], map, disturbed[t])
      /\ CanRun(t) /\ Go(t, Finish(pc[t]))
      /\ map' = [map EXCEPT ![a] = v] /\ ~Refuses(a, pc[t].dict[s])
      /\ UNCHANGED <<disturbed, crashed>>
  BY DEF IInv, TypeOK, Fill, At, Arg, Dict
<1>2. /\ pc[t].copy[s] /\ ~pc[t].odd[s] /\ a \in Maps
      /\ a \notin disturbed[t] => map[a] = "absent"
  BY <1>1 DEF CopyInv, IInv, TypeOK
<1>3. map \in [Maps -> Contents] /\ pc[t].dict[s] \in Contents
  BY <1>1 DEF IInv, TypeOK, Frames
<1>4. v \in Contents /\ (a \notin disturbed[t] => v = Stored(a, pc[t].dict[s]))
  BY <1>1, <1>2, <1>3, ContentsFacts, StoredFacts
<1> HIDE DEF v
<1>5. map' \in [Maps -> Contents] /\ map'[a] = v /\ \A m \in Maps \ {a} : map'[m] = map[m]
  BY <1>1, <1>2, <1>3, <1>4
<1> QED BY <1>1, <1>2, <1>4, <1>5

LEMMA FillIInv ==
  ASSUME ExecuteAssumption, IInv, NEW t \in Threads, NEW s \in Scopes, Fill(t, s)
  PROVE  IInv'
<1> DEFINE f == Finish(pc[t])
<1>1. f \in Frames /\ f.copy = pc[t].copy /\ f.arg = pc[t].arg
  BY FillFacts, FrameSteps
<1>2. ASSUME s = "globals", NEW m \in Maps \ (Unmodifiable \cup disturbed'[t]),
             "globals" \in Written(pc[t], m)
      PROVE  map'[m] = Stored(m, pc[t].dict["globals"])
  BY <1>2, FillFacts DEF Written
<1>6. s = "globals" => GlobalsTold(pc[t])
  BY FillFacts DEF GlobalsTold, Written
<1>3. FailureInv(f) /\ CopyInv(f, map', disturbed'[t])
  BY <1>2, <1>6, FillFacts, FinishInv
<1> HIDE DEF f
<1>4. \A r \in Scopes : f.copy[r] => f.arg[r] \in Maps
  BY <1>1 DEF IInv, TypeOK
<1>5. /\ map' \in [Maps -> Contents] /\ disturbed' \in [Threads -> SUBSET Maps]
      /\ CanRun(t) /\ Go(t, f) /\ crashed' = crashed
  BY FillFacts DEF f, IInv, TypeOK
<1> QED BY <1>1, <1>3, <1>4, <1>5, ThreadStep

\* What RefusePut does: the map stays as Java has left it since it was cleared.
LEMMA RefusePutFacts ==
  ASSUME ExecuteAssumption, IInv, NEW t \in Threads, NEW s \in Scopes, RefusePut(t, s)
  PROVE  /\ pc[t] \in Frames /\ pc[t].at = "fill" /\ pc[t].scope = s
         /\ pc[t].copy[s] /\ ~pc[t].odd[s] /\ pc[t].arg[s] \in Maps
         /\ FailureInv(pc[t]) /\ CopyInv(pc[t], map, disturbed[t])
         /\ CanRun(t) /\ Go(t, Finish(Throw(pc[t]))) /\ UNCHANGED <<map, disturbed, crashed>>
         /\ Throw(pc[t]).exception # "none"
         /\ pc[t].arg[s] \notin disturbed[t]
              => map[pc[t].arg[s]] = Stored(pc[t].arg[s], pc[t].dict[s])
<1>1. /\ pc[t] \in Frames /\ pc[t].at = "fill" /\ pc[t].scope = s
      /\ FailureInv(pc[t]) /\ CopyInv(pc[t], map, disturbed[t])
      /\ CanRun(t) /\ Go(t, Finish(Throw(pc[t]))) /\ UNCHANGED <<map, disturbed, crashed>>
      /\ Refuses(pc[t].arg[s], pc[t].dict[s])
  BY DEF IInv, TypeOK, RefusePut, At, Arg, Dict
<1>2. /\ pc[t].copy[s] /\ ~pc[t].odd[s] /\ pc[t].arg[s] \in Maps
      /\ pc[t].arg[s] \notin disturbed[t] => map[pc[t].arg[s]] = "absent"
  BY <1>1 DEF CopyInv, IInv, TypeOK
<1>3. pc[t].dict[s] \in Contents
  BY <1>1 DEF Frames
<1>4. Throw(pc[t]).exception # "none"
  BY <1>1 DEF Throw, Frames
<1> QED BY <1>1, <1>2, <1>3, <1>4, StoredFacts

LEMMA RefusePutIInv ==
  ASSUME ExecuteAssumption, IInv, NEW t \in Threads, NEW s \in Scopes, RefusePut(t, s)
  PROVE  IInv'
<1> DEFINE e == Throw(pc[t])
           f == Finish(e)
<1>1. /\ e \in Frames /\ e.copy = pc[t].copy /\ e.arg = pc[t].arg /\ e.odd = pc[t].odd
      /\ e.dict = pc[t].dict /\ e.at = "fill" /\ e.scope = s /\ e.raised = pc[t].raised
      /\ pc[t].exception # "none" => e.exception = pc[t].exception
      /\ e.exception # "none"
  BY RefusePutFacts, FrameSteps DEF Throw, Frames
<1> HIDE DEF e
<1>2. f \in Frames /\ f.copy = e.copy /\ f.arg = e.arg
  BY <1>1, FrameSteps
<1>3. FailureInv(e)
  BY <1>1, RefusePutFacts DEF FailureInv
<1>4. ASSUME s = "globals", NEW m \in Maps \ (Unmodifiable \cup disturbed'[t]),
             "globals" \in Written(e, m)
      PROVE  map'[m] = Stored(m, e.dict["globals"])
  BY <1>1, <1>4, RefusePutFacts DEF Written
<1>5. FailureInv(f) /\ CopyInv(f, map', disturbed'[t])
  BY <1>1, <1>3, <1>4, FinishInv DEF GlobalsTold
<1> HIDE DEF f
<1>6. \A r \in Scopes : f.copy[r] => f.arg[r] \in Maps
  BY <1>1, <1>2 DEF IInv, TypeOK
<1> QED BY <1>2, <1>5, <1>6, ThreadStep, RefusePutFacts DEF IInv, TypeOK, f, e

LEMMA ReturnIInv ==
  ASSUME IInv, NEW t \in Threads, Return(t)
  PROVE  IInv'
<1>1. Empty \in [Scopes -> Contents] /\ Neither \in [Scopes -> BOOLEAN]
  BY DEF Empty, Neither, Contents
<1>2. Idle \in Frames /\ Idle.at = "java" /\ \A s \in Scopes : ~Idle.copy[s]
  BY <1>1 DEF Idle, Frames, Scopes, Arguments, Neither
<1>3. FailureInv(Idle) /\ CopyInv(Idle, map', disturbed'[t])
  BY <1>2 DEF FailureInv, CopyInv
<1>4. disturbed' \in [Threads -> SUBSET Maps] /\ map' \in [Maps -> Contents]
  BY DEF IInv, TypeOK, Return
<1> QED BY <1>2, <1>3, <1>4, ThreadStep DEF Return

LEMMA CrashIInv ==
  ASSUME IInv, NEW t \in Threads, NEW s \in Scopes, CopyNull(t, s)
  PROVE  IInv'
<1>1. TypeOK'
  BY DEF CopyNull, IInv, TypeOK
<1>2. \A u \in Threads : FailureInv(pc[u])' /\ CopyInv(pc[u], map, disturbed[u])'
  BY DEF CopyNull, IInv, FailureInv, CopyInv, Written, GlobalsTold, Refuses, Stored, ToJava
<1> QED BY <1>1, <1>2 DEF IInv

\* A change by Java excuses a map that it has been copied to.
LEMMA PutInJavaIInv ==
  ASSUME IInv, NEW m \in Maps, NEW v \in Contents, PutInJava(m, v)
  PROVE  IInv'
<1>1. /\ map' \in [Maps -> Contents] /\ \A n \in Maps \ {m} : map'[n] = map[n]
      /\ pc' = pc /\ crashed' = crashed
  BY DEF PutInJava, IInv, TypeOK
<1>2. \A u \in Threads : disturbed'[u] = disturbed[u] \cup ({m} \cap MapsOf(u))
  BY DEF PutInJava
<1>3. disturbed' \in [Threads -> SUBSET Maps]
  BY DEF PutInJava, IInv, TypeOK
<1>4. TypeOK'
  BY <1>1, <1>3 DEF IInv, TypeOK
<1>5. ASSUME NEW u \in Threads
      PROVE  CopyInv(pc[u], map', disturbed'[u])
  <2>1. CopyInv(pc[u], map, disturbed[u])
    BY DEF IInv
  <2>2. ASSUME NEW n \in Maps, NEW s \in Scopes, pc[u].copy[s], pc[u].arg[s] = n, n \notin disturbed'[u]
        PROVE  n \notin disturbed[u] /\ map'[n] = map[n]
    <3>1. n \in MapsOf(u)
      BY <2>2 DEF MapsOf
    <3> QED BY <1>1, <1>2, <2>2, <3>1
  <2>3. CASE pc[u].at = "fill"
    <3>1. pc[u].scope \in Scopes /\ pc[u].copy[pc[u].scope] /\ pc[u].arg[pc[u].scope] \in Maps
      BY <2>1, <2>3 DEF CopyInv, IInv, TypeOK, Frames
    <3>2. pc[u].arg[pc[u].scope] \notin disturbed'[u] => map'[pc[u].arg[pc[u].scope]] = "absent"
      BY <2>1, <2>2, <2>3, <3>1 DEF CopyInv
    <3> QED BY <2>1, <2>2, <2>3, <3>2 DEF CopyInv, Written, Scopes
  <2>4. CASE pc[u].at # "fill"
    BY <2>1, <2>2, <2>4 DEF CopyInv, Written, Scopes
  <2> QED BY <2>3, <2>4
<1>6. \A u \in Threads : FailureInv(pc[u])' /\ CopyInv(pc[u], map, disturbed[u])'
  BY <1>1, <1>5 DEF IInv, FailureInv, CopyInv, Written, GlobalsTold, Refuses, Stored, ToJava
<1> QED BY <1>4, <1>6 DEF IInv

LEMMA StepIInv ==
  ASSUME ExecuteAssumption, IInv, [Next]_vars
  PROVE  IInv'
<1>1. ASSUME NEW t \in Threads, Execute(t)
      PROVE  IInv'
  BY <1>1, BeginIInv, UseArgumentIInv, CopyInIInv, RefuseMapIInv, CrashIInv, RunCodeIInv,
     SkipCopyIInv, RefuseClearIInv, ClearIInv, FillIInv, RefusePutIInv,
     ReturnIInv DEF Execute
<1>2. ASSUME NEW m \in Maps, NEW v \in Contents, PutInJava(m, v)
      PROVE  IInv'
  BY <1>2, PutInJavaIInv
<1>3. CASE UNCHANGED vars
  BY <1>3 DEF vars, IInv, TypeOK, FailureInv, CopyInv, Written, GlobalsTold, Refuses, Stored, ToJava
<1> QED BY <1>1, <1>2, <1>3 DEF Next, Down

LEMMA Invariance == Spec => []IInv
<1>1. Init => IInv
  BY InitIInv
<1>2. IInv /\ [Next]_vars => IInv'
  BY StepIInv, ExecuteAssumption
<1> QED BY <1>1, <1>2, PTL DEF Spec

-----------------------------------------------------------------------------
(* Results *)

\* The variables keep their types: frames of executeInternal copy back maps only.
THEOREM TypeCorrect == Spec => []TypeOK
<1>1. IInv => TypeOK
  BY DEF IInv
<1> QED BY <1>1, Invariance, PTL

\* Copying back, with whatever goes wrong, never hides the exception of the code or
\* that an argument could not be used.
THEOREM FirstFailure == Spec => []FirstFailureIsThrown
<1>1. IInv => FirstFailureIsThrown
  BY DEF IInv, FailureInv, FirstFailureIsThrown
<1> QED BY <1>1, Invariance, PTL

\* The steps that end t's execution.
LEMMA EndOfExecution ==
  ASSUME ExecuteAssumption, IInv, Next, NEW t \in Threads,
         pc[t].at # "returned", pc'[t].at = "returned"
  PROVE  \E s \in Scopes : \/ SkipCopy(t, s) \/ RefuseDict(t, s)
                           \/ RefuseClear(t, s) \/ Fill(t, s) \/ RefusePut(t, s)
<1> DEFINE f == pc[t]
<1>0. f \in Frames
  BY DEF IInv, TypeOK
<1>1. ASSUME NEW u \in Threads, Execute(u)
      PROVE  \E s \in Scopes : \/ SkipCopy(t, s) \/ RefuseDict(t, s)
                               \/ RefuseClear(t, s) \/ Fill(t, s) \/ RefusePut(t, s)
  <2>0. pc \in [Threads -> Frames]
    BY DEF IInv, TypeOK
  <2>1. u = t
    BY <1>1, <2>0 DEF Execute, Begin, UseArgument, CopyIn, RefuseMap, CopyNull, RunCode, SkipCopy,
         RefuseDict, RefuseClear, Clear, Fill, RefusePut, Return, Go
  <2>2. ASSUME NEW g \in Arguments, NEW l \in Arguments, Begin(t, g, l)
        PROVE  FALSE
    <3>1. pc'[t].at = "in"
      BY <2>0, <2>2 DEF Begin, Go, Idle
    <3> QED BY <3>1
  <2>3. ASSUME NEW s \in Scopes, UseArgument(t, s) \/ CopyIn(t, s) \/ RefuseMap(t, s) \/ CopyNull(t, s)
        PROVE  FALSE
    <3>1. \A e \in Frames : GiveUp(e).at = "out" /\ Proceed(e).at \in {e.at, "running"}
      BY DEF GiveUp, Proceed, Frames
    <3>2. f.at = "in"
      BY <2>3 DEF UseArgument, CopyIn, RefuseMap, CopyNull, At
    <3>3. CASE CopyIn(t, s)
      <4> DEFINE e == [pc[t] EXCEPT !.dict[s] = map[Arg(t)], !.copy[s] = TRUE]
      <4>1. map[Arg(t)] \in Contents
        BY <3>3 DEF CopyIn, IInv, TypeOK
      <4>2. e \in Frames /\ e.at = "in"
        BY <1>0, <3>2, <4>1 DEF Frames
      <4>3. pc'[t] = Proceed(e)
        BY <2>0, <3>3 DEF CopyIn, Go
      <4> HIDE DEF e
      <4> QED BY <3>1, <4>2, <4>3
    <3>4. CASE UseArgument(t, s) \/ RefuseMap(t, s)
      BY <1>0, <2>0, <3>1, <3>2, <3>4 DEF UseArgument, RefuseMap, Go
    <3>5. CASE CopyNull(t, s)
      BY <3>5 DEF CopyNull
    <3> QED BY <2>3, <3>3, <3>4, <3>5
  <2>4. ASSUME NEW dict, NEW odd, NEW raises, RunCode(t, dict, odd, raises)
        PROVE  FALSE
    <3>1. pc'[t].at = "out"
      BY <1>0, <2>0, <2>4 DEF RunCode, Go, Frames
    <3> QED BY <3>1
  <2>5. ASSUME NEW s \in Scopes, Clear(t, s)
        PROVE  FALSE
    <3>1. pc'[t].at = "fill"
      BY <1>0, <2>0, <2>5 DEF Clear, Go, Frames
    <3> QED BY <3>1
  <2>6. ~Return(t)
    BY DEF Return
  <2> QED BY <1>1, <2>1, <2>2, <2>3, <2>4, <2>5, <2>6 DEF Execute
<1>2. ASSUME NEW n \in Maps, NEW v \in Contents, PutInJava(n, v)
      PROVE  FALSE
  BY <1>2 DEF PutInJava
<1>3. ~Down
  BY DEF Down, vars
<1> QED BY <1>1, <1>2, <1>3 DEF Next

\* What a map contains when t's execution ends, and that a value it has refused is not
\* passed over.
LEMMA EndsCopied ==
  ASSUME ExecuteAssumption, IInv, Next, NEW t \in Threads,
         pc[t].at # "returned", pc'[t].at = "returned",
         NEW m \in MapsOf(t) \ Unmodifiable, Written(pc[t], m) # {}
  PROVE  /\ m \notin disturbed'[t] =>
              map'[m] = Stored(m, pc[t].dict[IF "locals" \in Written(pc[t], m)
                                             THEN "locals" ELSE "globals"])
         /\ \A s \in Written(pc[t], m) :
              Refuses(m, pc[t].dict[s]) => pc'[t].exception # "none"
<1> DEFINE f == pc[t]
<1>1. f \in Frames /\ CopyInv(f, map, disturbed[t]) /\ m \in Maps
  BY DEF IInv, TypeOK, MapsOf
<1>2. PICK s \in Scopes : \/ SkipCopy(t, s) \/ RefuseDict(t, s)
                          \/ RefuseClear(t, s) \/ Fill(t, s) \/ RefusePut(t, s)
  BY EndOfExecution
<1>3. s = "locals" /\ f.scope = "locals" /\ f.at \in {"out", "fill"}
  <2>1. f.scope = s /\ f.at \in {"out", "fill"}
    BY <1>2 DEF SkipCopy, RefuseDict, RefuseClear, Fill, RefusePut, At
  <2>2. /\ pc'[t] = Finish(f) \/ pc'[t] = Finish(Throw(f))
        /\ Throw(f) \in Frames /\ Throw(f).scope = f.scope
    <3>1. Go(t, Finish(f)) \/ Go(t, Finish(Throw(f)))
      BY <1>2 DEF SkipCopy, RefuseDict, RefuseClear, Fill, RefusePut
    <3>2. pc \in [Threads -> Frames]
      BY DEF IInv, TypeOK
    <3>3. Throw(f) \in Frames
      BY <1>1, FrameSteps
    <3>4. Throw(f).scope = f.scope
      BY <1>1 DEF Throw, Frames
    <3> HIDE DEF f
    <3> QED BY <3>1, <3>2, <3>3, <3>4 DEF Go
  <2>3. ASSUME NEW e \in Frames, e.scope = "globals"
        PROVE  Finish(e).at = "out"
    BY <2>3 DEF Finish, Frames
  <2> QED BY <1>1, <2>1, <2>2, <2>3 DEF Scopes
<1>4. disturbed' = disturbed
  BY <1>2 DEF SkipCopy, RefuseDict, RefuseClear, Fill, RefusePut
<1>5. Written(f, m) \subseteq Scopes
  BY DEF Written
<1> DEFINE fills == Fill(t, s) \/ RefusePut(t, s)
           copied == m \notin disturbed'[t] =>
                       map'[m] = Stored(m, f.dict[IF "locals" \in Written(f, m)
                                                  THEN "locals" ELSE "globals"])
<1>6. ASSUME fills, f.arg["locals"] = m
      PROVE  copied
  <2>1. "locals" \in Written(f, m)
    BY <1>3, <1>6, FillFacts, RefusePutFacts DEF Written, Scopes
  <2>2. copied
    BY <1>3, <1>4, <1>6, <2>1, FillFacts, RefusePutFacts
  <2> QED BY <2>2
<1>7. ASSUME ~(fills /\ f.arg["locals"] = m)
      PROVE  copied
  <2>1. map'[m] = map[m]
    <3>1. CASE Fill(t, s)
      BY <1>1, <1>3, <1>7, <3>1, FillFacts
    <3>2. CASE ~Fill(t, s)
      BY <1>2, <3>2 DEF SkipCopy, RefuseDict, RefuseClear, RefusePut
    <3> QED BY <3>1, <3>2
  <2>2. "locals" \notin Written(f, m)
    <3>1. CASE fills
      BY <1>7, <3>1 DEF Written
    <3>2. CASE SkipCopy(t, s)
      BY <1>3, <3>2 DEF SkipCopy, Written
    <3>3. CASE RefuseDict(t, s)
      BY <1>3, <3>3 DEF RefuseDict, Odd, Written
    <3>4. CASE RefuseClear(t, s)
      BY <1>3, <3>4 DEF RefuseClear, Arg, Written
    <3> QED BY <1>2, <3>1, <3>2, <3>3, <3>4
  <2>3. "globals" \in Written(f, m)
    BY <1>5, <2>2 DEF Scopes
  <2>4. ~(f.at = "fill" /\ f.arg["locals"] = m)
    BY <1>2, <1>3, <1>7 DEF SkipCopy, RefuseDict, RefuseClear, At
  <2>5. m \notin disturbed'[t] => map[m] = Stored(m, f.dict["globals"])
    BY <1>1, <1>3, <1>4, <2>3, <2>4 DEF CopyInv
  <2> QED BY <2>1, <2>2, <2>5
<1>8. copied
  BY <1>6, <1>7
<1>9. ASSUME NEW r \in Written(f, m), Refuses(m, f.dict[r])
      PROVE  pc'[t].exception # "none"
  <2>1. /\ pc'[t] \in {Finish(f), Finish(Throw(f))}
        /\ RefusePut(t, s) => pc'[t] = Finish(Throw(f))
    <3>1. pc \in [Threads -> Frames]
      BY DEF IInv, TypeOK
    <3> HIDE DEF f
    <3>2. pc'[t] = Finish(f) \/ pc'[t] = Finish(Throw(f))
      BY <1>2, <3>1 DEF SkipCopy, RefuseDict, RefuseClear, Fill, RefusePut, Go, f
    <3>3. RefusePut(t, s) => pc'[t] = Finish(Throw(f))
      BY <3>1 DEF RefusePut, Go, f
    <3> QED BY <3>2, <3>3
  <2>2. ASSUME NEW e \in Frames PROVE Finish(e).exception = e.exception
    BY DEF Finish, Frames
  <2>3. Throw(f) \in Frames /\ Throw(f).exception # "none"
    BY <1>1, FrameSteps DEF Throw, Frames
  <2>4. CASE r = "globals"
    <3>1. f.exception # "none"
      BY <1>1, <1>3, <1>9, <2>4 DEF CopyInv, GlobalsTold
    <3> QED BY <1>1, <2>1, <2>2, <2>3, <3>1
  <2>5. CASE r = "locals"
    <3>1. f.copy["locals"] /\ f.arg["locals"] = m /\ ~f.odd["locals"]
      BY <1>9, <2>5 DEF Written
    <3>2. ~SkipCopy(t, s) /\ ~RefuseDict(t, s)
      BY <1>3, <3>1 DEF SkipCopy, RefuseDict, Odd
    <3>3. ~RefuseClear(t, s)
      BY <1>3, <3>1 DEF RefuseClear, Arg
    <3>4. ~Fill(t, s)
      BY <1>3, <1>9, <2>5, <3>1, FillFacts
    <3> QED BY <1>2, <2>1, <2>2, <2>3, <3>2, <3>3, <3>4
  <2> QED BY <1>5, <1>9, <2>4, <2>5 DEF Scopes
<1> QED BY <1>8, <1>9

\* A step that changes a map is Java's, or that of an execution that writes to it.
LEMMA OnlyWritten ==
  ASSUME ExecuteAssumption, IInv, Next, NEW t \in Threads, pc'[t] # pc[t],
         NEW m \in Maps, map'[m] # map[m]
  PROVE  Written(pc[t], m) # {}
<1>1. PICK u \in Threads : Execute(u)
  BY DEF Next, PutInJava, Down, vars
<1>2. PICK s \in Scopes : Clear(u, s) \/ Fill(u, s)
  BY <1>1 DEF Execute, Begin, UseArgument, CopyIn, RefuseMap, CopyNull, RunCode, SkipCopy,
     RefuseDict, RefuseClear, RefusePut, Return
<1>3. u = t
  BY <1>2 DEF Clear, Fill, Go, IInv, TypeOK
<1>4. CASE Clear(t, s)
  <2>1. pc[t].arg[s] = m
    BY <1>4 DEF Clear, At, Arg, IInv, TypeOK
  <2>2. pc[t].copy[s] /\ ~pc[t].odd[s]
    BY <1>4 DEF Clear, At, Odd
  <2> QED BY <2>1, <2>2 DEF Written
<1>5. CASE Fill(t, s)
  BY <1>5, FillFacts DEF Written
<1> QED BY <1>2, <1>3, <1>4, <1>5

\* However executions and changes by Java interleave and whatever fails, what the code
\* has left is in the maps when an execution ends, or the maps are as they were, or Java
\* gets an exception because a cleared map has refused a value.
THEOREM EntriesCopied == Spec => EntriesAreCopiedBack
<1> DEFINE CopiedBack ==
      \A t \in Threads :
         LET f == pc[t] IN
         /\ f.at # "returned" /\ pc'[t].at = "returned" =>
              /\ \A m \in MapsOf(t) \ (disturbed'[t] \cup Unmodifiable) :
                   LET s == IF "locals" \in Written(f, m) THEN "locals" ELSE "globals"
                   IN Written(f, m) # {} => map'[m] = Stored(m, f.dict[s])
              /\ \A m \in MapsOf(t) \ Unmodifiable : \A s \in Written(f, m) :
                   Refuses(m, f.dict[s]) => pc'[t].exception # "none"
         /\ pc'[t] # f =>
              \A m \in Maps : map'[m] # map[m] => Written(f, m) # {}
<1>1. ASSUME IInv, [Next]_vars
      PROVE  [CopiedBack]_vars
  <2>1. CASE Next
    BY <1>1, <2>1, ExecuteAssumption, EndsCopied, OnlyWritten
  <2>2. CASE UNCHANGED vars
    BY <2>2
  <2> QED BY <1>1, <2>1, <2>2
<1> QED BY <1>1, Invariance, PTL DEF Spec, EntriesAreCopiedBack

=============================================================================
