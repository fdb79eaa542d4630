---------------------------- MODULE GilStateProofs ----------------------------
(***************************************************************************)
(* Proofs about GilState, for any threads, any nesting, any number of      *)
(* failures of getMainGlobals and any number of starts and stops.  What is *)
(* promised to careful applications is proved for a process that a JVM     *)
(* hosts.                                                                  *)
(***************************************************************************)
EXTENDS GilState, SequenceTheorems, TLAPS

JavaHosted == Host = NoThread

\* Who has the GIL, read off the program counters: the threads whose Python
\* frames are live, those that keep it since getMainGlobals failed, and the
\* starter between Py_Initialize and PyEval_SaveThread.
Owns(t) ==
  \/ pc[t] = "python"
  \/ /\ pc[t] \in {"java", "monitor", "begin", "ensure", "bare"}
     /\ CalledFromPython(t) \/ t \in kept
  \/ pc[t] \in {"init", "save"}
  \/ pc[t] = "begin" /\ ~initThreads

OwnerInv == \A t \in Threads : current = t <=> Owns(t)

\* Without an interpreter no thread is on its way into a section, and jpy is
\* imported only after JPy_InitThreads has been set.
StartInv ==
  /\ jpyModule => initThreads
  /\ starter = NoThread =>
       /\ current = NoThread
       /\ ~initThreads
       /\ \A t \in Threads :
            /\ pc[t] \notin {"begin", "init", "save", "ensure", "python"}
            /\ t \in PyThreads => pc[t] = "retake"

\* Python code runs above a section or a Python thread's bottom; sections are
\* opened when JPy_InitThreads is set, and only the starter, outside sections,
\* finds it unset.
PcInv ==
  \A t \in Threads :
    /\ pc[t] \in {"python", "retake"} => CalledFromPython(t)
    /\ pc[t] \in {"init", "save"} => ~CalledFromPython(t) /\ t \notin kept
    /\ pc[t] = "init" => ~initThreads
    /\ pc[t] \in {"save", "ensure"} => initThreads
    /\ Depth(t) > 0 \/ t \in kept => initThreads
    /\ t \in PyThreads /\ pc[t] # "retake" => initThreads
    /\ t \in kept => t \notin PyThreads /\ pc[t] # "hung"
    /\ pc[t] = "hung" => ~CalledFromPython(t)
    /\ opening[t] = "inner" /\ pc[t] \in {"begin", "init", "save", "ensure"} =>
         Depth(t) > 0

\* Only the outermost section of a Java thread that does not keep the GIL found
\* it free, and getMainGlobals' inner section is never the outermost.
FrameInv ==
  \A t \in Threads : \A i \in 1 .. Depth(t) :
    /\ frames[t][i].gil = "UNLOCKED" <=> (i = 1 /\ t \notin PyThreads \cup kept)
    /\ i = 1 => frames[t][i].kind # "inner"

\* The counter of a thread that keeps the GIL never drops to zero.
KeptInv == \A t \in kept : counter[t] > Base(t) + Depth(t)

\* What holds of careful applications.
CarefulInv ==
  /\ ~fatal
  /\ OwnerInv
  /\ StartInv
  /\ PcInv
  /\ FrameInv
  /\ KeptInv

\* Sections need an interpreter.
IdleInv == starter = NoThread => \A t \in Threads : ~(Depth(t) > 0)

\* counter counts the open sections, and those that getMainGlobals left open.
CounterInv ==
  \A t \in Threads : /\ counter[t] >= Base(t) + Depth(t)
                     /\ counter[t] <= Base(t) + Depth(t) + MaxLeaks

\* What holds of all applications.
SectionsInv == TypeOK /\ IdleInv /\ CounterInv

IInv == SectionsInv /\ (careless \/ CarefulInv)

-----------------------------------------------------------------------------
(* Sections are pushed and popped at the end of a sequence. *)

\* Opening a section (Push) adds one frame above the ones already open.
LEMMA PushFacts ==
  ASSUME NEW s \in Seq(Frames), NEW f \in Frames
  PROVE  /\ Append(s, f) \in Seq(Frames)
         /\ Len(Append(s, f)) = Len(s) + 1
         /\ \A i \in 1 .. Len(s) : Append(s, f)[i] = s[i]
         /\ Append(s, f)[Len(s) + 1] = f
  BY AppendProperties

\* Closing a section (Pop) removes that frame and no other.
LEMMA PopFacts ==
  ASSUME NEW s \in Seq(Frames), Len(s) > 0
  PROVE  /\ SubSeq(s, 1, Len(s) - 1) \in Seq(Frames)
         /\ Len(SubSeq(s, 1, Len(s) - 1)) = Len(s) - 1
         /\ \A i \in 1 .. Len(s) - 1 : SubSeq(s, 1, Len(s) - 1)[i] = s[i]
  <1> DEFINE n == Len(s)
             r == SubSeq(s, 1, n - 1)
  <1>1. n \in Nat /\ n > 0
    BY LenProperties
  <1>2. \A i \in 1 .. n - 1 : s[i] \in Frames
    BY <1>1, ElementOfSeq
  <1>3. /\ r \in Seq(Frames)
        /\ Len(r) = IF 1 <= n - 1 THEN n - 1 - 1 + 1 ELSE 0
        /\ \A i \in 1 .. n - 1 - 1 + 1 : r[i] = s[1 + i - 1]
    <2>1. 1 \in Int /\ n - 1 \in Int
      BY <1>1
    <2>2. QED
      BY <2>1, <1>2, SubSeqProperties
  <1>4. r \in Seq(Frames) /\ Len(r) = n - 1 /\ \A i \in 1 .. n - 1 : r[i] = s[i]
    <2> HIDE DEF n, r
    <2>1. (IF 1 <= n - 1 THEN n - 1 - 1 + 1 ELSE 0) = n - 1
      BY <1>1
    <2>2. \A i \in 1 .. n - 1 : i \in 1 .. n - 1 - 1 + 1 /\ 1 + i - 1 = i
      BY <1>1
    <2>3. QED
      BY <2>1, <2>2, <1>3
  <1>5. QED
    BY <1>4

\* The number of open sections of a thread is a number.
LEMMA DepthNat == TypeOK => \A t \in Threads : Depth(t) \in Nat
  BY LenProperties DEF TypeOK, Depth

\* What CPython starts a counter from is 0 or 1.
LEMMA BaseNat == \A t \in Threads : Base(t) \in Nat /\ (t \in PyThreads => Base(t) = 1)
  BY DEF Base

-----------------------------------------------------------------------------
(* What a step does to the sections of its thread and of the others *)

\* Opening a section adds one above those that are open.
LEMMA PushedFrames ==
  ASSUME TypeOK, NEW t \in Threads, Push(t)
  PROVE  /\ frames' \in [Threads -> Seq(Frames)]
         /\ Depth(t)' = Depth(t) + 1 /\ Depth(t) \in Nat
         /\ \A i \in 1 .. Depth(t) : frames'[t][i] = frames[t][i]
         /\ frames'[t][Depth(t) + 1].gil = IF current = t THEN "LOCKED" ELSE "UNLOCKED"
         /\ frames'[t][Depth(t) + 1].kind = opening[t]
         /\ \A u \in Threads \ {t} : frames'[u] = frames[u] /\ Depth(u)' = Depth(u)
  <1> DEFINE f == [gil  |-> IF current = t THEN "LOCKED" ELSE "UNLOCKED",
                   kind |-> opening[t]]
  <1>1. /\ f \in Frames /\ f.kind = opening[t]
        /\ f.gil = IF current = t THEN "LOCKED" ELSE "UNLOCKED"
    BY DEF Frames, GilStates, TypeOK
  <1>2. frames[t] \in Seq(Frames) /\ Depth(t) \in Nat
    BY DepthNat DEF TypeOK
  <1>3. frames' = [frames EXCEPT ![t] = Append(frames[t], f)]
    BY DEF Push
  <1> HIDE DEF f
  <1>4. frames' \in [Threads -> Seq(Frames)]
    BY <1>1, <1>2, <1>3, PushFacts DEF TypeOK
  <1>5. /\ Depth(t)' = Depth(t) + 1
        /\ \A i \in 1 .. Depth(t) : frames'[t][i] = frames[t][i]
        /\ frames'[t][Depth(t) + 1] = f
    BY <1>1, <1>2, <1>3, PushFacts DEF Depth, TypeOK
  <1>6. \A u \in Threads \ {t} : frames'[u] = frames[u] /\ Depth(u)' = Depth(u)
    BY <1>3 DEF Depth, TypeOK
  <1>7. QED
    BY <1>1, <1>2, <1>4, <1>5, <1>6

\* Closing the innermost section leaves those below it.
LEMMA PoppedFrames ==
  ASSUME TypeOK, NEW t \in Threads, Depth(t) > 0, Pop(t)
  PROVE  /\ frames' \in [Threads -> Seq(Frames)]
         /\ Depth(t) \in Nat /\ Depth(t)' = Depth(t) - 1
         /\ \A i \in 1 .. Depth(t) - 1 : frames'[t][i] = frames[t][i]
         /\ \A u \in Threads \ {t} : frames'[u] = frames[u] /\ Depth(u)' = Depth(u)
  <1>1. frames[t] \in Seq(Frames) /\ Depth(t) \in Nat
    BY DepthNat DEF TypeOK
  <1>2. /\ frames' = [frames EXCEPT ![t] = SubSeq(frames[t], 1, Depth(t) - 1)]
        /\ frames' \in [Threads -> Seq(Frames)]
    BY <1>1, PopFacts DEF Pop, Depth, TypeOK
  <1>3. /\ Depth(t)' = Depth(t) - 1
        /\ \A i \in 1 .. Depth(t) - 1 : frames'[t][i] = frames[t][i]
    BY <1>1, <1>2, PopFacts DEF Depth, TypeOK
  <1>4. \A u \in Threads \ {t} : frames'[u] = frames[u] /\ Depth(u)' = Depth(u)
    BY <1>2 DEF Depth, TypeOK
  <1>5. QED
    BY <1>1, <1>2, <1>3, <1>4

\* The steps that open and close no section and leave the interpreter as it is.
SameSections == UNCHANGED <<counter, frames, starter>>

LEMMA SameSectionsFacts ==
  ASSUME SectionsInv, SameSections
  PROVE  /\ \A u \in Threads : Depth(u)' = Depth(u) /\ Base(u)' = Base(u)
         /\ IdleInv' /\ CounterInv'
         /\ FrameInv /\ kept' = kept => FrameInv'
         /\ KeptInv /\ kept' = kept => KeptInv'
  <1> USE DEF SectionsInv, SameSections
  <1>1. \A u \in Threads : Depth(u)' = Depth(u) /\ Base(u)' = Base(u)
    BY DEF Depth, Base
  <1>2. IdleInv'
    BY <1>1 DEF IdleInv
  <1>3. CounterInv'
    BY <1>1 DEF CounterInv
  <1>4. FrameInv /\ kept' = kept => FrameInv'
    BY <1>1 DEF FrameInv
  <1>5. KeptInv /\ kept' = kept => KeptInv'
    BY <1>1 DEF KeptInv, TypeOK
  <1>6. QED
    BY <1>1, <1>2, <1>3, <1>4, <1>5

\* A thread of Threads stays where it is when another one moves.
LEMMA GotoFacts ==
  ASSUME TypeOK, NEW t \in Threads, NEW label \in PCs, Goto(t, label)
  PROVE  /\ pc' \in [Threads -> PCs] /\ pc'[t] = label
         /\ \A u \in Threads \ {t} : pc'[u] = pc[u]
  BY DEF Goto, TypeOK

-----------------------------------------------------------------------------
(* Initially *)

LEMMA NoSections ==
  Init => \A t \in Threads : Depth(t) = 0 /\ ~(Depth(t) > 0) /\ 1 .. Depth(t) = {}
  <1> SUFFICES ASSUME Init, NEW t \in Threads
               PROVE  Depth(t) = 0 /\ ~(Depth(t) > 0) /\ 1 .. Depth(t) = {}
    OBVIOUS
  <1>1. frames[t] = <<>>
    BY DEF Init
  <1>2. Depth(t) = 0
    BY <1>1, EmptySeq DEF Depth
  <1>3. QED
    BY <1>2

LEMMA InitSections == Init => SectionsInv
  <1> SUFFICES ASSUME Init PROVE SectionsInv
    OBVIOUS
  <1> USE DEF Init
  <1>1. TypeOK
    <2>1. counter \in [Threads -> Nat] /\ pc \in [Threads -> PCs]
          /\ opening \in [Threads -> Kinds]
      BY DEF PCs, Kinds
    <2>2. frames \in [Threads -> Seq(Frames)]
      BY EmptySeq
    <2>3. monitor \in [owner : Threads \cup {NoThread}, depth : Nat]
      BY DEF NoMonitor
    <2>4. Host \in Threads \cup {NoThread} /\ jpyModule \in BOOLEAN
      BY ThreadsAssumption
    <2>5. QED
      BY <2>1, <2>2, <2>3, <2>4 DEF TypeOK
  <1>2. \A t \in Threads : Depth(t) = 0 /\ ~(Depth(t) > 0)
    BY NoSections
  <1>3. \A t \in Threads : counter[t] = Base(t)
    BY ThreadsAssumption DEF Base
  <1>4. IdleInv
    BY <1>2 DEF IdleInv
  <1>5. CounterInv
    <2>1. ASSUME NEW t \in Threads
          PROVE  /\ counter[t] >= Base(t) + Depth(t)
                 /\ counter[t] <= Base(t) + Depth(t) + MaxLeaks
      BY <1>2, <1>3, BaseNat, BoundsAssumption
    <2>2. QED
      BY <2>1 DEF CounterInv
  <1>6. QED
    BY <1>1, <1>4, <1>5 DEF SectionsInv

LEMMA InitCareful == JavaHosted /\ Init => CarefulInv
  <1> SUFFICES ASSUME JavaHosted, Init PROVE CarefulInv
    OBVIOUS
  <1>1. /\ current = NoThread /\ current \notin Threads /\ ~fatal /\ ~initThreads
        /\ ~jpyModule /\ kept = {}
        /\ \A t \in Threads \ PyThreads : pc[t] = "java"
        /\ \A t \in PyThreads : pc[t] = "retake"
    BY ThreadsAssumption DEF Init, JavaHosted
  <1>2. \A t \in Threads : Depth(t) = 0 /\ ~(Depth(t) > 0) /\ 1 .. Depth(t) = {}
    BY NoSections
  <1>3. OwnerInv
    BY <1>1, <1>2 DEF OwnerInv, Owns, CalledFromPython
  <1>4. StartInv /\ PcInv
    BY <1>1, <1>2 DEF StartInv, PcInv, CalledFromPython
  <1>5. FrameInv /\ KeptInv
    BY <1>1, <1>2 DEF FrameInv, KeptInv
  <1>6. QED
    BY <1>1, <1>3, <1>4, <1>5 DEF CarefulInv

-----------------------------------------------------------------------------
(* Steps, of all applications *)

\* The counter of t and its sections move together; another thread's do not.
LEMMA CounterMoves ==
  ASSUME SectionsInv, NEW t \in Threads, starter' = starter,
         \/ /\ Push(t) /\ counter' = [counter EXCEPT ![t] = @ + 1]
         \/ /\ Depth(t) > 0 /\ Pop(t) /\ counter' = [counter EXCEPT ![t] = @ - 1]
         \/ /\ Depth(t) > 0 /\ Pop(t) /\ counter' = counter
            /\ counter[t] < Base(t) + Depth(t) + MaxLeaks
  PROVE  /\ frames' \in [Threads -> Seq(Frames)]
         /\ counter' \in [Threads -> Nat]
         /\ CounterInv'
         /\ \A u \in Threads : Base(u)' = Base(u)
         /\ \A u \in Threads \ {t} : Depth(u)' = Depth(u)
  <1> USE DEF SectionsInv
  <1>1. /\ frames' \in [Threads -> Seq(Frames)]
        /\ \A u \in Threads \ {t} : Depth(u)' = Depth(u)
        /\ Depth(t) \in Nat
    BY PushedFrames, PoppedFrames
  <1>2. \A u \in Threads : Base(u)' = Base(u)
    BY DEF Base
  <1> DEFINE c == counter[t]
             b == Base(t)
             d == Depth(t)
             e == Depth(t)'
  <1>3. c \in Nat /\ b \in Nat /\ d \in Nat /\ MaxLeaks \in Nat
        /\ c >= b + d /\ c <= b + d + MaxLeaks
    BY <1>1, BaseNat, BoundsAssumption DEF TypeOK, CounterInv
  <1>4. /\ \A u \in Threads \ {t} : counter'[u] = counter[u]
        /\ \/ e = d + 1 /\ counter'[t] = c + 1
           \/ e = d - 1 /\ counter'[t] = c - 1 /\ d > 0
           \/ e = d - 1 /\ counter'[t] = c /\ d > 0 /\ c < b + d + MaxLeaks
    BY PushedFrames, PoppedFrames DEF TypeOK
  <1> HIDE DEF c, b, d, e
  <1>5. /\ counter'[t] \in Nat
        /\ counter'[t] >= b + e /\ counter'[t] <= b + e + MaxLeaks
    BY <1>3, <1>4
  <1>6. counter' \in [Threads -> Nat]
    BY <1>4, <1>5 DEF TypeOK
  <1>7. CounterInv'
    <2>1. ASSUME NEW u \in Threads
          PROVE  /\ counter'[u] >= Base(u)' + Depth(u)'
                 /\ counter'[u] <= Base(u)' + Depth(u)' + MaxLeaks
      <3>1. CASE u = t
        BY <3>1, <1>2, <1>5 DEF b, e
      <3>2. CASE u # t
        BY <3>2, <1>1, <1>2, <1>4 DEF CounterInv
      <3>3. QED
        BY <3>1, <3>2
    <2>2. QED
      BY <2>1 DEF CounterInv
  <1>8. QED
    BY <1>1, <1>2, <1>6, <1>7

\* Where the end of a section takes its thread.
LEMMA ContinueFacts ==
  ASSUME TypeOK, NEW t \in Threads, Continue(t)
  PROVE  /\ pc' \in [Threads -> PCs] /\ opening' \in [Threads -> Kinds]
         /\ \A u \in Threads \ {t} : pc'[u] = pc[u] /\ opening'[u] = opening[u]
         /\ \/ pc'[t] = "python" /\ Top(t).kind = "inner"
            \/ pc'[t] \in {"java", "bare"}
            \/ pc'[t] = "begin" /\ opening'[t] = "import"
  BY DEF Continue, Open, Goto, InSection, TypeOK, PCs, Kinds

\* Stopping Python leaves no section, no thread state but those of future
\* Python threads, and no interpreter.
LEMMA StopPythonSections ==
  ASSUME SectionsInv, NEW t \in Threads, StopPython(t)
  PROVE  /\ SectionsInv'
         /\ \A u \in Threads : Depth(u)' = 0 /\ ~(Depth(u)' > 0)
  <1> USE DEF SectionsInv, StopPython
  <1>1. /\ frames' = [u \in Threads |-> <<>>] /\ frames' \in [Threads -> Seq(Frames)]
        /\ \A u \in Threads : frames'[u] = <<>>
    BY EmptySeq
  <1>2. \A u \in Threads : Depth(u)' = 0 /\ ~(Depth(u)' > 0)
    BY <1>1, EmptySeq DEF Depth
  <1>3. counter' \in [Threads -> Nat] /\ pc' \in [Threads -> PCs]
    BY DEF TypeOK, PCs
  <1>4. \A u \in Threads : counter'[u] = Base(u)'
    BY ThreadsAssumption DEF Base
  <1>5. TypeOK'
    BY <1>1, <1>3 DEF TypeOK
  <1>6. CounterInv'
    <2>1. ASSUME NEW u \in Threads
          PROVE  /\ counter'[u] >= Base(u)' + Depth(u)'
                 /\ counter'[u] <= Base(u)' + Depth(u)' + MaxLeaks
      <3>1. counter'[u] \in Nat
        BY <1>3
      <3>2. QED
        BY <3>1, <1>2, <1>4, BoundsAssumption
    <2>2. QED
      BY <2>1 DEF CounterInv
  <1>7. QED
    BY <1>2, <1>5, <1>6 DEF IdleInv

\* Py_Initialize makes a thread state for its thread.
LEMMA StartPythonSections ==
  ASSUME SectionsInv, NEW t \in Threads, StartPython(t)
  PROVE  /\ SectionsInv'
         /\ \A u \in Threads : Depth(u)' = Depth(u)
         /\ \A u \in Threads \ {t} : Base(u)' = Base(u)
         /\ pc' \in [Threads -> PCs] /\ pc[t] = "java" /\ pc'[t] = "begin"
         /\ \A u \in Threads \ {t} : pc'[u] = pc[u] /\ opening'[u] = opening[u]
         /\ opening'[t] # "inner"
  <1> USE DEF SectionsInv, StartPython
  <1>1. /\ pc' \in [Threads -> PCs] /\ pc'[t] = "begin"
        /\ opening' \in [Threads -> Kinds] /\ opening'[t] # "inner"
        /\ \A u \in Threads \ {t} : pc'[u] = pc[u] /\ opening'[u] = opening[u]
    BY DEF Open, Goto, TypeOK, PCs, Kinds
  <1>2. \A u \in Threads : Depth(u)' = Depth(u)
    BY DEF Depth
  <1>9. /\ counter' \in [Threads -> Nat]
        /\ starter' \in Threads /\ current' \in Threads \cup {NoThread}
        /\ careless' \in BOOLEAN
        /\ \A u \in Threads \ {t} : /\ counter'[u] = counter[u]
                                    /\ u = starter' <=> u = starter
    <2>1. CASE starter = NoThread
      <3>1. /\ starter' = t /\ current' = t /\ careless' = careless
            /\ counter' = [counter EXCEPT ![t] = 1]
        BY <2>1
      <3>2. QED
        BY <3>1, <2>1, ThreadsAssumption DEF TypeOK
    <2>2. CASE starter # NoThread
      <3>1. /\ UNCHANGED <<starter, current, counter>>
            /\ careless' = (careless \/ ~initThreads)
        BY <2>2
      <3>2. QED
        BY <3>1, <2>2 DEF TypeOK
    <2>3. QED
      BY <2>1, <2>2
  <1>3. TypeOK'
    BY <1>1, <1>9 DEF TypeOK
  <1>4. \A u \in Threads \ {t} : Base(u)' = Base(u) /\ counter'[u] = counter[u]
    BY <1>9 DEF Base
  <1>5. /\ counter'[t] >= Base(t)' + Depth(t)'
        /\ counter'[t] <= Base(t)' + Depth(t)' + MaxLeaks
    <2>1. CASE starter = NoThread
      <3>1. Depth(t) = 0
        BY <2>1, DepthNat DEF IdleInv
      <3>2. counter'[t] = 1 /\ Base(t)' = 1
        BY <2>1 DEF Base, TypeOK
      <3>3. QED
        BY <3>1, <3>2, <1>2, BoundsAssumption
    <2>2. CASE starter # NoThread
      BY <2>2, <1>2 DEF CounterInv, Base
    <2>3. QED
      BY <2>1, <2>2
  <1>6. CounterInv'
    <2>1. ASSUME NEW u \in Threads, u # t
          PROVE  /\ counter'[u] >= Base(u)' + Depth(u)'
                 /\ counter'[u] <= Base(u)' + Depth(u)' + MaxLeaks
      BY <2>1, <1>2, <1>4 DEF CounterInv
    <2>2. QED
      BY <2>1, <1>5 DEF CounterInv
  <1>7. IdleInv'
    BY <1>2, ThreadsAssumption DEF IdleInv
  <1>8. QED
    BY <1>1, <1>2, <1>3, <1>4, <1>6, <1>7

\* The steps that open and close no section.
Quiet(t) ==
  \/ ImportJpy(t) \/ CallNative(t) \/ MainGlobals(t) \/ TestInitThreads(t)
  \/ SetInitThreads(t) \/ SaveThread(t) \/ CallBare(t) \/ ReturnBare(t)
  \/ CallJava(t) \/ ReturnToPython(t) \/ Yield(t) \/ Retake(t)
  \/ RequestMonitor(t) \/ EnterMonitor(t) \/ ExitMonitor(t)

LEMMA QuietSections ==
  ASSUME SectionsInv, NEW t \in Threads, Quiet(t)
  PROVE  SectionsInv' /\ SameSections /\ kept' = kept /\ (careless => careless')
  <1> USE DEF SectionsInv
  <1>1. SameSections /\ kept' = kept
    BY DEF Quiet, ImportJpy, CallNative, MainGlobals, TestInitThreads, SetInitThreads,
           SaveThread, CallBare, ReturnBare, CallJava, ReturnToPython, Yield, Retake,
           RequestMonitor, EnterMonitor, ExitMonitor, Die, SameSections
  <1>2. pc' \in [Threads -> PCs] /\ opening' \in [Threads -> Kinds]
    BY DEF Quiet, ImportJpy, CallNative, MainGlobals, TestInitThreads, SetInitThreads,
           SaveThread, CallBare, ReturnBare, CallJava, ReturnToPython, Yield, Retake,
           RequestMonitor, EnterMonitor, ExitMonitor, Die, Goto, Open, TypeOK, PCs,
           Kinds
  <1>3. /\ current' \in Threads \cup {NoThread} /\ initThreads' \in BOOLEAN
        /\ jpyModule' \in BOOLEAN /\ fatal' \in BOOLEAN /\ careless' \in BOOLEAN
    BY DEF Quiet, ImportJpy, CallNative, MainGlobals, TestInitThreads, SetInitThreads,
           SaveThread, CallBare, ReturnBare, CallJava, ReturnToPython, Yield, Retake,
           RequestMonitor, EnterMonitor, ExitMonitor, Die, TypeOK, Running
  <1>4. monitor' \in [owner : Threads \cup {NoThread}, depth : Nat]
    <2>1. CASE EnterMonitor(t)
      BY <2>1, DepthNat DEF EnterMonitor
    <2>2. CASE ~EnterMonitor(t)
      BY <2>2 DEF Quiet, ImportJpy, CallNative, MainGlobals, TestInitThreads,
           SetInitThreads, SaveThread, CallBare, ReturnBare, CallJava, ReturnToPython,
           Yield, Retake, RequestMonitor, ExitMonitor, Die, TypeOK, NoMonitor
    <2>3. QED
      BY <2>1, <2>2
  <1>5. TypeOK'
    BY <1>1, <1>2, <1>3, <1>4 DEF TypeOK, SameSections
  <1>6. careless => careless'
    BY Zenon DEF Quiet, ImportJpy, CallNative, MainGlobals, TestInitThreads,
           SetInitThreads, SaveThread, CallBare, ReturnBare, CallJava, ReturnToPython,
           Yield, Retake, RequestMonitor, EnterMonitor, ExitMonitor, Die
  <1>7. QED
    BY <1>1, <1>5, <1>6, SameSectionsFacts

\* The steps that open or close one: the counter goes with them.
LEMMA LoudSections ==
  ASSUME SectionsInv, NEW t \in Threads,
         Ensure(t) \/ EndSection(t) \/ MainGlobalsFails(t)
  PROVE  SectionsInv' /\ careless' = careless
  <1> USE DEF SectionsInv
  <1>1. CASE fatal' /\ UNCHANGED <<current, counter, initThreads, pc, opening,
                       frames, starter, jpyModule, monitor, kept, careless>>
    <2>1. TypeOK' /\ SameSections
      BY <1>1 DEF TypeOK, SameSections
    <2>2. QED
      BY <2>1, <1>1, SameSectionsFacts
  <1>2. CASE Ensure(t) /\ ~Die
    <2>1. /\ Push(t) /\ counter' = [counter EXCEPT ![t] = @ + 1] /\ starter # NoThread
          /\ current' = t /\ Goto(t, "python")
          /\ opening' = [opening EXCEPT ![t] = "method"]
          /\ UNCHANGED <<initThreads, starter, jpyModule, monitor, fatal, kept,
                         careless>>
      BY <1>2 DEF Ensure
    <2>2. TypeOK'
      BY <2>1, CounterMoves DEF TypeOK, Goto, PCs, Kinds
    <2>3. QED
      BY <2>1, <2>2, CounterMoves DEF IdleInv
  <1>3. CASE EndSection(t) /\ ~Die
    <2>1. /\ Depth(t) > 0 /\ Release(t) /\ Continue(t)
          /\ UNCHANGED <<initThreads, starter, jpyModule, monitor, fatal, kept,
                         careless>>
      BY <1>3 DEF EndSection
    <2>2. Pop(t) /\ counter' = [counter EXCEPT ![t] = @ - 1]
          /\ current' \in Threads \cup {NoThread}
      BY <2>1 DEF Release
    <2>3. TypeOK'
      BY <2>1, <2>2, CounterMoves, ContinueFacts DEF TypeOK
    <2>4. starter # NoThread
      BY <2>1 DEF IdleInv
    <2>5. QED
      BY <2>1, <2>2, <2>3, <2>4, CounterMoves DEF IdleInv
  <1>4. CASE MainGlobalsFails(t)
    <2>1. /\ Depth(t) > 0 /\ Pop(t) /\ counter[t] < Base(t) + Depth(t) + MaxLeaks
          /\ UNCHANGED <<current, counter, initThreads, opening, starter, jpyModule,
                         monitor, fatal, careless>>
      BY <1>4 DEF MainGlobalsFails, InSection
    <2>2. pc' \in [Threads -> PCs] /\ kept' \in SUBSET Threads
      BY <1>4 DEF MainGlobalsFails, Goto, TypeOK, PCs
    <2>3. TypeOK'
      BY <2>1, <2>2, CounterMoves DEF TypeOK
    <2>4. starter # NoThread
      BY <2>1 DEF IdleInv
    <2>5. QED
      BY <2>1, <2>3, <2>4, CounterMoves DEF IdleInv
  <1>5. QED
    BY <1>1, <1>2, <1>3, <1>4 DEF Die, Ensure, EndSection

LEMMA StepKinds ==
  ASSUME NEW t \in Threads, Step(t)
  PROVE  \/ Quiet(t) \/ StartPython(t) \/ StopPython(t)
         \/ Ensure(t) \/ EndSection(t) \/ MainGlobalsFails(t)
  BY DEF Step, Quiet

\* What is said of all applications is inductive, and no application becomes
\* careful again.
LEMMA StepSections ==
  ASSUME SectionsInv, NEW t \in Threads, Step(t)
  PROVE  SectionsInv' /\ (careless => careless')
  <1>1. CASE Quiet(t)
    BY <1>1, QuietSections
  <1>2. CASE StartPython(t)
    BY <1>2, StartPythonSections DEF StartPython
  <1>3. CASE StopPython(t)
    BY <1>3, StopPythonSections DEF StopPython
  <1>4. CASE Ensure(t) \/ EndSection(t) \/ MainGlobalsFails(t)
    BY <1>4, LoudSections
  <1>5. QED
    BY <1>1, <1>2, <1>3, <1>4, StepKinds

-----------------------------------------------------------------------------
(* Steps of careful applications *)

\* A thread that owns nothing still owns nothing when another thread moves, and
\* JPy_InitThreads is not reset.
LEMMA OthersDoNotOwn ==
  ASSUME NEW u \in Threads, ~Owns(u), pc'[u] = pc[u], Depth(u)' = Depth(u),
         u \in kept' <=> u \in kept, initThreads => initThreads'
  PROVE  ~Owns(u)'
  BY DEF Owns, CalledFromPython

\* The steps that move t between Java code, a monitor, a native method without
\* brackets, the entry of one with brackets and Python code.
LEMMA MoveCareful ==
  ASSUME SectionsInv, CarefulInv, NEW t \in Threads, NEW label \in PCs,
         Goto(t, label), SameSections,
         UNCHANGED <<current, initThreads, jpyModule, kept, fatal>>,
         \A u \in Threads \ {t} : opening'[u] = opening[u],
         pc[t] \in {"java", "monitor", "python", "bare"},
         label \in {"java", "monitor", "begin", "python", "bare"},
         label = "begin" => /\ initThreads
                            /\ opening'[t] = "inner" => Depth(t) > 0,
         label = "python" => CalledFromPython(t)
  PROVE  CarefulInv'
  <1> USE DEF CarefulInv
  <1>1. /\ \A u \in Threads : Depth(u)' = Depth(u) /\ Base(u)' = Base(u)
        /\ FrameInv' /\ KeptInv'
    BY SameSectionsFacts
  <1>2. pc'[t] = label /\ \A u \in Threads \ {t} : pc'[u] = pc[u]
    BY GotoFacts DEF SectionsInv
  <1>3. pc[t] = "python" => CalledFromPython(t)
    BY DEF PcInv
  <1>4. OwnerInv'
    <2>1. ASSUME NEW u \in Threads PROVE Owns(u) <=> Owns(u)'
      <3>1. CASE u # t
        BY <3>1, <1>1, <1>2 DEF Owns, CalledFromPython
      <3>2. CASE u = t
        BY <3>2, <1>1, <1>2, <1>3 DEF Owns, CalledFromPython
      <3>3. QED
        BY <3>1, <3>2
    <2>2. QED
      BY <2>1 DEF OwnerInv
  <1>5. StartInv'
    <2>1. starter = NoThread => t \notin PyThreads /\ ~CalledFromPython(t)
      BY DEF StartInv, IdleInv, SectionsInv, CalledFromPython
    <2>2. QED
      BY <2>1, <1>2 DEF StartInv, SameSections
  <1>6. PcInv'
    <2>1. ASSUME NEW u \in Threads, u # t PROVE PcInv!(u)'
      BY <2>1, <1>1, <1>2 DEF PcInv, CalledFromPython
    <2>2. PcInv!(t)'
      BY <1>1, <1>2 DEF PcInv, CalledFromPython
    <2>3. QED
      BY <2>1, <2>2 DEF PcInv
  <1>7. QED
    BY <1>1, <1>4, <1>5, <1>6

\* JPy_InitThreads is found unset by the owner of the GIL, outside sections.
LEMMA TestCareful ==
  ASSUME SectionsInv, CarefulInv, NEW t \in Threads, TestInitThreads(t)
  PROVE  CarefulInv'
  <1> USE DEF CarefulInv, TestInitThreads
  <1>1. /\ \A u \in Threads : Depth(u)' = Depth(u) /\ Base(u)' = Base(u)
        /\ FrameInv' /\ KeptInv'
    BY SameSectionsFacts DEF SameSections
  <1>2. /\ pc[t] = "begin" /\ pc'[t] = IF initThreads THEN "ensure" ELSE "init"
        /\ \A u \in Threads \ {t} : pc'[u] = pc[u]
    BY GotoFacts DEF SectionsInv, PCs
  <1>3. ~initThreads => ~CalledFromPython(t) /\ t \notin kept
    BY <1>2 DEF PcInv, CalledFromPython
  <1>4. OwnerInv'
    <2>1. ASSUME NEW u \in Threads PROVE Owns(u) <=> Owns(u)'
      BY <1>1, <1>2, <1>3 DEF Owns, CalledFromPython
    <2>2. QED
      BY <2>1 DEF OwnerInv
  <1>5. StartInv'
    BY <1>2 DEF StartInv
  <1>6. PcInv'
    BY <1>1, <1>2, <1>3 DEF PcInv, CalledFromPython
  <1>7. QED
    BY <1>1, <1>4, <1>5, <1>6

\* The starter sets it: no other thread is between the test and the setting.
LEMMA SetCareful ==
  ASSUME SectionsInv, CarefulInv, NEW t \in Threads, SetInitThreads(t)
  PROVE  CarefulInv'
  <1> USE DEF CarefulInv, SetInitThreads
  <1>1. /\ \A u \in Threads : Depth(u)' = Depth(u) /\ Base(u)' = Base(u)
        /\ FrameInv' /\ KeptInv'
    BY SameSectionsFacts DEF SameSections
  <1>2. /\ pc[t] = "init" /\ pc'[t] = "save" /\ initThreads'
        /\ \A u \in Threads \ {t} : pc'[u] = pc[u]
    BY GotoFacts DEF SectionsInv, PCs
  <1>3. current = t /\ \A u \in Threads \ {t} : ~Owns(u)
    BY <1>2 DEF OwnerInv, Owns
  <1>4. \A u \in Threads \ {t} : pc[u] # "init"
    BY <1>3 DEF Owns
  <1>5. OwnerInv'
    <2>1. ASSUME NEW u \in Threads, u # t PROVE ~Owns(u)'
      BY <2>1, <1>1, <1>2, <1>3, OthersDoNotOwn
    <2>2. Owns(t)'
      BY <1>2 DEF Owns
    <2>3. QED
      BY <2>1, <2>2, <1>3 DEF OwnerInv
  <1>6. StartInv'
    BY <1>2 DEF StartInv
  <1>7. PcInv'
    BY <1>1, <1>2, <1>4 DEF PcInv, CalledFromPython
  <1>8. QED
    BY <1>1, <1>5, <1>6, <1>7

\* PyEval_SaveThread finds the starter's thread state, and is no fatal error.
LEMMA SaveCareful ==
  ASSUME SectionsInv, CarefulInv, NEW t \in Threads, SaveThread(t)
  PROVE  CarefulInv'
  <1> USE DEF CarefulInv, SaveThread
  <1>1. current = t /\ current # NoThread
    BY ThreadsAssumption DEF OwnerInv, Owns
  <1>2. /\ \A u \in Threads : Depth(u)' = Depth(u) /\ Base(u)' = Base(u)
        /\ FrameInv' /\ KeptInv'
    BY <1>1, SameSectionsFacts DEF SameSections
  <1>3. /\ pc[t] = "save" /\ pc'[t] = "ensure" /\ current' = NoThread
        /\ \A u \in Threads \ {t} : pc'[u] = pc[u]
        /\ UNCHANGED <<initThreads, jpyModule, starter, kept, opening, fatal>>
    BY <1>1, GotoFacts DEF SectionsInv, PCs
  <1>4. initThreads /\ ~CalledFromPython(t) /\ t \notin kept
    BY <1>3 DEF PcInv
  <1>5. OwnerInv'
    <2>1. ASSUME NEW u \in Threads, u # t PROVE ~Owns(u)'
      <3>1. ~Owns(u)
        BY <2>1, <1>1 DEF OwnerInv
      <3>2. QED
        BY <2>1, <3>1, <1>2, <1>3, OthersDoNotOwn
    <2>2. ~Owns(t)'
      BY <1>2, <1>3, <1>4 DEF Owns, CalledFromPython
    <2>3. QED
      BY <2>1, <2>2, <1>3, ThreadsAssumption DEF OwnerInv
  <1>6. StartInv'
    BY <1>3 DEF StartInv
  <1>7. PcInv'
    BY <1>2, <1>3, <1>4 DEF PcInv, CalledFromPython
  <1>8. QED
    BY <1>2, <1>3, <1>5, <1>6, <1>7

\* Python code gives the GIL up ...
LEMMA YieldCareful ==
  ASSUME SectionsInv, CarefulInv, NEW t \in Threads, Yield(t)
  PROVE  CarefulInv'
  <1> USE DEF CarefulInv, Yield
  <1>1. current = t
    BY DEF OwnerInv, Owns
  <1>2. /\ \A u \in Threads : Depth(u)' = Depth(u) /\ Base(u)' = Base(u)
        /\ FrameInv' /\ KeptInv'
    BY <1>1, SameSectionsFacts DEF SameSections
  <1>3. /\ pc[t] = "python" /\ pc'[t] = "retake" /\ current' = NoThread
        /\ \A u \in Threads \ {t} : pc'[u] = pc[u]
        /\ UNCHANGED <<initThreads, jpyModule, starter, kept, opening, fatal>>
    BY <1>1, GotoFacts DEF SectionsInv, PCs
  <1>4. OwnerInv'
    <2>1. ASSUME NEW u \in Threads, u # t PROVE ~Owns(u)'
      <3>1. ~Owns(u)
        BY <2>1, <1>1 DEF OwnerInv
      <3>2. QED
        BY <2>1, <3>1, <1>2, <1>3, OthersDoNotOwn
    <2>2. ~Owns(t)'
      BY <1>3 DEF Owns
    <2>3. QED
      BY <2>1, <2>2, <1>3, ThreadsAssumption DEF OwnerInv
  <1>5. StartInv'
    BY <1>3 DEF StartInv
  <1>6. PcInv'
    BY <1>2, <1>3 DEF PcInv, CalledFromPython
  <1>7. QED
    BY <1>2, <1>3, <1>4, <1>5, <1>6

\* ... and takes it again when no thread has it.
LEMMA RetakeCareful ==
  ASSUME SectionsInv, CarefulInv, NEW t \in Threads, Retake(t)
  PROVE  CarefulInv'
  <1> USE DEF CarefulInv, Retake
  <1>1. /\ \A u \in Threads : Depth(u)' = Depth(u) /\ Base(u)' = Base(u)
        /\ FrameInv' /\ KeptInv'
    BY SameSectionsFacts DEF SameSections
  <1>2. /\ pc[t] = "retake" /\ pc'[t] = "python" /\ current' = t /\ current = NoThread
        /\ \A u \in Threads \ {t} : pc'[u] = pc[u]
    BY GotoFacts DEF SectionsInv, PCs
  <1>3. initThreads /\ starter # NoThread
    BY DEF StartInv, PcInv, Running
  <1>4. OwnerInv'
    <2>1. ASSUME NEW u \in Threads, u # t PROVE ~Owns(u)'
      <3>1. ~Owns(u)
        BY <2>1, <1>2, ThreadsAssumption DEF OwnerInv
      <3>2. QED
        BY <2>1, <3>1, <1>1, <1>2, OthersDoNotOwn
    <2>2. Owns(t)'
      BY <1>2 DEF Owns
    <2>3. QED
      BY <2>1, <2>2, <1>2 DEF OwnerInv
  <1>5. StartInv'
    BY <1>2, <1>3 DEF StartInv
  <1>6. PcInv'
    BY <1>1, <1>2, <1>3 DEF PcInv, CalledFromPython
  <1>7. QED
    BY <1>1, <1>4, <1>5, <1>6

\* jpy is imported in a section, when JPy_InitThreads is set.
LEMMA ImportCareful ==
  ASSUME SectionsInv, CarefulInv, NEW t \in Threads, ImportJpy(t)
  PROVE  CarefulInv'
  <1> USE DEF CarefulInv, ImportJpy
  <1>1. /\ \A u \in Threads : Depth(u)' = Depth(u) /\ Base(u)' = Base(u)
        /\ FrameInv' /\ KeptInv'
    BY SameSectionsFacts DEF SameSections
  <1>2. initThreads /\ starter # NoThread
    BY DEF StartInv, PcInv, InSection
  <1>3. OwnerInv' /\ PcInv'
    BY <1>1 DEF OwnerInv, Owns, PcInv, CalledFromPython
  <1>4. StartInv'
    BY <1>2 DEF StartInv
  <1>5. QED
    BY <1>1, <1>3, <1>4

\* Py_Initialize makes its thread's state current: no one had the GIL.  A
\* second start comes when the first has set JPy_InitThreads.
LEMMA StartCareful ==
  ASSUME SectionsInv, CarefulInv, NEW t \in Threads, StartPython(t), ~careless'
  PROVE  CarefulInv'
  <1> USE DEF CarefulInv
  <1>1. /\ \A u \in Threads : Depth(u)' = Depth(u)
        /\ pc[t] = "java" /\ pc'[t] = "begin" /\ opening'[t] # "inner"
        /\ \A u \in Threads \ {t} : pc'[u] = pc[u] /\ opening'[u] = opening[u]
    BY StartPythonSections
  <1>2. UNCHANGED <<initThreads, frames, jpyModule, kept, fatal>>
    BY DEF StartPython
  <1>3. CASE starter = NoThread
    <2>1. /\ current = NoThread /\ ~initThreads /\ t \notin PyThreads
          /\ starter' = t /\ current' = t
          /\ \A u \in Threads : ~(Depth(u) > 0)
      BY <1>1, <1>3 DEF StartPython, StartInv, IdleInv, SectionsInv
    <2>2. kept = {}
      BY <2>1 DEF PcInv, SectionsInv, TypeOK
    <2>3. OwnerInv'
      <3>1. ASSUME NEW u \in Threads, u # t PROVE ~Owns(u)'
        <4>1. ~Owns(u)
          BY <2>1, ThreadsAssumption DEF OwnerInv
        <4>2. QED
          BY <3>1, <4>1, <1>1, <1>2, OthersDoNotOwn
      <3>2. Owns(t)'
        BY <2>1, <1>1, <1>2 DEF Owns
      <3>3. QED
        BY <3>1, <3>2, <2>1 DEF OwnerInv
    <2>4. StartInv'
      BY <2>1, <1>2, ThreadsAssumption DEF StartInv
    <2>5. PcInv'
      BY <2>1, <2>2, <1>1, <1>2 DEF PcInv, CalledFromPython
    <2>6. FrameInv' /\ KeptInv'
      BY <2>2, <1>1, <1>2 DEF FrameInv, KeptInv
    <2>7. QED
      BY <2>3, <2>4, <2>5, <2>6, <1>2
  <1>4. CASE starter # NoThread
    <2>1. UNCHANGED <<starter, current, counter>> /\ initThreads
      BY <1>4 DEF StartPython
    <2>2. Goto(t, "begin")
      BY DEF StartPython, Open
    <2>3. QED
      BY <2>1, <2>2, <1>1, <1>2, MoveCareful DEF PCs, SameSections
  <1>5. QED
    BY <1>3, <1>4

\* Python is stopped when no thread is on its way into a section: the thread
\* that stops it may own the GIL, no other one does.
LEMMA StopCareful ==
  ASSUME SectionsInv, CarefulInv, NEW t \in Threads, StopPython(t), ~careless'
  PROVE  CarefulInv'
  <1> USE DEF CarefulInv
  <1>1. /\ \A u \in Threads : Depth(u)' = 0 /\ ~(Depth(u)' > 0)
        /\ current' = NoThread /\ starter' = NoThread /\ ~initThreads' /\ ~jpyModule'
        /\ kept' = {} /\ ~fatal' /\ current \in {t, NoThread} /\ pc[t] = "java"
    BY StopPythonSections DEF StopPython
  <1>2. \A u \in Threads : pc[u] \notin {"begin", "init", "save", "ensure"}
    BY DEF StopPython
  <1>3. \A u \in Threads :
          /\ u \in PyThreads => pc'[u] = "retake"
          /\ u \notin PyThreads => \/ pc'[u] = "hung"
                                   \/ pc'[u] = pc[u] /\ ~(Depth(u) > 0)
    BY DEF StopPython
  <1>4. \A u \in Threads : pc[u] = "python" => u = t
    BY <1>1, ThreadsAssumption DEF OwnerInv, Owns
  <1>5. \A u \in Threads \ PyThreads : pc'[u] \notin {"python", "retake"}
    <2>1. \A u \in Threads \ PyThreads : pc[u] = "retake" => Depth(u) > 0
      BY DEF PcInv, CalledFromPython
    <2>2. QED
      BY <2>1, <1>1, <1>3, <1>4
  <1>6. \A u \in Threads : pc'[u] \notin {"begin", "init", "save", "ensure", "python"}
    BY <1>2, <1>3, <1>5
  <1>7. OwnerInv'
    <2>1. ASSUME NEW u \in Threads PROVE ~Owns(u)'
      BY <1>1, <1>3, <1>6 DEF Owns, CalledFromPython
    <2>2. QED
      BY <2>1, <1>1, ThreadsAssumption DEF OwnerInv
  <1>8. StartInv'
    BY <1>1, <1>3, <1>6 DEF StartInv
  <1>9. PcInv'
    BY <1>1, <1>3, <1>5, <1>6 DEF PcInv, CalledFromPython
  <1>10. FrameInv' /\ KeptInv'
    <2>1. \A u \in Threads : 1 .. Depth(u)' = {}
      BY <1>1
    <2>2. QED
      BY <2>1, <1>1 DEF FrameInv, KeptInv
  <1>11. QED
    BY <1>1, <1>7, <1>8, <1>9, <1>10

\* A section that is opened finds the GIL held exactly if its thread has Python
\* code below or has kept it.
LEMMA EnsureCareful ==
  ASSUME SectionsInv, CarefulInv, NEW t \in Threads, Ensure(t)
  PROVE  CarefulInv'
  <1> USE DEF CarefulInv
  <1>1. pc[t] = "ensure" /\ starter # NoThread /\ initThreads /\ current \in {t, NoThread}
    BY DEF StartInv, PcInv, Ensure
  <1>2. /\ Push(t) /\ counter' = [counter EXCEPT ![t] = @ + 1]
        /\ current' = t /\ Goto(t, "python")
        /\ opening' = [opening EXCEPT ![t] = "method"]
        /\ UNCHANGED <<initThreads, starter, jpyModule, monitor, fatal, kept>>
    BY <1>1 DEF Ensure
  <1>3. /\ Depth(t)' = Depth(t) + 1 /\ Depth(t) \in Nat
        /\ \A i \in 1 .. Depth(t) : frames'[t][i] = frames[t][i]
        /\ frames'[t][Depth(t) + 1].gil = IF current = t THEN "LOCKED" ELSE "UNLOCKED"
        /\ frames'[t][Depth(t) + 1].kind = opening[t]
        /\ \A u \in Threads \ {t} : frames'[u] = frames[u] /\ Depth(u)' = Depth(u)
    BY <1>2, PushedFrames DEF SectionsInv
  <1>4. /\ pc'[t] = "python"
        /\ \A u \in Threads \ {t} : pc'[u] = pc[u] /\ opening'[u] = opening[u]
                                    /\ counter'[u] = counter[u]
    BY <1>2, GotoFacts DEF SectionsInv, TypeOK, PCs
  <1>5. current = t <=> (Depth(t) > 0 \/ t \in PyThreads \/ t \in kept)
    BY <1>1 DEF OwnerInv, Owns, CalledFromPython
  <1>6. Depth(t)' > 0
    BY <1>3
  <1>7. OwnerInv'
    <2>1. ASSUME NEW u \in Threads, u # t PROVE ~Owns(u)'
      <3>1. ~Owns(u)
        BY <2>1, <1>1, ThreadsAssumption DEF OwnerInv
      <3>2. QED
        BY <2>1, <3>1, <1>2, <1>3, <1>4, OthersDoNotOwn
    <2>2. Owns(t)'
      BY <1>4 DEF Owns
    <2>3. QED
      BY <2>1, <2>2, <1>2 DEF OwnerInv
  <1>8. StartInv'
    BY <1>1, <1>2, <1>4 DEF StartInv
  <1>9. PcInv'
    BY <1>1, <1>2, <1>3, <1>4, <1>6 DEF PcInv, CalledFromPython
  <1>10. FrameInv'
    <2>1. ASSUME NEW i \in 1 .. Depth(t)'
          PROVE  /\ frames'[t][i].gil = "UNLOCKED"
                      <=> (i = 1 /\ t \notin PyThreads \cup kept)
                 /\ i = 1 => frames'[t][i].kind # "inner"
      <3>1. CASE i \in 1 .. Depth(t)
        BY <3>1, <1>3 DEF FrameInv
      <3>2. CASE i = Depth(t) + 1
        <4>1. i = 1 <=> ~(Depth(t) > 0)
          BY <3>2, <1>3
        <4>2. opening[t] = "inner" => Depth(t) > 0
          BY <1>1 DEF PcInv
        <4>3. QED
          BY <3>2, <4>1, <4>2, <1>3, <1>5
      <3>3. QED
        BY <3>1, <3>2, <1>3
    <2>2. QED
      BY <2>1, <1>2, <1>3 DEF FrameInv
  <1>11. KeptInv'
    <2>1. /\ \A u \in Threads : Base(u)' = Base(u) /\ Base(u) \in Nat
          /\ counter[t] \in Nat /\ counter'[t] = counter[t] + 1 /\ kept \subseteq Threads
      BY <1>2, BaseNat DEF Base, SectionsInv, TypeOK
    <2>2. \A u \in kept \ {t} : counter'[u] > Base(u)' + Depth(u)'
      BY <2>1, <1>3, <1>4 DEF KeptInv
    <2>3. t \in kept => counter'[t] > Base(t)' + Depth(t)'
      <3>1. t \in kept => counter[t] > Base(t) + Depth(t)
        BY DEF KeptInv
      <3>2. Base(t)' = Base(t) /\ Base(t) \in Nat
        BY <2>1
      <3>3. QED
        BY <3>1, <3>2, <2>1, <1>3
    <2>4. QED
      BY <2>2, <2>3, <1>2 DEF KeptInv
  <1>12. QED
    BY <1>2, <1>7, <1>8, <1>9, <1>10, <1>11


\* PyGILState_Release gives the GIL up exactly if the section is the outermost
\* one of a Java thread that has not kept it.
LEMMA EndSectionFacts ==
  ASSUME SectionsInv, CarefulInv, NEW t \in Threads, EndSection(t)
  PROVE  /\ pc[t] = "python" /\ current = t /\ Depth(t) > 0 /\ initThreads
         /\ Pop(t) /\ Continue(t) /\ counter' = [counter EXCEPT ![t] = @ - 1]
         /\ UNCHANGED <<initThreads, starter, jpyModule, monitor, fatal, kept, careless>>
         /\ current' = IF Depth(t) > 1 \/ t \in PyThreads \cup kept THEN t ELSE NoThread
         /\ Top(t).kind = "inner" => Depth(t) > 1
  <1> USE DEF CarefulInv
  <1>1. pc[t] = "python" /\ current = t /\ Depth(t) > 0 /\ initThreads
    BY DEF EndSection, OwnerInv, Owns, PcInv
  <1>2. /\ Release(t) /\ Continue(t)
        /\ UNCHANGED <<initThreads, starter, jpyModule, monitor, fatal, kept, careless>>
    BY <1>1 DEF EndSection
  <1> DEFINE d == Depth(t)
             b == Base(t)
             c == counter[t]
  <1>3. /\ d \in Nat /\ d > 0 /\ b \in Nat /\ c \in Nat /\ c >= b + d
        /\ t \in PyThreads => b = 1
        /\ t \in kept => c > b + d
    BY <1>1, DepthNat, BaseNat DEF SectionsInv, TypeOK, CounterInv, KeptInv
  <1>4. /\ Top(t).gil = "UNLOCKED" <=> (d = 1 /\ t \notin PyThreads \cup kept)
        /\ Top(t).kind = "inner" => d # 1
    BY <1>1, <1>3 DEF FrameInv, Top
  <1>5. current' = IF c = 1 \/ Top(t).gil = "UNLOCKED" THEN NoThread ELSE t
    BY <1>2 DEF Release
  <1> HIDE DEF d, b, c
  <1>6. c = 1 => d = 1 /\ t \notin PyThreads \cup kept
    BY <1>3
  <1>7. d # 1 <=> d > 1
    BY <1>3
  <1>8. /\ current' = IF d > 1 \/ t \in PyThreads \cup kept THEN t ELSE NoThread
        /\ Top(t).kind = "inner" => d > 1
    BY <1>4, <1>5, <1>6, <1>7
  <1>9. QED
    BY <1>1, <1>2, <1>8 DEF d, Release

LEMMA EndSectionCareful ==
  ASSUME SectionsInv, CarefulInv, NEW t \in Threads, EndSection(t)
  PROVE  CarefulInv'
  <1> USE DEF CarefulInv
  <1>1. /\ pc[t] = "python" /\ current = t /\ Depth(t) > 0 /\ initThreads
        /\ Pop(t) /\ Continue(t) /\ counter' = [counter EXCEPT ![t] = @ - 1]
        /\ UNCHANGED <<initThreads, starter, jpyModule, monitor, fatal, kept, careless>>
        /\ current' = IF Depth(t) > 1 \/ t \in PyThreads \cup kept THEN t ELSE NoThread
        /\ Top(t).kind = "inner" => Depth(t) > 1
    BY EndSectionFacts
  <1>2. /\ Depth(t) \in Nat /\ Depth(t)' = Depth(t) - 1
        /\ \A i \in 1 .. Depth(t) - 1 : frames'[t][i] = frames[t][i]
        /\ \A u \in Threads \ {t} : frames'[u] = frames[u] /\ Depth(u)' = Depth(u)
    BY <1>1, PoppedFrames DEF SectionsInv
  <1>3. /\ \A u \in Threads \ {t} : pc'[u] = pc[u] /\ opening'[u] = opening[u]
        /\ \/ pc'[t] = "python" /\ Top(t).kind = "inner"
           \/ pc'[t] \in {"java", "bare"}
           \/ pc'[t] = "begin" /\ opening'[t] = "import"
    BY <1>1, ContinueFacts DEF SectionsInv
  <1>4. Depth(t)' > 0 <=> Depth(t) > 1
    <2> DEFINE d == Depth(t)
               e == Depth(t)'
    <2>1. d \in Nat /\ e = d - 1
      BY <1>2
    <2> HIDE DEF d, e
    <2>2. e > 0 <=> d > 1
      BY <2>1
    <2>3. QED
      BY <2>2 DEF d, e
  <1>5. starter # NoThread
    BY <1>1 DEF SectionsInv, IdleInv
  <1>6. OwnerInv'
    <2>1. ASSUME NEW u \in Threads, u # t PROVE ~Owns(u)' /\ current' # u
      <3>1. ~Owns(u)
        BY <2>1, <1>1 DEF OwnerInv
      <3>2. ~Owns(u)'
        BY <2>1, <3>1, <1>1, <1>2, <1>3, OthersDoNotOwn
      <3>3. QED
        BY <2>1, <3>2, <1>1, ThreadsAssumption
    <2>2. current' = t <=> (Depth(t) > 1 \/ t \in PyThreads \cup kept)
      BY <1>1, ThreadsAssumption
    <2>3. Owns(t)' <=> (Depth(t) > 1 \/ t \in PyThreads \cup kept)
      BY <1>1, <1>3, <1>4 DEF Owns, CalledFromPython
    <2>4. QED
      BY <2>1, <2>2, <2>3 DEF OwnerInv
  <1>7. StartInv'
    BY <1>1, <1>5 DEF StartInv
  <1>8. PcInv'
    <2>1. ASSUME NEW u \in Threads, u # t PROVE PcInv!(u)'
      BY <2>1, <1>1, <1>2, <1>3 DEF PcInv, CalledFromPython
    <2>2. PcInv!(t)'
      BY <1>1, <1>3, <1>4 DEF PcInv, CalledFromPython
    <2>3. QED
      BY <2>1, <2>2 DEF PcInv
  <1>9. FrameInv'
    <2>1. \A i \in 1 .. Depth(t)' : i \in 1 .. Depth(t) /\ frames'[t][i] = frames[t][i]
      BY <1>2
    <2>2. QED
      BY <2>1, <1>1, <1>2 DEF FrameInv
  <1>10. KeptInv'
    <2>1. /\ \A u \in Threads : Base(u)' = Base(u) /\ Base(u) \in Nat
          /\ counter[t] \in Nat /\ counter'[t] = counter[t] - 1 /\ kept \subseteq Threads
          /\ \A u \in Threads \ {t} : counter'[u] = counter[u]
      BY <1>1, BaseNat DEF Base, SectionsInv, TypeOK
    <2>2. \A u \in kept \ {t} : counter'[u] > Base(u)' + Depth(u)'
      BY <2>1, <1>2 DEF KeptInv
    <2>3. t \in kept => counter'[t] > Base(t)' + Depth(t)'
      <3>1. t \in kept => counter[t] > Base(t) + Depth(t)
        BY DEF KeptInv
      <3>2. Base(t)' = Base(t) /\ Base(t) \in Nat
        BY <2>1
      <3>3. QED
        BY <3>1, <3>2, <2>1, <1>2
    <2>4. QED
      BY <2>2, <2>3, <1>1 DEF KeptInv
  <1>11. QED
    BY <1>1, <1>6, <1>7, <1>8, <1>9, <1>10

\* A getMainGlobals that fails leaves its section without Release: the GIL stays
\* where it is, and with a Java thread whose outermost section it was.
LEMMA MainGlobalsFailsCareful ==
  ASSUME SectionsInv, CarefulInv, NEW t \in Threads, MainGlobalsFails(t)
  PROVE  CarefulInv'
  <1> USE DEF CarefulInv
  <1>1. /\ pc[t] = "python" /\ current = t /\ Depth(t) > 0 /\ initThreads
        /\ Pop(t) /\ Goto(t, IF Top(t).kind = "inner" THEN "python" ELSE "bare")
        /\ kept' = IF Top(t).gil = "UNLOCKED" THEN kept \cup {t} ELSE kept
        /\ UNCHANGED <<current, counter, initThreads, opening, starter, jpyModule,
                       monitor, fatal, careless>>
    BY DEF MainGlobalsFails, InSection, OwnerInv, Owns, PcInv
  <1>2. /\ Depth(t) \in Nat /\ Depth(t)' = Depth(t) - 1
        /\ \A i \in 1 .. Depth(t) - 1 : frames'[t][i] = frames[t][i]
        /\ \A u \in Threads \ {t} : frames'[u] = frames[u] /\ Depth(u)' = Depth(u)
    BY <1>1, PoppedFrames DEF SectionsInv
  <1>3. /\ pc'[t] = IF Top(t).kind = "inner" THEN "python" ELSE "bare"
        /\ \A u \in Threads \ {t} : pc'[u] = pc[u]
    BY <1>1, GotoFacts DEF SectionsInv, PCs
  <1>4. /\ Top(t).gil = "UNLOCKED" <=> (Depth(t) = 1 /\ t \notin PyThreads \cup kept)
        /\ Top(t).kind = "inner" => Depth(t) # 1
    BY <1>1, <1>2 DEF FrameInv, Top
  <1> DEFINE d == Depth(t)
             e == Depth(t)'
  <1>5. /\ e > 0 <=> d # 1
        /\ \A i \in 1 .. e : i \in 1 .. d /\ frames'[t][i] = frames[t][i]
        /\ d = 1 => 1 .. e = {}
        /\ e < d
    <2>1. d \in Nat /\ e = d - 1 /\ d > 0
      BY <1>1, <1>2
    <2>2. \A i \in 1 .. d - 1 : frames'[t][i] = frames[t][i]
      BY <1>2
    <2> HIDE DEF d, e
    <2>3. QED
      BY <2>1, <2>2
  <1>6. starter # NoThread
    BY <1>1 DEF SectionsInv, IdleInv
  <1>7. /\ kept \subseteq kept'
        /\ \A u \in Threads \ {t} : u \in kept' <=> u \in kept
        /\ t \in kept' <=> (t \in kept \/ (d = 1 /\ t \notin PyThreads))
        /\ kept' \subseteq Threads
    BY <1>1, <1>4 DEF SectionsInv, TypeOK
  <1>8. OwnerInv'
    <2>1. ASSUME NEW u \in Threads, u # t PROVE ~Owns(u)'
      <3>1. ~Owns(u)
        BY <2>1, <1>1 DEF OwnerInv
      <3>2. QED
        BY <2>1, <3>1, <1>1, <1>2, <1>3, <1>7, OthersDoNotOwn
    <2>2. Owns(t)'
      BY <1>3, <1>5, <1>7 DEF Owns, CalledFromPython
    <2>3. QED
      BY <2>1, <2>2, <1>1 DEF OwnerInv
  <1>9. StartInv'
    BY <1>1, <1>6 DEF StartInv
  <1>10. PcInv'
    <2>1. ASSUME NEW u \in Threads, u # t PROVE PcInv!(u)'
      BY <2>1, <1>1, <1>2, <1>3, <1>7 DEF PcInv, CalledFromPython
    <2>2. PcInv!(t)'
      BY <1>1, <1>3, <1>4, <1>5, <1>7 DEF PcInv, CalledFromPython
    <2>3. QED
      BY <2>1, <2>2 DEF PcInv
  <1>11. FrameInv'
    <2>1. ASSUME NEW i \in 1 .. e
          PROVE  /\ frames'[t][i].gil = "UNLOCKED" <=> (i = 1 /\ t \notin PyThreads \cup kept')
                 /\ i = 1 => frames'[t][i].kind # "inner"
      <3>1. i \in 1 .. d /\ frames'[t][i] = frames[t][i] /\ d # 1
        BY <2>1, <1>5
      <3>2. t \in kept' <=> t \in kept
        BY <3>1, <1>7
      <3>3. QED
        BY <3>1, <3>2 DEF FrameInv
    <2>2. QED
      BY <2>1, <1>2, <1>7 DEF FrameInv
  <1>12. KeptInv'
    <2>1. ASSUME NEW u \in kept' PROVE counter'[u] > Base(u)' + Depth(u)'
      <3>1. Base(u)' = Base(u) /\ Base(u) \in Nat /\ counter'[u] = counter[u] /\ u \in Threads
        BY <1>1, <1>7, BaseNat DEF Base
      <3>2. CASE u # t
        BY <3>1, <3>2, <1>2, <1>7 DEF KeptInv
      <3>3. CASE u = t
        <4>1. counter[t] >= Base(t) + Depth(t) /\ counter[t] \in Nat
          BY DEF SectionsInv, CounterInv, TypeOK
        <4>2. counter[t] > Base(t) + Depth(t)'
          BY <4>1, <3>1, <3>3, <1>2
        <4>3. QED
          BY <4>2, <3>1, <3>3
      <3>4. QED
        BY <3>2, <3>3
    <2>2. QED
      BY <2>1 DEF KeptInv
  <1>13. QED
    BY <1>1, <1>8, <1>9, <1>10, <1>11, <1>12

\* What holds of careful applications is kept by every step that stays careful.
LEMMA StepCareful ==
  ASSUME SectionsInv, CarefulInv, NEW t \in Threads, Step(t), ~careless'
  PROVE  CarefulInv'
  <1>1. CASE CallNative(t)
    <2>1. Running /\ Goto(t, "begin") /\ pc[t] = "java" /\ opening'[t] # "inner"
          /\ \A u \in Threads \ {t} : opening'[u] = opening[u]
      BY <1>1 DEF CallNative, Open, SectionsInv, TypeOK
    <2>2. initThreads
      BY <2>1 DEF Running, CarefulInv, StartInv
    <2>3. QED
      BY <1>1, <2>1, <2>2, MoveCareful DEF CallNative, SameSections, PCs
  <1>2. CASE MainGlobals(t)
    <2>1. Goto(t, "begin") /\ pc[t] = "python" /\ Depth(t) > 0
          /\ \A u \in Threads \ {t} : opening'[u] = opening[u]
      BY <1>2 DEF MainGlobals, Open, InSection, SectionsInv, TypeOK
    <2>2. initThreads
      BY <2>1 DEF CarefulInv, PcInv
    <2>3. QED
      BY <1>2, <2>1, <2>2, MoveCareful DEF MainGlobals, SameSections, PCs
  <1>3. CASE CallBare(t)
    BY <1>3, MoveCareful DEF CallBare, SameSections, PCs
  <1>4. CASE ReturnBare(t)
    BY <1>4, MoveCareful DEF ReturnBare, SameSections, PCs
  <1>5. CASE CallJava(t)
    BY <1>5, MoveCareful DEF CallJava, SameSections, PCs
  <1>6. CASE ReturnToPython(t)
    BY <1>6, MoveCareful DEF ReturnToPython, SameSections, PCs
  <1>7. CASE RequestMonitor(t)
    BY <1>7, MoveCareful DEF RequestMonitor, SameSections, PCs
  <1>8. CASE EnterMonitor(t)
    BY <1>8, MoveCareful DEF EnterMonitor, SameSections, PCs
  <1>9. CASE ExitMonitor(t)
    <2>1. Goto(t, "java") /\ pc[t] = "java"
      BY <1>9 DEF ExitMonitor, Goto, SectionsInv, TypeOK
    <2>2. QED
      BY <1>9, <2>1, MoveCareful DEF ExitMonitor, SameSections, PCs
  <1>10. QED
    BY <1>1, <1>2, <1>3, <1>4, <1>5, <1>6, <1>7, <1>8, <1>9, TestCareful, SetCareful,
       SaveCareful, YieldCareful, RetakeCareful, ImportCareful, StartCareful,
       StopCareful, EnsureCareful, EndSectionCareful, MainGlobalsFailsCareful DEF Step

\* Both invariants are inductive.
LEMMA NextSections == SectionsInv /\ [Next]_vars => SectionsInv'
  <1>1. ASSUME SectionsInv, UNCHANGED vars PROVE SectionsInv'
    <2>1. \A u \in Threads : Depth(u)' = Depth(u) /\ Base(u)' = Base(u)
      BY <1>1 DEF vars, Depth, Base
    <2>2. TypeOK' /\ IdleInv' /\ CounterInv'
      BY <1>1, <2>1 DEF vars, SectionsInv, TypeOK, IdleInv, CounterInv
    <2>3. QED
      BY <2>2 DEF SectionsInv
  <1>2. QED
    BY <1>1, StepSections DEF Next

LEMMA NextInv == IInv /\ [Next]_vars => IInv'
  <1> SUFFICES ASSUME IInv, [Next]_vars PROVE careless' \/ CarefulInv'
    BY NextSections DEF IInv
  <1>1. CASE UNCHANGED vars
    <2>1. \A u \in Threads : Depth(u)' = Depth(u) /\ Base(u)' = Base(u)
      BY <1>1 DEF vars, Depth, Base
    <2>2. \A u \in Threads : CalledFromPython(u)' <=> CalledFromPython(u)
      BY <1>1, <2>1 DEF vars, CalledFromPython
    <2>3. ASSUME CarefulInv PROVE CarefulInv'
      <3>1. OwnerInv' /\ StartInv' /\ PcInv'
        BY <1>1, <2>1, <2>2, <2>3 DEF vars, CarefulInv, OwnerInv, Owns, StartInv, PcInv
      <3>2. FrameInv' /\ KeptInv' /\ ~fatal'
        BY <1>1, <2>1, <2>3 DEF vars, CarefulInv, FrameInv, KeptInv, IInv, SectionsInv, TypeOK
      <3>3. QED
        BY <3>1, <3>2 DEF CarefulInv
    <2>4. careless => careless'
      BY <1>1 DEF vars
    <2>5. QED
      BY <2>3, <2>4 DEF IInv
  <1>2. CASE Next
    <2>1. PICK t \in Threads : Step(t)
      BY <1>2 DEF Next
    <2>2. careless => careless'
      BY <2>1, StepSections DEF IInv
    <2>3. QED
      BY <2>1, <2>2, StepCareful DEF IInv
  <1>3. QED
    BY <1>1, <1>2

\* What is said of all applications holds throughout, in either kind of process.
THEOREM SectionsInvariance == Spec => []SectionsInv
  BY InitSections, NextSections, PTL DEF Spec

\* In a process that a JVM hosts the invariant holds throughout.
THEOREM Invariance == ASSUME JavaHosted PROVE Spec => []IInv
  <1>1. Init => IInv
    BY InitSections, InitCareful DEF IInv
  <1>2. QED
    BY <1>1, NextInv, PTL DEF Spec

\* The variables keep their types, whatever the threads, the depth of nesting,
\* the number of sections left open, the starts and stops of Python and the
\* order of calls.
THEOREM TypeCorrect == Spec => []TypeOK
  <1>1. SectionsInv => TypeOK
    BY DEF SectionsInv
  <1>2. QED
    BY <1>1, SectionsInvariance, PTL

\* In either kind of process, and in careless applications too, thread states
\* live as long as a section that uses them (the counters that
\* PyGILState_Release tests).
THEOREM CounterCorrect == Spec => []CounterMatchesSections
  <1>1. SectionsInv => CounterMatchesSections
    <2> SUFFICES ASSUME SectionsInv, NEW t \in Threads
                 PROVE  counter[t] \in Base(t) + Depth(t) .. Base(t) + Depth(t) + MaxLeaks
      BY DEF CounterMatchesSections
    <2>1. Depth(t) \in Nat /\ Base(t) \in Nat /\ counter[t] \in Nat
      BY DepthNat, BaseNat DEF SectionsInv, TypeOK
    <2>2. /\ counter[t] >= Base(t) + Depth(t)
          /\ counter[t] <= Base(t) + Depth(t) + MaxLeaks
      BY DEF SectionsInv, CounterInv
    <2>3. QED
      BY <2>1, <2>2, BoundsAssumption
  <1>2. QED
    BY <1>1, SectionsInvariance, PTL

\* In a JVM's process every access to the Python C API between the brackets is
\* made with the GIL (JPy_BEGIN_GIL_STATE and JPy_END_GIL_STATE), across starts
\* and stops, beside threads in newDict and copyDict and threads that
\* getMainGlobals left with the GIL, until the application is careless.
THEOREM GilSafety == ASSUME JavaHosted PROVE Spec => []PythonHoldsGil
  <1>1. IInv => PythonHoldsGil
    BY DEF IInv, CarefulInv, OwnerInv, Owns, PythonHoldsGil
  <1>2. QED
    BY <1>1, Invariance, PTL

\* In a JVM's process a careful application's thread that has returned from its
\* native methods to Java has given the GIL up, unless the early return of
\* getMainGlobals was one of them; then it owns the GIL until Python stops.
THEOREM NoGilInJava == ASSUME JavaHosted PROVE Spec => []JavaLeavesGil
  <1>1. IInv => JavaLeavesGil
    <2> SUFFICES ASSUME SectionsInv, CarefulInv, NEW t \in Threads \ PyThreads,
                        pc[t] \in {"java", "monitor", "bare"}, Depth(t) = 0
                 PROVE  current = t <=> t \in kept
      BY DEF IInv, JavaLeavesGil
    <2>1. ~CalledFromPython(t)
      BY DEF CalledFromPython
    <2>2. QED
      BY <2>1 DEF CarefulInv, OwnerInv, Owns
  <1>2. QED
    BY <1>1, Invariance, PTL

\* In a JVM's process the brackets of a careful application never run into
\* Py_FatalError: isPythonRunning, true from PyInit_jpy on, comes after the
\* PyEval_SaveThread that must not come twice.
THEOREM NoFatal == ASSUME JavaHosted PROVE Spec => []NoFatalError
  <1>1. IInv => NoFatalError
    BY DEF IInv, CarefulInv, NoFatalError
  <1>2. QED
    BY <1>1, Invariance, PTL

-----------------------------------------------------------------------------
(* Steps: what a section restores *)

\* EndSection and MainGlobalsFails close the innermost section of their thread;
\* either leaves the GIL where the code below the section had it, but for the
\* failed outermost one, which keeps it.
LEMMA StepRestoresGil ==
  ASSUME SectionsInv, CarefulInv, NEW u \in Threads, Step(u), ~careless',
         starter' # NoThread, NEW t \in Threads,
         Depth(t) > 0, Len(frames'[t]) < Depth(t)
  PROVE  current' = t <=> (Len(frames'[t]) > 0 \/ t \in PyThreads \cup kept')
  <1>1. Len(frames'[t]) = Depth(t)' /\ Depth(t) \in Nat /\ ~(Depth(t) < Depth(t))
    BY DepthNat DEF Depth, SectionsInv
  <1>2. ~Quiet(u)
    BY <1>1, QuietSections, SameSectionsFacts
  <1>3. ~StartPython(u)
    BY <1>1, StartPythonSections
  <1>4. ~StopPython(u)
    BY DEF StopPython
  <1>5. ~Ensure(u)
    <2>1. SUFFICES ASSUME Ensure(u) PROVE ~(Depth(t)' < Depth(t))
      BY <1>1
    <2>2. Push(u) \/ UNCHANGED frames
      BY <2>1 DEF Ensure, Die
    <2>3. Depth(t)' = Depth(t) \/ Depth(t)' = Depth(t) + 1
      BY <2>2, PushedFrames DEF SectionsInv, Depth
    <2>4. QED
      BY <2>3, <1>1
  <1>6. CASE EndSection(u)
    <2>1. /\ Pop(u) /\ Depth(u) > 0 /\ kept' = kept
          /\ current' = IF Depth(u) > 1 \/ u \in PyThreads \cup kept THEN u ELSE NoThread
      BY <1>6, EndSectionFacts
    <2>2. /\ Depth(u) \in Nat /\ Depth(u)' = Depth(u) - 1
          /\ \A w \in Threads \ {u} : Depth(w)' = Depth(w)
      BY <2>1, PoppedFrames DEF SectionsInv
    <2>3. t = u
      BY <2>2, <1>1
    <2>4. Depth(u)' > 0 <=> Depth(u) > 1
      <3> DEFINE d == Depth(u)
                 e == Depth(u)'
      <3>1. d \in Nat /\ e = d - 1
        BY <2>2
      <3> HIDE DEF d, e
      <3>2. e > 0 <=> d > 1
        BY <3>1
      <3>3. QED
        BY <3>2 DEF d, e
    <2>5. current' = t <=> (Depth(u) > 1 \/ t \in PyThreads \cup kept')
      BY <2>1, <2>3, ThreadsAssumption
    <2>6. QED
      BY <2>3, <2>4, <2>5, <1>1
  <1>7. CASE MainGlobalsFails(u)
    <2>1. /\ pc[u] = "python" /\ Pop(u) /\ Depth(u) > 0 /\ current' = current
          /\ kept' = IF Top(u).gil = "UNLOCKED" THEN kept \cup {u} ELSE kept
      BY <1>7 DEF MainGlobalsFails, InSection
    <2>2. current' = u
      BY <2>1 DEF CarefulInv, OwnerInv, Owns
    <2>3. /\ Depth(u) \in Nat /\ Depth(u)' = Depth(u) - 1
          /\ \A w \in Threads \ {u} : Depth(w)' = Depth(w)
      BY <2>1, PoppedFrames DEF SectionsInv
    <2>4. t = u
      BY <2>3, <1>1
    <2>5. Depth(u)' > 0 \/ u \in PyThreads \cup kept'
      <3> DEFINE d == Depth(u)
                 e == Depth(u)'
      <3>1. d \in Nat /\ e = d - 1 /\ d > 0
        BY <2>1, <2>3
      <3>2. Top(u).gil = "UNLOCKED" <=> (d = 1 /\ u \notin PyThreads \cup kept)
        BY <3>1 DEF CarefulInv, FrameInv, Top
      <3> HIDE DEF d, e
      <3>3. e > 0 \/ d = 1
        BY <3>1
      <3>4. QED
        BY <3>2, <3>3, <2>1 DEF d, e
    <2>6. QED
      BY <2>2, <2>4, <2>5, <1>1
  <1>8. QED
    BY <1>2, <1>3, <1>4, <1>5, <1>6, <1>7, StepKinds

\* In a JVM's process the end of a section leaves the GIL with its thread
\* exactly if Python code is below it or getMainGlobals has left a section of
\* the thread open: PyGILState_Release's nesting is right.
THEOREM SectionsRestore == ASSUME JavaHosted PROVE Spec => SectionRestoresGil
  <1> DEFINE Restored ==
        \A t \in Threads :
          Depth(t) > 0 /\ Len(frames'[t]) < Depth(t) =>
            \/ careless' \/ starter' = NoThread
            \/ current' = t <=> (Len(frames'[t]) > 0 \/ t \in PyThreads \cup kept')
  <1>1. IInv /\ [Next]_vars => [Restored]_vars
    <2> SUFFICES ASSUME IInv, Next, ~careless', starter' # NoThread, NEW t \in Threads,
                        Depth(t) > 0, Len(frames'[t]) < Depth(t)
                 PROVE  current' = t <=> (Len(frames'[t]) > 0 \/ t \in PyThreads \cup kept')
      BY Zenon
    <2>1. PICK u \in Threads : Step(u)
      BY DEF Next
    <2>2. CarefulInv /\ SectionsInv
      BY <2>1, StepSections DEF IInv
    <2>3. QED
      BY <2>1, <2>2, StepRestoresGil
  <1>2. QED
    BY <1>1, Invariance, PTL DEF Spec, SectionRestoresGil

-----------------------------------------------------------------------------
(* Refinement of InterpreterLock *)

\* The users of the lock.
Users == IF careless THEN {} ELSE Inside

\* At most the owner of the GIL is inside.
LEMMA InsideOwner == CarefulInv => Inside \subseteq {current}
  BY DEF CarefulInv, OwnerInv, Owns, Inside

LEMMA LockInit == JavaHosted /\ Init => Lock!Init
  <1> SUFFICES ASSUME JavaHosted, Init PROVE Inside = {}
    BY DEF Lock!Init, Init
  <1>1. current \notin Threads
    BY ThreadsAssumption DEF Init, JavaHosted
  <1>2. QED
    BY <1>1, InitCareful, InsideOwner DEF Inside

\* A step moves its own thread only, so that the set of threads inside loses or
\* gains at most that one; stopping Python moves others that are not inside.
LEMMA OwnThreadOnly ==
  ASSUME SectionsInv, NEW t \in Threads, Step(t), ~StopPython(t)
  PROVE  \A u \in Threads \ {t} : u \in Inside' <=> u \in Inside
  <1> USE DEF SectionsInv
  <1>1. \A u \in Threads \ {t} : Depth(u)' = Depth(u)
    BY StepKinds, QuietSections, SameSectionsFacts, StartPythonSections, PushedFrames,
       PoppedFrames DEF Ensure, EndSection, Release, MainGlobalsFails, InSection, Die, Depth
  <1>2. \A u \in Threads \ {t} : pc'[u] = pc[u]
    <2>1. CASE EndSection(t)
      BY <2>1, ContinueFacts DEF EndSection, Die
    <2>2. CASE ~EndSection(t)
      BY <2>2 DEF Step, StartPython, CallNative, TestInitThreads, SetInitThreads,
           SaveThread, Die, Ensure, MainGlobals, MainGlobalsFails, CallJava, Goto, Open,
           ReturnToPython, Yield, Retake, RequestMonitor, EnterMonitor, ExitMonitor,
           ImportJpy, CallBare, ReturnBare, TypeOK
    <2>3. QED
      BY <2>1, <2>2
  <1>3. QED
    BY <1>1, <1>2 DEF Inside, CalledFromPython

\* The last user, who is the only one, may leave.
LEMMA EmptiedUsers ==
  ASSUME Users \subseteq {current}, Users \subseteq Threads, Users' = {}
  PROVE  [Lock!Next]_Users
  <1>1. Users = {} \/ (current \in Threads /\ Users = {current})
    OBVIOUS
  <1>2. CASE Users = {}
    BY <1>2
  <1>3. CASE current \in Threads /\ Users = {current}
    BY <1>3 DEF Users, Lock!Next, Lock!Leave
  <1>4. QED
    BY <1>1, <1>2, <1>3

LEMMA LockStep == IInv /\ [Next]_vars => [Lock!Next]_Users
  <1> SUFFICES ASSUME IInv, [Next]_vars PROVE [Lock!Next]_Users
    OBVIOUS
  <1>1. CASE UNCHANGED vars
    BY <1>1 DEF vars, Users, Inside, CalledFromPython, Depth
  <1>2. CASE careless
    <2>1. careless'
      BY <1>2, <1>1, StepSections DEF IInv, Next, vars
    <2>2. QED
      BY <1>2, <2>1 DEF Users
  <1>3. CASE Next /\ ~careless
    <2>1. PICK t \in Threads : Step(t)
      BY <1>3 DEF Next
    <2>2. SectionsInv /\ CarefulInv
      BY <1>3 DEF IInv
    <2>3. Users = Inside /\ Inside \subseteq {current} /\ Inside \subseteq Threads
      BY <1>3, <2>2, InsideOwner DEF Users, Inside
    <2>4. CASE careless'
      <3>1. Users' = {}
        BY <2>4 DEF Users
      <3>2. QED
        BY <2>3, <3>1, EmptiedUsers
    <2>5. CASE ~careless' /\ ~StopPython(t)
      <3>1. Users' = Inside' /\ Inside' \subseteq {current'} /\ Inside' \subseteq Threads
        <4>1. CarefulInv'
          BY <2>1, <2>2, <2>5, StepCareful
        <4>2. QED
          BY <4>1, <2>5, InsideOwner DEF Users, Inside, CarefulInv, OwnerInv, Owns
      <3>2. \A u \in Threads \ {t} : u \in Inside' <=> u \in Inside
        BY <2>1, <2>2, <2>5, OwnThreadOnly
      <3>3. CASE t \in Inside' /\ t \notin Inside
        <4>1. Users = {} /\ Users' = {t}
          BY <2>3, <3>1, <3>2, <3>3
        <4>2. QED
          BY <4>1 DEF Users, Lock!Next, Lock!Enter
      <3>4. CASE t \in Inside /\ t \notin Inside'
        <4>1. Users = {t} /\ Users' = {}
          BY <2>3, <3>1, <3>2, <3>4
        <4>2. QED
          BY <4>1 DEF Users, Lock!Next, Lock!Leave
      <3>5. CASE t \in Inside <=> t \in Inside'
        BY <2>3, <3>1, <3>2, <3>5
      <3>6. QED
        BY <3>3, <3>4, <3>5
    <2>6. CASE ~careless' /\ StopPython(t)
      <3>1. Users' = Inside' /\ Inside' \subseteq {current'} /\ Inside' \subseteq Threads
            /\ current' = NoThread
        <4>1. CarefulInv'
          BY <2>1, <2>2, <2>6, StepCareful
        <4>2. QED
          BY <4>1, <2>6, InsideOwner DEF Users, Inside, CarefulInv, OwnerInv, Owns, StopPython
      <3>2. Users' = {}
        BY <3>1, ThreadsAssumption
      <3>3. QED
        BY <2>3, <3>2, EmptiedUsers
    <2>7. QED
      BY <2>4, <2>5, <2>6
  <1>4. QED
    BY <1>1, <1>2, <1>3

\* In a JVM's process the brackets implement InterpreterLock while the
\* application is careful: a thread's Python frames are alone, from its first
\* section to its last, while Java code that they called runs, too.
THEOREM LockRefined == ASSUME JavaHosted PROVE Spec => ImplementsLock
  BY LockInit, LockStep, Invariance, PTL
     DEF Spec, ImplementsLock, Lock!Spec, Users, Lock!Init, Lock!Next
=============================================================================
