---------------------------- MODULE InterpreterLock ----------------------------
(***************************************************************************)
(* What the GIL brackets of PyLib promise to the code between them: Python *)
(* objects are touched by one thread at a time.  A thread enters when no   *)
(* other is inside, stays inside while its Python code calls Java and that *)
(* Java code calls back, and leaves as a whole.                            *)
(***************************************************************************)
CONSTANT Threads

VARIABLE inside   \* the threads with Python frames that may touch objects

Init == inside = {} \/ \E t \in Threads : inside = {t}

Enter(t) == inside = {} /\ inside' = {t}

Leave(t) == inside = {t} /\ inside' = {}

Next == \E t \in Threads : Enter(t) \/ Leave(t)

Spec == Init /\ [][Next]_inside
=============================================================================
