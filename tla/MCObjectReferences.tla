------------------------ MODULE MCObjectReferences ------------------------
(* ObjectReferences for TLC. *)
EXTENDS ObjectReferences, TLC

\* Objects, instances of PyObject and threads are interchangeable.
Symmetry == Permutations(Objects) \cup Permutations(Wrappers) \cup Permutations(Threads)
=============================================================================
