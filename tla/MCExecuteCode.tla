--------------------------- MODULE MCExecuteCode ---------------------------
(* ExecuteCode for TLC. *)
EXTENDS ExecuteCode, Integers, FiniteSets, TLC

\* Threads are interchangeable, and so are the maps that take all values.
Symmetry == Permutations(Threads) \cup Permutations(Maps \ (Unmodifiable \cup Choosy))

\* Bounds: of the maps that can be modified, one is used until it is empty again; and
\* one execution at a time has maps for globals and for locals.
InUse(m) == map[m] # "absent" \/ \E t \in Threads, s \in Scopes : pc[t].arg[s] = m
OneModified == Cardinality({m \in Maps \ Unmodifiable : InUse(m)}) <= 1
OneOfTwoMaps == Cardinality({t \in Threads : \A s \in Scopes : pc[t].arg[s] \in Maps}) <= 1

=============================================================================
