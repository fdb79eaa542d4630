--------------------------- MODULE MCCallArguments ---------------------------
(* Methods for the model of CallArguments. *)
EXTENDS CallArguments, TLC

P(type, isMutable, isOutput) == [type |-> type, isMutable |-> isMutable, isOutput |-> isOutput]
M(params, paramIndex, isConstructor) ==
    [params |-> params, paramIndex |-> paramIndex, isConstructor |-> isConstructor]

\* int[] update(@Mutable @Return int[], int[]), void fill(@Mutable @Output int[]),
\* int[] put(@Return int[], Object...), C(@Mutable int[], int)
MCMethods ==
    { M(<<P("array", TRUE, FALSE), P("array", FALSE, FALSE)>>, 1, FALSE),
      M(<<P("array", TRUE, TRUE)>>, 0, FALSE),
      M(<<P("array", FALSE, FALSE), P("varargs", FALSE, FALSE)>>, 1, FALSE),
      M(<<P("array", TRUE, FALSE), P("primitive", FALSE, FALSE)>>, 0, TRUE) }

Symmetry == Permutations(Views) \cup Permutations(JArrays)
=============================================================================
