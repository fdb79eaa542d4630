---------------------------- MODULE MCTypeRegistry ----------------------------
(* Small class graphs for TypeRegistry.                                      *)
EXTENDS TypeRegistry, TLC

CONSTANTS O, S, C, A, D

\* class S { C child(A all); static C root; }, A = C[],
\* class C extends S { S parent(); C self; }; O is java.lang.Object.
FamilySuper == (O :> NoClass) @@ (S :> O) @@ (C :> S) @@ (A :> O)

FamilyComponent == [c \in Classes |-> IF c = A THEN C ELSE NoClass]

FamilyMembers ==
  (O :> <<>>) @@ (S :> << <<A, C>>, <<C>> >>) @@ (C :> << <<S>>, <<C>> >>) @@ (A :> <<>>)

\* class S { D make(); }, class C extends S {}, class D extends C { S up(); }
FactorySuper == (O :> NoClass) @@ (S :> O) @@ (C :> S) @@ (D :> C)

FactoryComponent == [c \in Classes |-> NoClass]

FactoryMembers ==
  (O :> <<>>) @@ (S :> << <<D>> >>) @@ (C :> <<>>) @@ (D :> << <<S>> >>)

OneRejected == {<<C, 1>>}

NoneRejected == {}

\* self and root are fields; root is not final.
FamilyFields == {<<C, 2>>, <<S, 2>>}

FamilyVariables == {<<S, 2>>}

NoFields == {}

\* These class graphs are ones that ResolvedIsCompleteInSequence is about.
ASSUME RankExists == \E rank \in [Classes -> 0 .. 3] : IsRank(rank)

\* HierarchyIsTranslatedInSequence is about the family, not about the factory.
ASSUME GrandchildOfFactory == NoGrandchildMentioned <=> Members = FamilyMembers
=============================================================================
