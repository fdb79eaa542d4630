\* One thread; classes that mention each other; a callback that rejects;
\* allocations that fail
CONSTANTS
  O = O
  S = S
  C = C
  A = A
  D = D
  NoClass = NoClass
  Classes = {O, S, C, A}
  Super <- FamilySuper
  Component <- FamilyComponent
  Members <- FamilyMembers
  Fields <- FamilyFields
  Variables <- FamilyVariables
  Threads = {t1}
  Hooked = {C}
  Rejected <- OneRejected
  Reentrant = FALSE
  MaxFailures = 2
SPECIFICATION FairSpec
INVARIANTS
  TypeOK
  InProgressIsOnStack
  ResolvedIsComplete
  GivenIsResolved
  HierarchyIsTranslated
PROPERTIES CallsReturn
