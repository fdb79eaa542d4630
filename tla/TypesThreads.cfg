\* Two threads that change places in callbacks, which call jpy.get_type
CONSTANTS
  O = O
  S = S
  C = C
  A = A
  D = D
  NoClass = NoClass
  Classes = {O, S, C, A}
  Super <- FamilySuper
  Component <- FamilyComponent
  Members <- FamilyMembers
  Fields <- FamilyFields
  Variables <- FamilyVariables
  Threads = {t1, t2}
  Hooked = {S, C}
  Rejected <- OneRejected
  Reentrant = TRUE
  MaxFailures = 0
SPECIFICATION Spec
INVARIANTS ResolvingIsOnStack
PROPERTIES CompleteIsFinal
