SPECIFICATION Spec
CONSTANTS
  Chain <- Family
  Families <- AllFamilies
  Supertypes <- FamilySupertypes
  Component <- FamilyComponent
  ItemSize <- LP64
INVARIANTS
  TypeOK
  FixedFirst
  NoBetterOverload
  TiesArePerfect
  RefusalsAreJustified
  ScalarsConvert
