\* Two views of one array, calls with callbacks that call again
CONSTANTS
  a1 = a1
  a2 = a2
  view1 = view1
  view2 = view2
  JArrays = {a1, a2}
  NoJArray = NoJArray
  Views = {view1, view2}
  Contents = {0, 1}
  Zero = 0
  Methods <- MCMethods
  Refs = {1, 2, 3, 4, 5}
  NoRef = NoRef
  NoView = NoView
  MaxDepth = 2
  MaxLosses = 1
SYMMETRY Symmetry
SPECIFICATION Spec
INVARIANTS TypeOK ExportsAreHeld RefsAreOwned LikeOneArray
PROPERTIES ReturnedArgumentIsCurrent
