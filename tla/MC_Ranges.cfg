CONSTANTS
  c1 = c1
  c2 = c2
  n1 = n1
  n2 = n2
  n3 = n3
  n4 = n4
  NIL = NIL
  Conns <- MC_Conns
  Nodes <- MC_Nodes
  W <- MC_W
  Sizes <- MC_Sizes
  Inputs <- MC_Inputs

SPECIFICATION Spec

INVARIANT TypeOK
INVARIANT NodeOwnership
INVARIANT FixupMatchesReference

SYMMETRY MC_Symmetry
VIEW MC_View
INVARIANT RangeHeaderMeaning
