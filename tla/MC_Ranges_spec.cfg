CONSTANTS
  c1 = c1
  c2 = c2
  n1 = n1
  n2 = n2
  n3 = n3
  n4 = n4
  NIL = NIL
  Conns <- MC_Conns_One
  Nodes <- MC_Nodes
  W <- MC_W
  Sizes <- MC_Sizes_Spec
  Inputs <- MC_Inputs_Spec

SPECIFICATION Spec


SYMMETRY MC_Symmetry
VIEW MC_View
\* Spec section 4: a malformed value aborts the parse, and a range with
\* start > S - 1 is dropped.  Each header of MC_Inputs_Spec makes
\* range_parse and ranges_fixup depart from that.
INVARIANT RangeHeaderMeaning
