------------------------------ MODULE MC_Ranges ------------------------------
(* Model-checking instance of Ranges.                                      *)
(* Two requests share a pool of at most four nodes.  unsigned long has 4  *)
(* bits, so "20" wraps to 4 and 15 is ULONG_MAX, the "not given" marker;  *)
(* a file of 3 bytes puts the boundaries start = S and stop = S within    *)
(* reach.  The headers cover one and two ranges, suffix and open ranges,  *)
(* a stop past end of file, a dropped head, a dropped tail, an abort      *)
(* after a submitted range, a missing prefix, a wrapping number and a     *)
(* range that starts at end of file.                                       *)
EXTENDS Ranges

CONSTANTS c1, c2, n1, n2, n3, n4

MC_Conns == {c1, c2}
MC_Nodes == {n1, n2, n3, n4}
MC_W == 4
MC_Sizes == {2, 3}

(* Headers whose meaning the code and the spec agree on, for files of 2   *)
(* and 3 bytes: a stop past end, an open range and a suffix in one value, *)
(* an inverted pair after a good one (fixup unlinks a node in the middle  *)
(* of a list), a suffix longer than the file, empty elements, an abort    *)
(* after a submitted range, and a start past end that wraps to another    *)
(* start past end (20 is 4 mod 2^W).                                      *)
MC_Inputs ==
  { <<"bytes=", "0", "-", "3">>,
    <<"bytes=", "1", "-", ",", "-", "1">>,
    <<"bytes=", "0", "-", "1", ",", "2", "-", "1">>,
    <<"bytes=", "-", "5">>,
    <<"bytes=", ",", "0", "-", "1", ",">>,
    <<"bytes=", "0", "-", ",", "x">>,
    <<"bytes=", "2", "0", "-">> }

(* Headers on which the code departs from spec section 4, each on its own *)
(* enough to do so: a start at end of file, a start that wraps to 0 (16   *)
(* is 2^W), a lone hyphen before a good element, and an open range, which *)
(* on an empty file is served.                                            *)
MC_Conns_One == {c1}
MC_Sizes_Spec == {0, 3}
MC_Inputs_Spec ==
  { <<"bytes=", "3", "-">>,
    <<"bytes=", "1", "6", "-">>,
    <<"bytes=", "-", ",", "0", "-", "1">>,
    <<"bytes=", "0", "-">> }

(* Node addresses and requests are interchangeable. *)
MC_Symmetry == Permutations(MC_Nodes) \cup Permutations(MC_Conns)

(* range_pool_pop clears start and stop before a node leaves the pool,    *)
(* and req->filesize is read only after a fixup: states that differ only  *)
(* in those stale values have the same futures.                           *)
MC_View ==
  <<next, range_pool, allocated, ranges, phase, raw, hdrs,
    [n \in Nodes |-> IF n \in ToSet(PoolList) THEN <<>> ELSE <<rstart[n], rstop[n]>>],
    [c \in Conns |-> IF phase[c] \in {"serving", "unsatisfiable"} THEN filesize[c] ELSE 0]>>
=============================================================================
