------------------------- MODULE MC_IfModifiedSince -------------------------
(* Model-checking instance of IfModifiedSince for RFC 850 dates of this  *)
(* century; MC_HttpDate checks the other layouts.                         *)
EXTENDS IfModifiedSince

HeaderTimes(years, months) ==
  [day : {6, 16}, mon : months, year : years,
   hour : {8}, minute : {49}, second : {37}]

HeadersOf(layouts, years) ==
  UNION { { [text |-> HeaderText(l, t), valid |-> TRUE, time |-> t] :
              t \in HeaderTimes(years, IF l = "nonstandard" THEN {2, 5, 6, 8} ELSE 0 .. 11) }
          : l \in layouts }

(* RFC 850 dates of this century. *)
MC_Headers_Y2K == HeadersOf({"rfc850"}, {2005})

MC_Files_Y2K ==
  { [tm_year |-> 99, tm_mon |-> 0, tm_mday |-> 1, tm_hour |-> 0, tm_min |-> 0, tm_sec |-> 0] }
=============================================================================
