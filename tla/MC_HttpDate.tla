----------------------------- MODULE MC_HttpDate -----------------------------
(* Model-checking instance of HttpDate.                                   *)
EXTENDS HttpDate, DateHeaders

(* "format": every month and weekday, days of one and two digits, the    *)
(* edges of the clock (a leap second 60), and years from the epoch to the *)
(* last four-digit year.                                                  *)
MC_Tms ==
  { [tm_year |-> y - 1900, tm_mon |-> m, tm_mday |-> d,
     tm_hour |-> c[1], tm_min |-> c[2], tm_sec |-> c[3], tm_wday |-> w] :
      y \in {1970, 1999, 2000, 9999}, m \in 0 .. 11, d \in {1, 10, 31},
      c \in {<<0, 0, 0>>, <<9, 5, 38>>, <<23, 59, 60>>}, w \in 0 .. 6 }

(* UTC, India (+05:30), New York in winter (-05:00), Kiribati (+14:00),  *)
(* Newfoundland (-03:30).                                                 *)
MC_Offsets == {0, 19800, -18000, 50400, -12600}

(* "parse": header dates in the four layouts modified_since reads, with   *)
(* every month name of each, and file times before, at and after them in  *)
(* each field; and two values with no date.                               *)
HeaderTimes(months) ==
  [day : {6, 16}, mon : months, year : {1994, 1999},
   hour : {8}, minute : {49}, second : {37}]

NoTime == [day |-> 0, mon |-> 0, year |-> 0, hour |-> 0, minute |-> 0, second |-> 0]

MC_Headers ==
  UNION { { [text |-> HeaderText(l, t), valid |-> TRUE, time |-> t] :
              t \in HeaderTimes(IF l = "nonstandard" THEN {2, 5, 6, 8} ELSE 0 .. 11) }
          : l \in {"rfc1123", "rfc850", "asctime", "nonstandard"} }
  \cup { [text |-> <<"x">>, valid |-> FALSE, time |-> NoTime],
         [text |-> <<"S","u","n",","," ","x">>, valid |-> FALSE, time |-> NoTime] }

MC_Files ==
  { [tm_year |-> y - 1900, tm_mon |-> m, tm_mday |-> d,
     tm_hour |-> c[1], tm_min |-> c[2], tm_sec |-> c[3]] :
      y \in {1994, 1999}, m \in {5, 6}, d \in {6, 16},
      c \in {<<8, 49, 36>>, <<8, 49, 37>>, <<8, 49, 38>>, <<8, 50, 0>>, <<9, 0, 0>>} }

(* The weekday gmtime gives for a date (month 0 .. 11). *)
WeekDay(y, m, d) ==
  LET t == <<0, 3, 2, 5, 0, 3, 5, 1, 4, 6, 2, 4>>
      z == IF m < 2 THEN y - 1 ELSE y
  IN (z + z \div 4 - z \div 100 + z \div 400 + t[m + 1] + d) % 7

(* "revalidate": the months month2int tells apart by a later letter (Jan *)
(* Jun Jul, Mar May), around the turn of the century, at the edges of    *)
(* the day.                                                                *)
MC_ServedTms ==
  { [tm_year |-> y - 1900, tm_mon |-> m, tm_mday |-> d,
     tm_hour |-> c[1], tm_min |-> c[2], tm_sec |-> c[3], tm_wday |-> WeekDay(y, m, d)] :
      y \in {1999, 2000}, m \in {0, 2, 4, 5, 6}, d \in {1, 30},
      c \in {<<0, 0, 0>>, <<23, 59, 59>>} }
=============================================================================
