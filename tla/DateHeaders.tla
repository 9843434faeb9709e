---------------------------- MODULE DateHeaders ----------------------------
(***************************************************************************)
(* Header texts a client may send as If-Modified-Since, in the formats of *)
(* RFC 7231 section 7.1.1.1, built from the time t they denote            *)
(* ([day, mon (0..11), year, hour, minute, second]).  The RFC 850 layout   *)
(* keeps two digits of the year.                                          *)
(***************************************************************************)
EXTENDS Naturals, Sequences, TLC

LOCAL Dig == <<"0", "1", "2", "3", "4", "5", "6", "7", "8", "9">>

LOCAL Two(x) == <<Dig[(x \div 10) + 1], Dig[(x % 10) + 1]>>

LOCAL Four(y) == Two(y \div 100) \o Two(y % 100)

LOCAL MonthAbbr ==
  << <<"J","a","n">>, <<"F","e","b">>, <<"M","a","r">>, <<"A","p","r">>,
     <<"M","a","y">>, <<"J","u","n">>, <<"J","u","l">>, <<"A","u","g">>,
     <<"S","e","p">>, <<"O","c","t">>, <<"N","o","v">>, <<"D","e","c">> >>

LOCAL MonthLong ==
  (2 :> <<"M","a","r","c","h">>) @@ (5 :> <<"J","u","n","e">>)
  @@ (6 :> <<"J","u","l","y">>) @@ (8 :> <<"S","e","p","t","e","m","b","e","r">>)

LOCAL HMS(t) == Two(t.hour) \o <<":">> \o Two(t.minute) \o <<":">> \o Two(t.second)

LOCAL GMT == <<" ", "G", "M", "T">>

HeaderText(layout, t) ==
  CASE layout = "rfc1123" ->
         <<"S","u","n",","," ">> \o Two(t.day) \o <<" ">> \o MonthAbbr[t.mon + 1]
         \o <<" ">> \o Four(t.year) \o <<" ">> \o HMS(t) \o GMT
    [] layout = "rfc850" ->
         <<"S","u","n","d","a","y",","," ">> \o Two(t.day) \o <<"-">> \o MonthAbbr[t.mon + 1]
         \o <<"-">> \o Two(t.year % 100) \o <<" ">> \o HMS(t) \o GMT
    [] layout = "asctime" ->
         <<"S","u","n"," ">> \o MonthAbbr[t.mon + 1] \o <<" ">>
         \o (IF t.day < 10 THEN <<" ", Dig[t.day + 1]>> ELSE Two(t.day))
         \o <<" ">> \o HMS(t) \o <<" ">> \o Four(t.year)
    [] layout = "nonstandard" ->
         (IF t.day < 10 THEN <<Dig[t.day + 1]>> ELSE Two(t.day)) \o <<" ">>
         \o MonthLong[t.mon] \o <<" ">> \o Four(t.year) \o <<" ">> \o HMS(t) \o GMT

=============================================================================
