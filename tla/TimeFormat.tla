----------------------------- MODULE TimeFormat -----------------------------
(***************************************************************************)
(* boa's fixed-layout time stamps (src/src/util.c): rfc822_time_buf, which *)
(* fills a caller's buffer with "Sun, 06 Nov 1994 08:49:37 GMT", and      *)
(* get_commonlog_time, which fills a static buf[30] with                 *)
(* "[27/Feb/1998:20:20:04 +0000] ".  Both write backwards from the end of *)
(* the buffer through a pointer p: "*p-- = c", "p -= n" and               *)
(* "memcpy(p--, s, n)".  Each function is modelled as the list of those  *)
(* pointer statements, in the code's order, run by an interpreter that   *)
(* records every cell written, so that a layout that does not fit shows  *)
(* as a write outside the buffer.                                         *)
(*                                                                         *)
(* Characters are one-letter strings; "NUL" is the terminating byte.      *)
(***************************************************************************)
EXTENDS Naturals, Integers, Sequences, SequencesExt, TLC

CONSTANTS
  Tms,       \* the struct tm values gmtime/localtime may return
  Offsets,   \* TIMEZONE_OFFSET values, in seconds east of UTC
  NotRun     \* model value: function not called yet

Digit == <<"0", "1", "2", "3", "4", "5", "6", "7", "8", "9">>

(* '0' + x, for the single decimal digit x. *)
D(x) == Digit[x + 1]

(* month_tab and day_tab: four bytes per entry, no NUL. *)
month_tab ==
  << <<"J","a","n"," ">>, <<"F","e","b"," ">>, <<"M","a","r"," ">>,
     <<"A","p","r"," ">>, <<"M","a","y"," ">>, <<"J","u","n"," ">>,
     <<"J","u","l"," ">>, <<"A","u","g"," ">>, <<"S","e","p"," ">>,
     <<"O","c","t"," ">>, <<"N","o","v"," ">>, <<"D","e","c"," ">> >>

day_tab ==
  << <<"S","u","n",",">>, <<"M","o","n",",">>, <<"T","u","e",",">>,
     <<"W","e","d",",">>, <<"T","h","u",",">>, <<"F","r","i",",">>,
     <<"S","a","t",",">> >>

(***************************************************************************)
(* The pointer statements.  A statement writes the bytes s at p upwards   *)
(* and then moves p down by adv.                                          *)
(***************************************************************************)

(* *p-- = c *)
Put(c) == [s |-> <<c>>, adv |-> 1]

(* p -= n *)
Back(n) == [s |-> <<>>, adv |-> n]

(* memcpy(p--, src, n), or memcpy(p, src, n) / *p = c when adv is 0 *)
Copy(src, adv) == [s |-> src, adv |-> adv]

Step(st, ins) ==
  [p   |-> st.p - ins.adv,
   mem |-> [i \in st.p .. st.p + Len(ins.s) - 1 |-> ins.s[i - st.p + 1]] @@ st.mem]

(* Run a statement list from p = start: the last p and the cells written. *)
Exec(start, prog) == FoldLeft(Step, [p |-> start, mem |-> <<>>], prog)

(* while (a) { *p-- = '0' + a % 10; a /= 10; } *)
RECURSIVE YearPuts(_)
YearPuts(a) == IF a = 0 THEN <<>> ELSE <<Put(D(a % 10))>> \o YearPuts(a \div 10)

(* Two digits of a field below 100, written least significant first. *)
FieldPuts(a) == <<Put(D(a % 10)), Put(D(a \div 10))>>

(* Mutant: the gap left for the month one byte short. *)
Rfc822ProgGap2(t) ==
  <<Back(3), Copy(<<" ","G","M","T">>, 1)>>
  \o FieldPuts(t.tm_sec) \o <<Put(":")>>
  \o FieldPuts(t.tm_min) \o <<Put(":")>>
  \o FieldPuts(t.tm_hour) \o <<Put(" ")>>
  \o YearPuts(1900 + t.tm_year)
  \o <<Back(2), Copy(month_tab[t.tm_mon + 1], 1), Put(" ")>>
  \o FieldPuts(t.tm_mday)
  \o <<Put(" "), Back(3), Copy(day_tab[t.tm_wday + 1], 0)>>

(* rfc822_time_buf, from p = buf + 28. *)
Rfc822Prog(t) ==
  <<Back(3), Copy(<<" ","G","M","T">>, 1)>>
  \o FieldPuts(t.tm_sec) \o <<Put(":")>>
  \o FieldPuts(t.tm_min) \o <<Put(":")>>
  \o FieldPuts(t.tm_hour) \o <<Put(" ")>>
  \o YearPuts(1900 + t.tm_year)
  \o <<Back(3), Copy(month_tab[t.tm_mon + 1], 1), Put(" ")>>
  \o FieldPuts(t.tm_mday)
  \o <<Put(" "), Back(3), Copy(day_tab[t.tm_wday + 1], 0)>>

(* a = abs(time_offset / 60), C division truncating toward zero. *)
OffsetMinutes(off) == IF off >= 0 THEN off \div 60 ELSE (-off) \div 60

(* Mutant: the tens of minutes taken modulo 10 instead of 6. *)
CommonLogProgMod10(t, off) ==
  LET a == OffsetMinutes(off) IN
  <<Put("NUL"), Put(" "), Put("]"),
    Put(D(a % 10)), Put(D((a \div 10) % 10)),
    Put(D((a \div 60) % 10)), Put(D((a \div 60) \div 10)),
    Put(IF off >= 0 THEN "+" ELSE "-"), Put(" ")>>
  \o FieldPuts(t.tm_sec) \o <<Put(":")>>
  \o FieldPuts(t.tm_min) \o <<Put(":")>>
  \o FieldPuts(t.tm_hour) \o <<Put(":")>>
  \o YearPuts(1900 + t.tm_year)
  \o <<Put("/"), Back(2), Copy(SubSeq(month_tab[t.tm_mon + 1], 1, 3), 1), Put("/")>>
  \o FieldPuts(t.tm_mday)
  \o <<Copy(<<"[">>, 0)>>

(* get_commonlog_time, from p = buf + 29; the offset digits are a % 10,  *)
(* then a /= 10 and a % 6, then a /= 6 leaves the hours.                  *)
CommonLogProg(t, off) ==
  LET a == OffsetMinutes(off) IN
  <<Put("NUL"), Put(" "), Put("]"),
    Put(D(a % 10)), Put(D((a \div 10) % 6)),
    Put(D((a \div 60) % 10)), Put(D((a \div 60) \div 10)),
    Put(IF off >= 0 THEN "+" ELSE "-"), Put(" ")>>
  \o FieldPuts(t.tm_sec) \o <<Put(":")>>
  \o FieldPuts(t.tm_min) \o <<Put(":")>>
  \o FieldPuts(t.tm_hour) \o <<Put(":")>>
  \o YearPuts(1900 + t.tm_year)
  \o <<Put("/"), Back(2), Copy(SubSeq(month_tab[t.tm_mon + 1], 1, 3), 1), Put("/")>>
  \o FieldPuts(t.tm_mday)
  \o <<Copy(<<"[">>, 0)>>

VARIABLES
  tm,           \* the broken-down time
  use_localtime,
  time_offset,
  rfc822,       \* Exec result of rfc822_time_buf, or NotRun
  commonlog     \* Exec result of get_commonlog_time, or NotRun

vars == <<tm, use_localtime, time_offset, rfc822, commonlog>>

(* The if (use_localtime) of get_commonlog_time: localtime with its zone *)
(* offset, or gmtime with offset 0.                                       *)
Init ==
  /\ tm \in Tms
  /\ use_localtime \in BOOLEAN
  /\ time_offset \in IF use_localtime THEN Offsets ELSE {0}
  /\ rfc822 = NotRun
  /\ commonlog = NotRun

(* A Date or Last-Modified header is formatted into a 30-byte buffer. *)
Rfc822TimeBuf ==
  /\ rfc822 = NotRun
  /\ rfc822' = Exec(28, Rfc822Prog(tm))
  /\ UNCHANGED <<tm, use_localtime, time_offset, commonlog>>

(* A log line asks for its time stamp. *)
GetCommonlogTime ==
  /\ commonlog = NotRun
  /\ commonlog' = Exec(29, CommonLogProg(tm, time_offset))
  /\ UNCHANGED <<tm, use_localtime, time_offset, rfc822>>

Next == Rfc822TimeBuf \/ GetCommonlogTime

Spec == Init /\ [][Next]_vars

(***************************************************************************)
(* Properties.  The reference layouts are built front to back from the    *)
(* fields, independently of the pointer arithmetic.                        *)
(***************************************************************************)

TypeOK ==
  /\ tm \in Tms
  /\ use_localtime \in BOOLEAN
  /\ time_offset \in IF use_localtime THEN Offsets ELSE {0}
  /\ rfc822 = NotRun \/ DOMAIN rfc822.mem \subseteq Int
  /\ commonlog = NotRun \/ DOMAIN commonlog.mem \subseteq Int

Two(x) == <<D(x \div 10), D(x % 10)>>
Four(y) == Two(y \div 100) \o Two(y % 100)

Rfc822Ref(t) ==
  day_tab[t.tm_wday + 1] \o <<" ">> \o Two(t.tm_mday) \o <<" ">>
  \o month_tab[t.tm_mon + 1] \o Four(1900 + t.tm_year) \o <<" ">>
  \o Two(t.tm_hour) \o <<":">> \o Two(t.tm_min) \o <<":">> \o Two(t.tm_sec)
  \o <<" ", "G", "M", "T">>

CommonLogRef(t, off) ==
  LET m == OffsetMinutes(off) IN
  <<"[">> \o Two(t.tm_mday) \o <<"/">> \o SubSeq(month_tab[t.tm_mon + 1], 1, 3)
  \o <<"/">> \o Four(1900 + t.tm_year) \o <<":">>
  \o Two(t.tm_hour) \o <<":">> \o Two(t.tm_min) \o <<":">> \o Two(t.tm_sec)
  \o <<" ", IF off >= 0 THEN "+" ELSE "-">> \o Two(m \div 60) \o Two(m % 60)
  \o <<"]", " ", "NUL">>

(* The cells written, read from index 0 as a string. *)
Text(r) == [i \in 1 .. Cardinality(DOMAIN r.mem) |-> r.mem[i - 1]]

(* rfc822_time_buf writes exactly buf[0..28], no byte before or after    *)
(* it, and what it writes is the RFC 1123 date of the time.               *)
Rfc822Layout ==
  rfc822 # NotRun =>
    /\ DOMAIN rfc822.mem = 0 .. 28
    /\ Text(rfc822) = Rfc822Ref(tm)

(* get_commonlog_time writes exactly its static buf[0..29], returns buf   *)
(* itself, and the text is the common-log time stamp with the zone        *)
(* offset as +hhmm or -hhmm.                                              *)
CommonLogLayout ==
  commonlog # NotRun =>
    /\ DOMAIN commonlog.mem = 0 .. 29
    /\ commonlog.p = 0
    /\ Text(commonlog) = CommonLogRef(tm, time_offset)

=============================================================================
