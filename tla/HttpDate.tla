------------------------------ MODULE HttpDate ------------------------------
(***************************************************************************)
(* boa's HTTP dates, both ends: rfc822_time_buf formats the Last-Modified  *)
(* of a response (TimeFormat), and modified_since reads the               *)
(* If-Modified-Since of a later request (IfModifiedSince).  A cache that  *)
(* revalidates sends back the Last-Modified it was given, so the second   *)
(* reads what the first wrote.                                             *)
(*                                                                         *)
(* A run follows one route, fixed at Init:                                 *)
(*   "format":     the two time stamps of TimeFormat for a time and zone; *)
(*   "parse":      modified_since on a header written by some client;     *)
(*   "revalidate": the Last-Modified of a file at one time, echoed back   *)
(*                 by the client, against the file's time at the request. *)
(* Each component's variables stay at a fixed value on the routes that do *)
(* not use it.                                                             *)
(***************************************************************************)
EXTENDS Naturals, Integers, Sequences

CONSTANTS
  Tms,         \* the struct tm values gmtime/localtime may return
  Offsets,     \* TIMEZONE_OFFSET values, in seconds east of UTC
  Headers,     \* header values a client may write, see IfModifiedSince
  Files,       \* file times for the "parse" route
  ServedTms,   \* file times (gmtime) when a response is sent
  NotRun       \* model value: not computed yet, or unused on this route

VARIABLES
  route,
  tm, use_localtime, time_offset, rfc822, commonlog,   \* TimeFormat
  hdr, file, ret                                       \* IfModifiedSince

fmtVars == <<tm, use_localtime, time_offset, rfc822, commonlog>>
imsVars == <<hdr, file, ret>>
vars == <<route, fmtVars, imsVars>>

Routes == {"format", "parse", "revalidate"}

TF == INSTANCE TimeFormat

IMS == INSTANCE IfModifiedSince

(* The file's time as modified_since takes it: the tm without tm_wday. *)
FileTm(t) == [f \in {"tm_year", "tm_mon", "tm_mday", "tm_hour", "tm_min", "tm_sec"} |-> t[f]]

(* On "revalidate" the file may have changed between the response and    *)
(* the request (or been set back): its time then is any served time.    *)
Init ==
  /\ route \in Routes
  /\ route = "format" =>
       TF!Init /\ hdr = NotRun /\ file = NotRun /\ ret = NotRun
  /\ route = "parse" =>
       /\ IMS!Init
       /\ tm = NotRun /\ use_localtime = FALSE /\ time_offset = 0
       /\ rfc822 = NotRun /\ commonlog = NotRun
  /\ route = "revalidate" =>
       /\ tm \in ServedTms /\ use_localtime = FALSE /\ time_offset = 0
       /\ rfc822 = NotRun /\ commonlog = NotRun
       /\ hdr = NotRun /\ ret = NotRun
       /\ file \in {FileTm(t) : t \in ServedTms}

(* The response carries Last-Modified: rfc822_time_buf of the file time. *)
FormatDate ==
  /\ route # "parse"
  /\ TF!Rfc822TimeBuf
  /\ UNCHANGED <<route, imsVars>>

(* A log line gets its time stamp. *)
FormatLogTime ==
  /\ route = "format"
  /\ TF!GetCommonlogTime
  /\ UNCHANGED <<route, imsVars>>

(* The client sends the Last-Modified text back as If-Modified-Since.  It *)
(* denotes the time it was written from.                                   *)
Echo ==
  /\ route = "revalidate"
  /\ rfc822 # NotRun /\ hdr = NotRun
  /\ hdr' = [text  |-> TF!Text(rfc822), valid |-> TRUE,
             time  |-> [day |-> tm.tm_mday, mon |-> tm.tm_mon, year |-> 1900 + tm.tm_year,
                        hour |-> tm.tm_hour, minute |-> tm.tm_min, second |-> tm.tm_sec]]
  /\ UNCHANGED <<route, fmtVars, file, ret>>

(* The request handler calls modified_since with the file's time. *)
CheckModified ==
  /\ route # "format"
  /\ hdr # NotRun
  /\ IMS!ModifiedSinceCall
  /\ UNCHANGED <<route, fmtVars>>

Next == FormatDate \/ FormatLogTime \/ Echo \/ CheckModified

Spec == Init /\ [][Next]_vars

-----------------------------------------------------------------------------
(* Properties *)

TypeOK ==
  /\ route \in Routes
  /\ ret \in {NotRun, -1, 0, 1}

(* rfc822_time_buf writes exactly buf[0..28], the RFC 1123 date. *)
Rfc822Layout == TF!Rfc822Layout

(* get_commonlog_time writes exactly buf[0..29], the common-log stamp. *)
CommonLogLayout == TF!CommonLogLayout

(* modified_since answers "modified" exactly when the file is later than  *)
(* the date the header denotes: for the four layouts a client may write,  *)
(* and for the Last-Modified boa itself wrote, so that an unchanged file  *)
(* revalidates as not modified and a changed one is sent again.           *)
ModifiedSinceCorrect == IMS!ModifiedSinceCorrect

=============================================================================
