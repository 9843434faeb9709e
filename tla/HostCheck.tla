----------------------------- MODULE HostCheck -----------------------------
(***************************************************************************)
(* boa's host name check (src/src/util.c, check_host), applied to the     *)
(* Host of a request before it names a virtual-host directory.  The name  *)
(* is a sequence of one-letter strings; NULL is a model value.  The code's *)
(* limit of 63 bytes on the whole name is the constant MaxHostLen, so     *)
(* that names both under and over it are short.                           *)
(***************************************************************************)
EXTENDS Naturals, Integers, Sequences, SequencesExt

CONSTANTS
  Alnum,       \* the letters and digits of the alphabet
  Alphabet,    \* the bytes a name may contain
  MaxLen,      \* the longest name enumerated
  MaxHostLen,  \* strlen(c) > 63 is refused
  NULL,        \* model value: no Host header
  NotRun       \* model value: check_host not called yet

IsAlnum(c) == c \in Alnum

(* Mutant: period_ok left set after a '.'. *)
RECURSIVE HostLoopNoClear(_, _, _)
HostLoopNoClear(rest, period_ok, len) ==
  IF rest = <<>> THEN len
  ELSE LET c == Head(rest) IN
       IF IsAlnum(c) \/ c = "-" THEN HostLoopNoClear(Tail(rest), TRUE, len + 1)
       ELSE IF c = "." /\ period_ok THEN HostLoopNoClear(Tail(rest), period_ok, len + 1)
       ELSE -1

(* The loop from the second byte: a letter, digit or '-' allows a period  *)
(* next; a '.' is allowed only then, and forbids another; anything else   *)
(* is refused.  period_ok starts at 0.                                    *)
RECURSIVE HostLoop(_, _, _)
HostLoop(rest, period_ok, len) ==
  IF rest = <<>> THEN len
  ELSE LET c == Head(rest) IN
       IF IsAlnum(c) \/ c = "-" THEN HostLoop(Tail(rest), TRUE, len + 1)
       ELSE IF c = "." /\ period_ok THEN HostLoop(Tail(rest), FALSE, len + 1)
       ELSE -1

(* Mutant: the strlen(c) > 63 check left out. *)
CheckHostNoLimit(r) ==
  IF r = NULL THEN -1
  ELSE IF r = <<>> \/ ~IsAlnum(Head(r)) THEN -1
  ELSE LET len == HostLoop(Tail(r), FALSE, 1) IN
       IF len = -1 THEN -1
       ELSE IF ~IsAlnum(Last(r)) THEN -1
       ELSE len

(* check_host *)
CheckHost(r) ==
  IF r = NULL THEN -1
  ELSE IF r = <<>> \/ ~IsAlnum(Head(r)) THEN -1
  ELSE IF Len(r) > MaxHostLen THEN -1
  ELSE LET len == HostLoop(Tail(r), FALSE, 1) IN
       IF len = -1 THEN -1
       ELSE IF ~IsAlnum(Last(r)) THEN -1
       ELSE len

VARIABLES host, ret

vars == <<host, ret>>

Init ==
  /\ host \in BoundedSeq(Alphabet, MaxLen) \cup {NULL}
  /\ ret = NotRun

Check ==
  /\ ret = NotRun
  /\ ret' = CheckHost(host)
  /\ UNCHANGED host

Next == Check

Spec == Init /\ [][Next]_vars

(***************************************************************************)
(* Properties.                                                             *)
(***************************************************************************)

TypeOK ==
  /\ host \in Seq(Alphabet) \cup {NULL}
  /\ ret \in {NotRun} \cup (-1 .. MaxHostLen)

(* The labels of a name: the pieces between periods. *)
Labels(s) ==
  LET dots == {0} \cup {i \in DOMAIN s : s[i] = "."} \cup {Len(s) + 1}
      next(i) == CHOOSE j \in dots : j > i /\ \A k \in dots : k > i => j <= k
  IN {SubSeq(s, i + 1, next(i) - 1) : i \in dots \ {Len(s) + 1}}

(* A label of RFC 1034 as RFC 1123 relaxed it: letters, digits and        *)
(* hyphens, beginning and ending with a letter or digit.                  *)
RFCLabel(l) ==
  /\ l # <<>>
  /\ IsAlnum(Head(l)) /\ IsAlnum(Last(l))
  /\ \A i \in DOMAIN l : IsAlnum(l[i]) \/ l[i] = "-"

RFCName(s) == s # NULL /\ s # <<>> /\ Len(s) <= MaxHostLen /\ \A l \in Labels(s) : RFCLabel(l)

(* A host check_host accepts can name a directory: it splits into        *)
(* non-empty labels of letters, digits and hyphens (so it is never ".",   *)
(* "..", empty or holding a "/"), and the length returned is its length.  *)
AcceptedHostIsPathSafe ==
  (ret # NotRun /\ ret > 0) =>
    /\ ret = Len(host)
    /\ \A l \in Labels(host) : l # <<>> /\ \A i \in DOMAIN l : IsAlnum(l[i]) \/ l[i] = "-"

(* The grammar quoted above check_host, both ways: a name within the     *)
(* length limit is accepted exactly when every label is letters, digits   *)
(* and hyphens, beginning and ending with a letter or digit.              *)
AcceptsExactlyRFCNames ==
  ret # NotRun => (ret > 0 <=> RFCName(host))

=============================================================================
