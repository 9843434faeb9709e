------------------------------ MODULE Decimal ------------------------------
(***************************************************************************)
(* boa's decimal conversions (src/src/util.c): simple_itoa, which writes an *)
(* unsigned int in decimal, and boa_atoi, which reads a non-negative int   *)
(* and rejects anything that does not convert back to the same text.      *)
(*                                                                         *)
(* Strings are sequences of byte values.  The widths of int and long are  *)
(* constants so that overflow is reachable with short strings.  atoi on a *)
(* number that does not fit is undefined behaviour; the two outcomes C    *)
(* libraries produce are both allowed: glibc's (int) strtol, which clamps *)
(* at LONG_MAX and then truncates, and a plain wrap-around accumulation.  *)
(***************************************************************************)
EXTENDS Naturals, Integers, Sequences, SequencesExt

CONSTANTS
  IntBits,   \* width of int
  LongBits,  \* width of long (>= IntBits)
  Alphabet,  \* bytes the argument string may contain
  MaxLen,    \* maximum argument length
  NotRun     \* model value: boa_atoi not called yet

ASSUME IntBits \in Nat \ {0} /\ LongBits >= IntBits
ASSUME Alphabet \subseteq 1 .. 255 /\ MaxLen \in Nat

UINT_MOD == 2^IntBits
INT_MAX  == 2^(IntBits - 1) - 1
LONG_MAX == 2^(LongBits - 1) - 1

VARIABLES
  s,    \* the string passed to boa_atoi
  ret   \* its return value, or NotRun

vars == <<s, ret>>

IsDigit(b) == b \in 48 .. 57

(* isdigit on the first byte; the empty string starts with its NUL. *)
StartsWithDigit(t) == t # <<>> /\ IsDigit(Head(t))

(* Mutant: the result of atoi taken as a mathematical integer. *)
ToIntUnwrapped(x) == x

(* The value of an int holding the integer x, modulo its width. *)
ToInt(x) == LET u == x % UINT_MOD IN IF u > INT_MAX THEN u - UINT_MOD ELSE u

(* simple_itoa: digits are produced from the least significant end into *)
(* local[], do-while so that 0 gives "0".                                 *)
RECURSIVE ItoaLoop(_, _)
ItoaLoop(i, p) ==
  LET q == <<48 + (i % 10)>> \o p IN
  IF i \div 10 = 0 THEN q ELSE ItoaLoop(i \div 10, q)

simple_itoa(i) == ItoaLoop(i, <<>>)

(* The leading digits of a string and their value. *)
RECURSIVE DigitPrefix(_)
DigitPrefix(t) == IF StartsWithDigit(t) THEN <<Head(t)>> \o DigitPrefix(Tail(t)) ELSE <<>>

DigitsValue(d) == FoldLeft(LAMBDA acc, b : acc * 10 + (b - 48), 0, d)

(* atoi on a string that starts with a digit: the values it may return. *)
Atoi(t) ==
  LET v == DigitsValue(DigitPrefix(t)) IN
  {ToInt(IF v > LONG_MAX THEN LONG_MAX ELSE v), ToInt(v)}

(* Mutant: the comparison with the re-converted text left out. *)
AtoiResultUnchecked(t, retval) == IF retval < 0 THEN -1 ELSE retval

(* The tail of boa_atoi: a negative result is refused; then the value is *)
(* written back with simple_itoa and memcmp compares strlen(s) bytes, so *)
(* a shorter re-conversion differs at its NUL.                            *)
AtoiResult(t, retval) ==
  IF retval < 0 THEN -1
  ELSE IF ~IsPrefix(t, simple_itoa(retval % UINT_MOD)) THEN -1
  ELSE retval

(***************************************************************************)
(* The caller, outside src/, passes a header field or configuration value. *)
(***************************************************************************)

Init ==
  /\ s \in BoundedSeq(Alphabet, MaxLen)
  /\ ret = NotRun

(* boa_atoi: a string that does not start with a digit gives -1. *)
BoaAtoi ==
  /\ ret = NotRun
  /\ \/ /\ ~StartsWithDigit(s)
        /\ ret' = -1
     \/ /\ StartsWithDigit(s)
        /\ \E retval \in Atoi(s) : ret' = AtoiResult(s, retval)
  /\ UNCHANGED s

Next == BoaAtoi

Spec == Init /\ [][Next]_vars

(***************************************************************************)
(* Properties.                                                             *)
(***************************************************************************)

TypeOK ==
  /\ s \in Seq(1 .. 255)
  /\ ret \in {NotRun} \cup (-1 .. INT_MAX)

(* The reference reading: a string is a number exactly when it is the    *)
(* canonical decimal text of a value that fits in an int.                 *)
Canonical(t) ==
  \E n \in 0 .. INT_MAX : t = simple_itoa(n)

ReferenceValue(t) ==
  IF Canonical(t) THEN DigitsValue(t) ELSE -1

(* boa_atoi accepts exactly the canonical decimal texts of ints, and     *)
(* returns their value, whichever overflow behaviour atoi has: no        *)
(* leading zero, trailing garbage, overflowed or wrapped number slips    *)
(* through the re-conversion check.                                       *)
AtoiMatchesReference ==
  ret # NotRun => ret = ReferenceValue(s)

=============================================================================
