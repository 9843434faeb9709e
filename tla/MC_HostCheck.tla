----------------------------- MODULE MC_HostCheck -----------------------------
(* Model-checking instance of HostCheck: every name of up to six bytes  *)
(* over a letter, a digit, '-', '.' and '/', with the length limit at 5.  *)
EXTENDS HostCheck

MC_Alnum == {"a", "1"}

MC_Alphabet == {"a", "1", "-", ".", "/"}

MC_MaxLen == 6

MC_MaxHostLen == 5
=============================================================================
