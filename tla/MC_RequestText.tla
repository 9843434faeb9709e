---------------------------- MODULE MC_RequestText ----------------------------
(* Model-checking instance of RequestText: the bounds of MC_UriCodec and *)
(* MC_HostCheck, and those of boa_atoi below.                           *)
EXTENDS RequestText

(* File names: a letter, space, the HTML markup bytes " & <, the bytes    *)
(* that end a path (# ?), '%', ':', a control byte and a high byte.       *)
MC_NameAlphabet == {1, 32, 34, 35, 37, 38, 58, 60, 63, 97, 200}

MC_NameLen == 3

(* Request URIs: path bytes / . a, the escape byte %, hex digits 0 2 E,   *)
(* the non-hex letter U, and the delimiters # ?.                          *)
MC_UriAlphabet == {35, 37, 46, 47, 48, 50, 63, 69, 85, 97}

MC_UriLen == 4

(* Host names of up to six bytes over a letter, a digit, '-', '.' and     *)
(* '/', with the length limit at 5.                                       *)
MC_Alnum == {"a", "1"}

MC_Alphabet == {"a", "1", "-", ".", "/"}

MC_MaxLen == 6

MC_MaxHostLen == 5

(* boa_atoi: an 8-bit int and a 12-bit long, so INT_MAX = 127 and        *)
(* LONG_MAX = 2047 are reached by four digits.  Digits 0 1 2 7 8 (127,   *)
(* 128, 1280, 8888 and leading zeros) and the non-digits space and 'a'.  *)
MC_IntBits == 8

MC_LongBits == 12

MC_DecAlphabet == {32, 48, 49, 50, 55, 56, 97}

MC_DecMaxLen == 4
=============================================================================
