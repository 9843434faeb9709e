---------------------------- MODULE MC_UriCodec ----------------------------
(* Model-checking instance of UriCodec.                                   *)
EXTENDS UriCodec

(* File names: a letter, space, the HTML markup bytes " & <, the bytes    *)
(* that end a path (# ?), '%', ':', a control byte and a high byte.       *)
MC_NameAlphabet == {1, 32, 34, 35, 37, 38, 58, 60, 63, 97, 200}

MC_NameLen == 3

(* Request URIs: path bytes / . a, the escape byte %, hex digits 0 2 E,   *)
(* the non-hex letter U, and the delimiters # ?.                          *)
MC_UriAlphabet == {35, 37, 46, 47, 48, 50, 63, 69, 85, 97}

MC_UriLen == 4
=============================================================================
