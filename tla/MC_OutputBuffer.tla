------------------------- MODULE MC_OutputBuffer -------------------------
(* Model-checking instance of OutputBuffer.                                *)
(* A 6-byte buffer is the smallest in which req_write_escape_html can emit *)
(* &quot;; the messages mix plain bytes, bytes that need %XX, and the      *)
(* three HTML entities, so both guard bands and every overflow path are   *)
(* reached within three calls.                                             *)
EXTENDS OutputBuffer

MC_C == 6

MC_Msgs == { <<"a">>, <<" ", "a">>, <<"\"">>, <<"<", "&">> }

MC_MaxCalls == 3
=============================================================================
