CONSTANTS
  C <- MC_C
  Msgs <- MC_Msgs
  MaxCalls <- MC_MaxCalls

SPECIFICATION SpecWithReset

\* reset_output_buffer clears buffer_end only; after a partial flush this
\* leaves buffer_start > buffer_end.
INVARIANT NoBufferOverrun

CHECK_DEADLOCK FALSE
