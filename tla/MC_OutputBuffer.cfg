CONSTANTS
  C <- MC_C
  Msgs <- MC_Msgs
  MaxCalls <- MC_MaxCalls

SPECIFICATION Spec

INVARIANT TypeOK
INVARIANT NoBufferOverrun
INVARIANT WireFaithful

PROPERTY DrainEventually
PROPERTY ImplementsByteStream

\* A connection stops once its response is sent or it is dead, and the
\* callers stop after MaxCalls writes.
CHECK_DEADLOCK FALSE
