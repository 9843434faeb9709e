CONSTANTS
  MaxFd <- MC_MaxFd
  StdOpen <- MC_StdOpen
  Faults <- MC_Faults_Unlink
  Options <- MC_Options
  StartUids <- MC_StartUids
  ServerUids <- MC_ServerUids
  MaxCalls <- MC_MaxCalls

SPECIFICATION Spec

\* A running server whose unlink may fail, after a name that does not fit
\* in the caller's storage or a caller that asks for the file unlinked.

PROPERTY TempFileContract

\* The process ends: it exits, or it makes its temporary-file calls in
\* select_loop, whose other work is not part of this model.
CHECK_DEADLOCK FALSE
