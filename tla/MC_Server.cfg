CONSTANTS
  MaxFd <- MC_MaxFd
  StdOpen <- MC_StdOpen
  Faults <- MC_Faults_Serve
  Options <- MC_Options
  StartUids <- MC_StartUids
  ServerUids <- MC_ServerUids
  MaxCalls <- MC_MaxCalls

SPECIFICATION Spec

INVARIANT TypeOK
INVARIANT StartupOutcome
INVARIANT DropsPrivileges
PROPERTY StartsUnlessFault
PROPERTY TempFileContract

\* The process ends: it exits, or it makes its temporary-file calls in
\* select_loop, whose other work is not part of this model.
CHECK_DEADLOCK FALSE
