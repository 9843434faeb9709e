CONSTANTS
  MaxFd <- MC_MaxFd
  StdOpen <- MC_StdOpen_Any
  Faults <- MC_Faults_All
  Options <- MC_Options
  StartUids <- MC_StartUids
  ServerUids <- MC_ServerUids
  MaxCalls <- MC_MaxCalls

SPECIFICATION Spec

\* Started with any of 0, 1, 2 closed, or meeting a failed fork or a
\* getpwuid that leaves errno at 0.
INVARIANT StartupOutcome


\* The process ends: it exits, or it enters select_loop, which is not
\* part of this module.
CHECK_DEADLOCK FALSE
