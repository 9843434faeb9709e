\* The three routes over every time, zone, header and file time of the instance.
CONSTANTS
  Tms <- MC_Tms
  Offsets <- MC_Offsets
  Headers <- MC_Headers
  Files <- MC_Files
  ServedTms <- MC_ServedTms
  NotRun = NotRun
SPECIFICATION Spec
 
INVARIANT Rfc822Layout
INVARIANT CommonLogLayout
INVARIANT ModifiedSinceCorrect
\* Each route is a fixed number of calls: the behaviour ends after them.
CHECK_DEADLOCK FALSE
