\* modified_since on an RFC 850 date of 2005 for a file of 1999.
CONSTANTS
  Headers <- MC_Headers_Y2K
  Files <- MC_Files_Y2K
  NotRun = NotRun
SPECIFICATION Spec
INVARIANT ModifiedSinceCorrect
CHECK_DEADLOCK FALSE
