\* Labels that end or begin with a hyphen, and names whose first label is
\* one byte long.
CONSTANTS
  Alnum <- MC_Alnum
  Alphabet <- MC_Alphabet
  MaxLen <- MC_MaxLen
  MaxHostLen <- MC_MaxHostLen
  NULL = NULL
  NotRun = NotRun
SPECIFICATION Spec

INVARIANT AcceptsExactlyRFCNames
\* One call per request: the behaviour ends after it.
CHECK_DEADLOCK FALSE
