\* Both UriCodec routes over every name and request URI up to the bounds,
\* check_host on every name up to the bound and on NULL, and boa_atoi on
\* every string up to the bound.
CONSTANTS
  NameAlphabet <- MC_NameAlphabet
  NameLen <- MC_NameLen
  UriAlphabet <- MC_UriAlphabet
  UriLen <- MC_UriLen
  NoQuery = NoQuery
  Alnum <- MC_Alnum
  Alphabet <- MC_Alphabet
  MaxLen <- MC_MaxLen
  MaxHostLen <- MC_MaxHostLen
  NULL = NULL
  NotRun = NotRun
  IntBits <- MC_IntBits
  LongBits <- MC_LongBits
  DecAlphabet <- MC_DecAlphabet
  DecMaxLen <- MC_DecMaxLen
SPECIFICATION Spec
INVARIANT TypeOK
INVARIANT ListingLinkResolves
INVARIANT HtmlEscapeFaithful
INVARIANT CleanNoDotSegments
INVARIANT AcceptedHostIsPathSafe
INVARIANT AtoiMatchesReference
\* Each route is one finite computation per request: it ends.
CHECK_DEADLOCK FALSE
