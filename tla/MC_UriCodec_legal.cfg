\* unescape_uri accepting malformed escapes, expected to fail.
CONSTANTS
  NameAlphabet <- MC_NameAlphabet
  NameLen <- MC_NameLen
  UriAlphabet <- MC_UriAlphabet
  UriLen <- MC_UriLen
  NoQuery = NoQuery
SPECIFICATION Spec
PROPERTY UnescapeAcceptsOnlyLegal
\* Each route is one finite computation per request: it ends.
CHECK_DEADLOCK FALSE
