----------------------------- MODULE RequestText -----------------------------
(***************************************************************************)
(* The request-text functions boa applies to each request: the URI        *)
(* functions of UriCodec on the request target, check_host (HostCheck)   *)
(* on the Host header, and boa_atoi (Decimal) on numeric fields.  They    *)
(* read different parts of the request and share no state, so a run      *)
(* follows one of them, chosen at Init: "uri" (both UriCodec routes),     *)
(* "host" or "decimal"; the other components' variables stay at a fixed   *)
(* value.                                                                  *)
(***************************************************************************)
EXTENDS Naturals, Sequences

CONSTANTS
  NameAlphabet, NameLen, UriAlphabet, UriLen, NoQuery,   \* UriCodec
  Alnum, Alphabet, MaxLen, MaxHostLen, NULL, NotRun,     \* HostCheck
  IntBits, LongBits, DecAlphabet, DecMaxLen               \* Decimal

VARIABLES
  route,
  signed, name, html, uri, qs, stage,   \* UriCodec
  host, ret,                            \* HostCheck
  s, atoi_ret                           \* Decimal

uriVars == <<signed, name, html, uri, qs, stage>>
hostVars == <<host, ret>>
decVars == <<s, atoi_ret>>
vars == <<route, uriVars, hostVars, decVars>>

UC == INSTANCE UriCodec

HC == INSTANCE HostCheck

DC == INSTANCE Decimal WITH Alphabet <- DecAlphabet, MaxLen <- DecMaxLen, ret <- atoi_ret

UriPinned ==
  /\ signed = FALSE /\ name = <<>> /\ html = <<>> /\ uri = <<>>
  /\ qs = NoQuery /\ stage = "idle"

Init ==
  /\ route \in {"uri", "host", "decimal"}
  /\ route = "uri" => UC!Init /\ host = NULL /\ ret = NotRun
  /\ route = "host" => HC!Init /\ UriPinned
  /\ route # "decimal" => s = <<>> /\ atoi_ret = NotRun
  /\ route = "decimal" => DC!Init /\ UriPinned /\ host = NULL /\ ret = NotRun

(* A step of one component leaves the other's variables alone. *)
UriStep ==
  /\ route = "uri"
  /\ UC!Next
  /\ UNCHANGED <<route, hostVars, decVars>>

HostStep ==
  /\ route = "host"
  /\ HC!Next
  /\ UNCHANGED <<route, uriVars, decVars>>

DecimalStep ==
  /\ route = "decimal"
  /\ DC!Next
  /\ UNCHANGED <<route, uriVars, hostVars>>

Next == UriStep \/ HostStep \/ DecimalStep

Spec == Init /\ [][Next]_vars

-----------------------------------------------------------------------------
(* Properties: those of the components, on their route. *)

TypeOK ==
  /\ route = "uri" => UC!TypeOK
  /\ route = "host" => HC!TypeOK
  /\ route = "decimal" => DC!TypeOK

(* A listing link sent back and decoded names the listed file.  *)
ListingLinkResolves == UC!ListingLinkResolves

(* Listing page text holds no markup byte and decodes to the name. *)
HtmlEscapeFaithful == UC!HtmlEscapeFaithful

(* clean_pathname leaves no //, /./ or /../ in the path. *)
CleanNoDotSegments == UC!CleanNoDotSegments

(* A Host check_host accepts names a directory safely. *)
AcceptedHostIsPathSafe == HC!AcceptedHostIsPathSafe

(* boa_atoi accepts exactly the canonical decimal texts of ints. *)
AtoiMatchesReference == DC!AtoiMatchesReference

=============================================================================
