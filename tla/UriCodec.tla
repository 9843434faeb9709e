----------------------------- MODULE UriCodec -----------------------------
(***************************************************************************)
(* boa's URI string functions: http_escape_string and html_escape_string   *)
(* (src/src/escape.c), unescape_uri and clean_pathname (src/src/util.c).   *)
(*                                                                         *)
(* Strings are sequences of byte values 1..255 (a C string without its     *)
(* terminating NUL).  Two routes are modelled:                             *)
(*   - a directory listing turns a file name into a link with              *)
(*     http_escape_string and into page text with html_escape_string; the  *)
(*     client sends the link back, and it is decoded with unescape_uri;    *)
(*   - a client sends an arbitrary request URI, which is decoded with      *)
(*     unescape_uri and then normalised with clean_pathname.               *)
(* Whether plain char is signed is chosen by the build (x86: signed, ARM:  *)
(* unsigned); both are explored.                                           *)
(***************************************************************************)
EXTENDS Naturals, Integers, Sequences, SequencesExt, Bitwise

CONSTANTS
  NameAlphabet,  \* bytes a file name in a listed directory may contain
  NameLen,       \* maximum file name length
  UriAlphabet,   \* bytes a client may put in a request URI
  UriLen,        \* maximum request URI length
  NoQuery        \* model value: unescape_uri left query_string unset

Byte == 1 .. 255

ASSUME NameAlphabet \subseteq Byte /\ 47 \notin NameAlphabet
ASSUME UriAlphabet \subseteq Byte
ASSUME NameLen \in Nat /\ UriLen \in Nat

VARIABLES
  signed,  \* the build's choice for plain char
  name,    \* the listed file name (<<>> on the client route)
  html,    \* html_escape_string(name), once computed
  uri,     \* the URI: escaped link or client URI, then decoded, then cleaned
  qs,      \* the query string unescape_uri found, or NoQuery
  stage    \* "named", "received", "decoded", "rejected", "cleaned"

vars == <<signed, name, html, uri, qs, stage>>

(***************************************************************************)
(* escape.c                                                                *)
(***************************************************************************)

(* special[] of build_needs_escape: alphanumerics and -_.!~*'():@&=+$,/?  *)
Special ==
  (65 .. 90) \cup (97 .. 122) \cup (48 .. 57)
    \cup {45, 95, 46, 33, 126, 42, 39, 40, 41, 58, 64, 38, 61, 43, 36, 44, 47, 63}

(* The table starts all ones and the special bytes are cleared; bytes at  *)
(* or above the table size are escaped as well.                            *)
NeedsEscape(c) == c \notin Special

(* INT_TO_HEX: upper-case hex digit (spec section 6). *)
INT_TO_HEX(n) == IF n < 10 THEN 48 + n ELSE 55 + n

(* Mutant: '?' left unescaped, as the table alone says. *)
EscapedInUriTable(c) == NeedsEscape(c)

(* The condition under which http_escape_string emits %XX: the table, or  *)
(* '?', which the table leaves clear.                                      *)
EscapedInUri(c) == NeedsEscape(c) \/ c = 63

(* The loop of http_escape_string.  The first ':' that is not the first   *)
(* output byte makes it memmove the output two bytes up and put "./" in   *)
(* front, so that the link is not read as a URI scheme.                   *)
RECURSIVE HttpEscapeLoop(_, _, _)
HttpEscapeLoop(inp, out, found_a_colon) ==
  IF inp = <<>> THEN out
  ELSE LET c == Head(inp) IN
       IF c = 58 /\ ~found_a_colon /\ out # <<>>
       THEN HttpEscapeLoop(Tail(inp), <<46, 47>> \o out \o <<58>>, TRUE)
       ELSE IF EscapedInUri(c)
       THEN HttpEscapeLoop(Tail(inp),
              out \o <<37, INT_TO_HEX((c \div 16) % 16), INT_TO_HEX(c % 16)>>,
              found_a_colon)
       ELSE HttpEscapeLoop(Tail(inp), out \o <<c>>, found_a_colon)

HttpEscapeString(inp) == HttpEscapeLoop(inp, <<>>, FALSE)

(* Mutant: the case for '"' missing from the switch. *)
HtmlUnitNoQuot(c) ==
  CASE c = 62 -> <<38, 103, 116, 59>>
    [] c = 60 -> <<38, 108, 116, 59>>
    [] c = 38 -> <<38, 97, 109, 112, 59>>
    [] OTHER  -> <<c>>

(* The switch of html_escape_string: &gt; &lt; &amp; &quot;, others copied. *)
HtmlUnit(c) ==
  CASE c = 62 -> <<38, 103, 116, 59>>
    [] c = 60 -> <<38, 108, 116, 59>>
    [] c = 38 -> <<38, 97, 109, 112, 59>>
    [] c = 34 -> <<38, 113, 117, 111, 116, 59>>
    [] OTHER  -> <<c>>

HtmlEscapeString(inp) == FlattenSeq([i \in 1 .. Len(inp) |-> HtmlUnit(inp[i])])

(***************************************************************************)
(* util.c                                                                  *)
(***************************************************************************)

(* The value of a plain char holding byte b. *)
CharVal(sgn, b) == IF sgn /\ b > 127 THEN b - 256 ELSE b

(* One digit of HEX_TO_DECIMAL: no check that it is a hex digit. *)
HexDigitVal(x) == IF x >= 65 THEN (x & 223) - 65 + 10 ELSE x - 48

HEX_TO_DECIMAL(sgn, c1, c2) ==
  HexDigitVal(CharVal(sgn, c1)) * 16 + HexDigitVal(CharVal(sgn, c2))

(* Mutant: only the upper bound of the control-character check. *)
CharRejectedHigh(sgn, v) == CharVal(sgn, v % 256) > 126

(* *uri < 32 || *uri > 126, after the int is stored into a plain char. *)
CharRejected(sgn, v) ==
  LET ch == CharVal(sgn, v % 256) IN ch < 32 \/ ch > 126

(* The query string unescape_uri sets after a '#': what follows the next  *)
(* '?', if there is one.                                                   *)
RECURSIVE AfterQuestion(_)
AfterQuestion(s) ==
  IF s = <<>> THEN NoQuery
  ELSE IF Head(s) = 63 THEN Tail(s) ELSE AfterQuestion(Tail(s))

(* The loop of unescape_uri, decoding in place: out is uri[0 .. ), the    *)
(* rest is uri_old.  The result is the return value, the string left in   *)
(* uri and the query string.                                               *)
RECURSIVE UnescapeLoop(_, _, _)
UnescapeLoop(sgn, inp, out) ==
  IF inp = <<>> THEN [ret |-> 1, out |-> out, qs |-> NoQuery]
  ELSE LET c == Head(inp) IN
       CASE c = 37 ->
              IF Len(inp) < 3
              THEN [ret |-> 0, out |-> out, qs |-> NoQuery]
              ELSE LET v == HEX_TO_DECIMAL(sgn, inp[2], inp[3]) IN
                   IF CharRejected(sgn, v)
                   THEN [ret |-> 0, out |-> out, qs |-> NoQuery]
                   ELSE UnescapeLoop(sgn, SubSeq(inp, 4, Len(inp)), out \o <<v % 256>>)
         [] c = 63 -> [ret |-> 1, out |-> out, qs |-> Tail(inp)]
         [] c = 35 -> [ret |-> 1, out |-> out, qs |-> AfterQuestion(Tail(inp))]
         [] OTHER  -> UnescapeLoop(sgn, Tail(inp), out \o <<c>>)

UnescapeUri(sgn, s) == UnescapeLoop(sgn, s, <<>>)

(* Mutant: the ../ case missing from the skip loop. *)
RECURSIVE SkipNoParent(_)
SkipNoParent(p) ==
  IF p # <<>> /\ p[1] = 47 THEN SkipNoParent(Tail(p))
  ELSE IF Len(p) >= 2 /\ p[1] = 46 /\ p[2] = 47 THEN SkipNoParent(SubSeq(p, 3, Len(p)))
  ELSE p

(* The inner while (1) of clean_pathname after a '/': skip "/", "./" and *)
(* "../" as long as one follows.                                          *)
RECURSIVE SkipDotSegments(_)
SkipDotSegments(p) ==
  IF p # <<>> /\ p[1] = 47 THEN SkipDotSegments(Tail(p))
  ELSE IF Len(p) >= 2 /\ p[1] = 46 /\ p[2] = 47 THEN SkipDotSegments(SubSeq(p, 3, Len(p)))
  ELSE IF Len(p) >= 3 /\ p[1] = 46 /\ p[2] = 46 /\ p[3] = 47
       THEN SkipDotSegments(SubSeq(p, 4, Len(p)))
  ELSE p

RECURSIVE CleanLoop(_, _)
CleanLoop(p, out) ==
  IF p = <<>> THEN out
  ELSE IF Head(p) = 47 THEN CleanLoop(SkipDotSegments(Tail(p)), out \o <<47>>)
  ELSE CleanLoop(Tail(p), out \o <<Head(p)>>)

CleanPathname(p) == CleanLoop(p, <<>>)

(***************************************************************************)
(* The two routes.  The callers (the directory listing and the request    *)
(* parser) are outside src/.                                              *)
(***************************************************************************)

Init ==
  /\ signed \in BOOLEAN
  /\ html = <<>>
  /\ qs = NoQuery
  /\ \/ /\ name \in BoundedSeq(NameAlphabet, NameLen) \ {<<>>}
        /\ uri = <<>>
        /\ stage = "named"
     \/ /\ name = <<>>
        /\ uri \in BoundedSeq(UriAlphabet, UriLen)
        /\ stage = "received"

(* The listing builds the link of an entry. *)
HttpEscape ==
  /\ stage = "named"
  /\ uri' = HttpEscapeString(name)
  /\ stage' = "received"
  /\ UNCHANGED <<signed, name, html, qs>>

(* The listing builds the text of an entry. *)
HtmlEscape ==
  /\ name # <<>>
  /\ html = <<>>
  /\ html' = HtmlEscapeString(name)
  /\ UNCHANGED <<signed, name, uri, qs, stage>>

(* unescape_uri on the received URI; a return of 0 rejects the request. *)
Unescape ==
  /\ stage = "received"
  /\ LET r == UnescapeUri(signed, uri) IN
       /\ uri' = r.out
       /\ qs' = r.qs
       /\ stage' = IF r.ret = 1 THEN "decoded" ELSE "rejected"
  /\ UNCHANGED <<signed, name, html>>

(* clean_pathname on the decoded path. *)
Clean ==
  /\ stage = "decoded"
  /\ uri' = CleanPathname(uri)
  /\ stage' = "cleaned"
  /\ UNCHANGED <<signed, name, html, qs>>

Next == HttpEscape \/ HtmlEscape \/ Unescape \/ Clean

Spec == Init /\ [][Next]_vars

(***************************************************************************)
(* Properties.                                                             *)
(***************************************************************************)

TypeOK ==
  /\ signed \in BOOLEAN
  /\ name \in Seq(Byte) /\ html \in Seq(Byte) /\ uri \in Seq(Byte)
  /\ qs \in Seq(Byte) \cup {NoQuery}
  /\ stage \in {"named", "received", "decoded", "rejected", "cleaned"}

Printable(s) == \A i \in 1 .. Len(s) : s[i] \in 32 .. 126

(* How a browser resolves a link relative to the listed directory. *)
Resolved(u) == IF Len(u) >= 2 /\ u[1] = 46 /\ u[2] = 47 THEN SubSeq(u, 3, Len(u)) ELSE u

(* A link of the directory listing, sent back by the client and decoded   *)
(* by unescape_uri, names the listed file: it is accepted exactly when    *)
(* the name is printable, with no query string, and resolves to the name. *)
(* Breaks if http_escape_string leaves a byte that unescape_uri treats    *)
(* specially, or the two disagree on hex or on the control-byte check.    *)
ListingLinkResolves ==
  (name # <<>> /\ stage \in {"decoded", "rejected"}) =>
    IF Printable(name)
    THEN stage = "decoded" /\ qs = NoQuery /\ Resolved(uri) = name
    ELSE stage = "rejected"

(* The reference decoding of html_escape_string's four entities. *)
RECURSIVE HtmlDecode(_)
HtmlDecode(s) ==
  IF s = <<>> THEN <<>>
  ELSE LET e == {c \in {34, 38, 60, 62} : IsPrefix(HtmlUnit(c), s) /\ Len(HtmlUnit(c)) > 1}
       IN IF e = {} THEN <<Head(s)>> \o HtmlDecode(Tail(s))
          ELSE LET c == CHOOSE x \in e : TRUE
               IN <<c>> \o HtmlDecode(SubSeq(s, Len(HtmlUnit(c)) + 1, Len(s)))

(* The page text of a listing entry contains no markup byte, and decoding *)
(* its entities gives back the file name: a name cannot inject HTML.      *)
HtmlEscapeFaithful ==
  html # <<>> =>
    /\ \A i \in 1 .. Len(html) : html[i] \notin {34, 60, 62}
    /\ HtmlDecode(html) = name

(* The comment of clean_pathname: no //, /./ or /../ is left in the path. *)
CleanNoDotSegments ==
  stage = "cleaned" =>
    \A seg \in {<<47, 47>>, <<47, 46, 47>>, <<47, 46, 46, 47>>} : seg \notin SubSeqs(uri)

IsHex(b) == b \in (48 .. 57) \cup (65 .. 70) \cup (97 .. 102)

HexVal(b) == IF b <= 57 THEN b - 48 ELSE (b % 32) + 9

(* A request URI whose path part has only well-formed %XX escapes of     *)
(* printable bytes.                                                       *)
RECURSIVE LegalPath(_)
LegalPath(s) ==
  IF s = <<>> \/ Head(s) \in {35, 63} THEN TRUE
  ELSE IF Head(s) = 37
       THEN /\ Len(s) >= 3 /\ IsHex(s[2]) /\ IsHex(s[3])
            /\ HexVal(s[2]) * 16 + HexVal(s[3]) \in 32 .. 126
            /\ LegalPath(SubSeq(s, 4, Len(s)))
       ELSE LegalPath(Tail(s))

(* The comment of unescape_uri: it returns 0 for an illegal string.  A    *)
(* step that accepts a URI only does so for a URI with legal escapes.     *)
UnescapeAcceptsOnlyLegal ==
  [][(stage = "received" /\ stage' = "decoded") => LegalPath(uri)]_vars

=============================================================================
