--------------------------- MODULE IfModifiedSince ---------------------------
(***************************************************************************)
(* boa's If-Modified-Since test (src/src/util.c): modified_since, which   *)
(* reads the header date with a cascade of four sscanf formats, and       *)
(* month2int, which maps a month name to 0..11 from at most three of its  *)
(* letters.  The header is a sequence of one-letter strings.  sscanf is  *)
(* modelled by its C-standard meaning for the directives the formats use: *)
(* white space, ordinary characters, %d and %Ns; it returns the number of *)
(* values assigned.  monthname[11] is an uninitialised local that every  *)
(* attempt converting its %s overwrites, so a short name lets month2int   *)
(* read bytes left by an earlier attempt, or never written ("?"), whose   *)
(* value is any byte.                                                      *)
(***************************************************************************)
EXTENDS Naturals, Integers, Sequences, SequencesExt, TLC, DateHeaders

CONSTANTS
  Headers,  \* header values: [text, valid, time] records (DateHeaders)
  Files,    \* file times: [tm_year, tm_mon, tm_mday, tm_hour, tm_min, tm_sec]
  NotRun    \* model value: modified_since not called yet

Digit == <<"0", "1", "2", "3", "4", "5", "6", "7", "8", "9">>

IsDigitC(c) == \E i \in 1 .. 10 : Digit[i] = c

DigitValue(c) == CHOOSE i \in 0 .. 9 : Digit[i + 1] = c

(***************************************************************************)
(* sscanf.  A directive is white space, an ordinary character, %d or %Ns. *)
(***************************************************************************)
Ws == [k |-> "ws"]
Lit(c) == [k |-> "lit", c |-> c]
Dec == [k |-> "d"]
Str(w) == [k |-> "s", w |-> w]

RECURSIVE SkipWs(_)
SkipWs(in) == IF in # <<>> /\ Head(in) = " " THEN SkipWs(Tail(in)) ELSE in

Matches(kind, c) == IF kind = "digit" THEN IsDigitC(c) ELSE c # " "

(* The longest prefix of at most w digits, or of non-white bytes. *)
RECURSIVE Run(_, _, _)
Run(kind, in, w) ==
  IF w > 0 /\ in # <<>> /\ Matches(kind, Head(in))
  THEN <<Head(in)>> \o Run(kind, Tail(in), w - 1)
  ELSE <<>>

(* The values assigned, in order, as [k, v] records; scanning stops at    *)
(* the first directive that fails.                                        *)
RECURSIVE Scan(_, _, _)
Scan(fmt, in, vals) ==
  IF fmt = <<>> THEN vals
  ELSE LET d == Head(fmt) IN
  CASE d.k = "ws" -> Scan(Tail(fmt), SkipWs(in), vals)
    [] d.k = "lit" ->
         IF in # <<>> /\ Head(in) = d.c THEN Scan(Tail(fmt), Tail(in), vals) ELSE vals
    [] d.k = "d" ->
         LET i   == SkipWs(in)
             neg == i # <<>> /\ Head(i) = "-"
             j   == IF i # <<>> /\ Head(i) \in {"-", "+"} THEN Tail(i) ELSE i
             ds  == Run("digit", j, Len(j))
             n   == FoldLeft(LAMBDA a, c : a * 10 + DigitValue(c), 0, ds)
         IN IF ds = <<>> THEN vals
            ELSE Scan(Tail(fmt), SubSeq(j, Len(ds) + 1, Len(j)),
                      Append(vals, [k |-> "d", v |-> IF neg THEN -n ELSE n]))
    [] d.k = "s" ->
         LET i == SkipWs(in)
             w == Run("nonws", i, d.w)
         IN IF w = <<>> THEN vals
            ELSE Scan(Tail(fmt), SubSeq(i, Len(w) + 1, Len(i)),
                      Append(vals, [k |-> "s", v |-> w]))

(* "%d %3s %d %d:%d:%d GMT"   RFC 1123 *)
F1123 == <<Dec, Ws, Str(3), Ws, Dec, Ws, Dec, Lit(":"), Dec, Lit(":"), Dec,
           Ws, Lit("G"), Lit("M"), Lit("T")>>
(* "%d-%3s-%d %d:%d:%d GMT"   RFC 1036 *)
F1036 == <<Dec, Lit("-"), Str(3), Lit("-"), Dec, Ws, Dec, Lit(":"), Dec, Lit(":"), Dec,
           Ws, Lit("G"), Lit("M"), Lit("T")>>
(* " %3s %d %d:%d:%d %d"      asctime() *)
FAsc  == <<Ws, Str(3), Ws, Dec, Ws, Dec, Lit(":"), Dec, Lit(":"), Dec, Ws, Dec>>
(* "%d %10s %d %d:%d:%d GMT"  "31 September 2000 23:59:59 GMT" *)
FNon  == <<Dec, Ws, Str(10), Ws, Dec, Ws, Dec, Lit(":"), Dec, Lit(":"), Dec,
           Ws, Lit("G"), Lit("M"), Lit("T")>>

(* monthname after an attempt: a converted %s is stored with its NUL. *)
AfterScan(mn, vals) ==
  IF \E i \in DOMAIN vals : vals[i].k = "s"
  THEN LET s == vals[CHOOSE i \in DOMAIN vals : vals[i].k = "s"].v IN
       [i \in 1 .. 11 |-> IF i <= Len(s) THEN s[i]
                          ELSE IF i = Len(s) + 1 THEN "NUL" ELSE mn[i]]
  ELSE mn

Uninit == [i \in 1 .. 11 |-> "?"]

(* Whether a byte equals x: an indeterminate byte may or may not. *)
Is(c, x) == IF c = "?" THEN BOOLEAN ELSE {c = x}

(* Mutant: the third letter of a J month read at the second position. *)
Month2IntJ1(mn) ==
  CASE mn[1] = "A" -> {IF b THEN 3 ELSE 7 : b \in Is(mn[2], "p")}
    [] mn[1] = "D" -> {11}
    [] mn[1] = "F" -> {1}
    [] mn[1] = "J" -> UNION {IF b THEN {0} ELSE {IF b2 THEN 5 ELSE 6 : b2 \in Is(mn[2], "n")}
                             : b \in Is(mn[2], "a")}
    [] mn[1] = "M" -> {IF b THEN 2 ELSE 4 : b \in Is(mn[3], "r")}
    [] mn[1] = "N" -> {10}
    [] mn[1] = "O" -> {9}
    [] mn[1] = "S" -> {8}
    [] OTHER -> {-1}

(* month2int, as the set of values it may return. *)
Month2Int(mn) ==
  CASE mn[1] = "A" -> {IF b THEN 3 ELSE 7 : b \in Is(mn[2], "p")}
    [] mn[1] = "D" -> {11}
    [] mn[1] = "F" -> {1}
    [] mn[1] = "J" -> UNION {IF b THEN {0} ELSE {IF b2 THEN 5 ELSE 6 : b2 \in Is(mn[3], "n")}
                             : b \in Is(mn[2], "a")}
    [] mn[1] = "M" -> {IF b THEN 2 ELSE 4 : b \in Is(mn[3], "r")}
    [] mn[1] = "N" -> {10}
    [] mn[1] = "O" -> {9}
    [] mn[1] = "S" -> {8}
    [] OTHER -> {-1}

(* The six fields from a successful attempt, given the positions of day,  *)
(* year, hour, minute and second among its values.                        *)
Fields(vals, mn, pos, yadd) ==
  [ok |-> TRUE, day |-> vals[pos[1]].v, year |-> vals[pos[2]].v + yadd, hour |-> vals[pos[3]].v,
   minute |-> vals[pos[4]].v, second |-> vals[pos[5]].v, mn |-> mn]

(* Mutant: comp returned instead of comp > 0. *)
RECURSIVE CompareComp(_)
CompareComp(diffs) ==
  IF diffs = <<>> THEN 0
  ELSE IF Head(diffs) # 0 THEN Head(diffs)
  ELSE CompareComp(Tail(diffs))

(* The comparison from years to seconds: comp > 0 at the first field     *)
(* that differs, 0 when none does.                                         *)
RECURSIVE Compare(_)
Compare(diffs) ==
  IF diffs = <<>> THEN 0
  ELSE IF Head(diffs) # 0 THEN (IF Head(diffs) > 0 THEN 1 ELSE 0)
  ELSE Compare(Tail(diffs))

(* modified_since, as the set of values it may return. *)
ModifiedSince(file, text) ==
  IF \A i \in DOMAIN text : text[i] # " " THEN {-1}
  ELSE
  LET sp  == CHOOSE i \in DOMAIN text : text[i] = " " /\ \A j \in 1 .. i - 1 : text[j] # " "
      ims == SubSeq(text, sp, Len(text))
      v1 == Scan(F1123, ims, <<>>)
      m1 == AfterScan(Uninit, v1)
      v2 == Scan(F1036, ims, <<>>)
      m2 == AfterScan(m1, v2)
      v3 == Scan(FAsc, ims, <<>>)
      m3 == AfterScan(m2, v3)
      v4 == Scan(FNon, text, <<>>)
      m4 == AfterScan(m3, v4)
      f == CASE Len(v1) = 6 -> Fields(v1, m1, <<1, 3, 4, 5, 6>>, 0)
             [] Len(v2) = 6 -> Fields(v2, m2, <<1, 3, 4, 5, 6>>, 1900)
             [] Len(v3) = 6 -> Fields(v3, m3, <<2, 6, 3, 4, 5>>, 0)
             [] Len(v4) = 6 -> Fields(v4, m4, <<1, 3, 4, 5, 6>>, 0)
             [] OTHER -> [ok |-> FALSE]
  IN IF ~f.ok THEN {-1}
     ELSE { IF month = -1 THEN -1
            ELSE Compare(<<1900 + file.tm_year - f.year, file.tm_mon - month,
                           file.tm_mday - f.day, file.tm_hour - f.hour,
                           file.tm_min - f.minute, file.tm_sec - f.second>>)
            : month \in Month2Int(f.mn) }

(***************************************************************************)
(* The request path outside src/ calls modified_since with the file's     *)
(* mtime and the header value.                                             *)
(***************************************************************************)
VARIABLES hdr, file, ret

vars == <<hdr, file, ret>>

Init ==
  /\ hdr \in Headers
  /\ file \in Files
  /\ ret = NotRun

ModifiedSinceCall ==
  /\ ret = NotRun
  /\ ret' \in ModifiedSince(file, hdr.text)
  /\ UNCHANGED <<hdr, file>>

Next == ModifiedSinceCall

Spec == Init /\ [][Next]_vars

(***************************************************************************)
(* Properties.                                                             *)
(***************************************************************************)

TypeOK ==
  /\ hdr \in Headers
  /\ file \in Files
  /\ ret \in {NotRun, -1, 0, 1}

(* Times as <<year, month, day, hour, minute, second>>, and their order. *)
FileTime(f) == <<1900 + f.tm_year, f.tm_mon, f.tm_mday, f.tm_hour, f.tm_min, f.tm_sec>>

HeaderTime(t) == <<t.year, t.mon, t.day, t.hour, t.minute, t.second>>

Later(a, b) == \E i \in 1 .. 6 : a[i] > b[i] /\ \A j \in 1 .. i - 1 : a[j] = b[j]

(* modified_since answers "modified" exactly when the file is later than  *)
(* the date the header denotes, in each of the four date layouts it      *)
(* accepts, whatever the cascade's earlier attempts left in monthname;    *)
(* a value with no date in it is an error.                                *)
ModifiedSinceCorrect ==
  ret # NotRun =>
    ret = IF ~hdr.valid THEN -1
          ELSE IF Later(FileTime(file), HeaderTime(hdr.time)) THEN 1 ELSE 0

=============================================================================
