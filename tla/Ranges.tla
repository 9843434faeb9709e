------------------------------- MODULE Ranges -------------------------------
(***************************************************************************)
(* Byte ranges of boa (src/src/range.c): the process-wide free list of     *)
(* Range nodes (range_pool), the table-driven parser that turns a Range:   *)
(* header into a linked list hanging off req->ranges, and ranges_fixup,    *)
(* which resolves that list once the file size is known.                   *)
(*                                                                         *)
(* The heap is modelled by pointers: next, start and stop of every node,   *)
(* the pool head and each request's list head.  Every C function is an     *)
(* operator from a heap record to a heap record, so that each call is one  *)
(* atomic step, as it is in the single-threaded server; the interleaving   *)
(* is between requests that share the pool.  unsigned long is W bits wide  *)
(* and all arithmetic on range bounds wraps as it does in C.               *)
(***************************************************************************)
EXTENDS Naturals, Sequences, SequencesExt, FiniteSets, TLC

CONSTANTS
  Conns,     \* requests that own a range list
  Nodes,     \* the addresses malloc may return for a Range
  NIL,       \* the NULL pointer
  W,         \* bits in an unsigned long
  Sizes,     \* file sizes req->filesize may take
  Inputs     \* Range: header values, as sequences of one-character strings

ASSUME NIL \notin Nodes
ASSUME W \in Nat \ {0}
ASSUME Sizes \subseteq Nat  \* spec section 4.3 assumes S >= 1; an empty file has S = 0

Modulus   == 2^W
ULONG_MAX == Modulus - 1

(* The phase a request is in with respect to its ranges: set by the       *)
(* request handler outside range.c from the return values below.         *)
Phases == {"idle", "parsed", "failed", "serving", "unsatisfiable"}

VARIABLES
  next,        \* Range.next of every node
  rstart,      \* Range.start
  rstop,       \* Range.stop
  range_pool,  \* head of the free list
  allocated,   \* nodes obtained from malloc so far
  ranges,      \* req->ranges of every request
  filesize,    \* req->filesize of every request
  phase,       \* what the request handler has done with the ranges
  raw,         \* history: the (start, stop) pairs of the list before fixup
  hdrs         \* history: the Range: header values parsed for the request

vars == <<next, rstart, rstop, range_pool, allocated, ranges, filesize, phase, raw, hdrs>>

(* The heap as one record, and the step that installs a new one. *)
Mem == [next |-> next, rstart |-> rstart, rstop |-> rstop, pool |-> range_pool,
        alloc |-> allocated, ranges |-> ranges, oom |-> FALSE]

SetMem(m) ==
  /\ next' = m.next
  /\ rstart' = m.rstart
  /\ rstop' = m.rstop
  /\ range_pool' = m.pool
  /\ allocated' = m.alloc
  /\ ranges' = m.ranges

(* The nodes of a list, following next from head; stops after Cardinality *)
(* (Nodes) + 1 nodes, so that a cycle shows up as a repeated node.        *)
RECURSIVE Walk(_, _, _)
Walk(nxt, head, fuel) ==
  IF head = NIL \/ fuel = 0 THEN <<>>
  ELSE <<head>> \o Walk(nxt, nxt[head], fuel - 1)

ListOf(m, head) == Walk(m.next, head, Cardinality(Nodes) + 1)

Pairs(m, head) == [i \in 1 .. Len(ListOf(m, head)) |->
                     <<m.rstart[ListOf(m, head)[i]], m.rstop[ListOf(m, head)[i]]>>]

(***************************************************************************)
(* The free list.                                                          *)
(***************************************************************************)

(* range_pool_pop: take the head of the pool, or malloc a fresh node, and *)
(* clear it.  Running out of Nodes is the model's bound, flagged as oom.  *)
RangePoolPop(m) ==
  LET fresh == Nodes \ m.alloc
      r == IF m.pool # NIL THEN m.pool
           ELSE IF fresh # {} THEN CHOOSE n \in fresh : TRUE ELSE NIL
      m1 == IF m.pool # NIL THEN [m EXCEPT !.pool = m.next[r]]
            ELSE [m EXCEPT !.alloc = @ \cup {r}]
  IN IF r = NIL THEN [m |-> [m EXCEPT !.oom = TRUE], r |-> NIL]
     ELSE [m |-> [m1 EXCEPT !.rstart[r] = 0, !.rstop[r] = 0, !.next[r] = NIL], r |-> r]

(* range_pool_push *)
RangePoolPush(m, r) == [m EXCEPT !.next[r] = m.pool, !.pool = r]

(* ranges_reset: push every node of the list, reading next first. *)
RECURSIVE ResetFrom(_, _)
ResetFrom(m, r) == IF r = NIL THEN m ELSE ResetFrom(RangePoolPush(m, r), m.next[r])

RangesReset(m, c) == [ResetFrom(m, m.ranges[c]) EXCEPT !.ranges[c] = NIL]

(* range_abort: free the list, then hang a marker node with stop =        *)
(* ULONG_MAX off req->ranges.                                              *)
RangeAbort(m, c) ==
  LET p == RangePoolPop(RangesReset(m, c))
  IN  IF p.r = NIL THEN p.m
      ELSE [p.m EXCEPT !.ranges[c] = p.r, !.rstop[p.r] = ULONG_MAX]

(* The last node of a list (the for loop in range_add). *)
RECURSIVE LastOf(_, _)
LastOf(m, r) == IF r = NIL \/ m.next[r] = NIL THEN r ELSE LastOf(m, m.next[r])

(* range_add: pop a node, then append it at the tail of req->ranges. *)
RangeAdd(m, c, start, stop) ==
  LET p == RangePoolPop(m)
      r == p.r
      prev == LastOf(p.m, p.m.ranges[c])
      m1 == IF prev # NIL THEN [p.m EXCEPT !.next[prev] = r]
            ELSE [p.m EXCEPT !.ranges[c] = r]
  IN  IF r = NIL THEN p.m
      ELSE [m1 EXCEPT !.rstart[r] = start, !.rstop[r] = stop]

(***************************************************************************)
(* range_parse.                                                            *)
(***************************************************************************)

DigitChar == <<"0", "1", "2", "3", "4", "5", "6", "7", "8", "9">>

DigitVal(ch) == CHOOSE d \in 0 .. 9 : DigitChar[d + 1] = ch

(* The character classes: digit, white, comma, hyphen, null, other. *)
CCode(str) ==
  IF str = <<>> THEN 4
  ELSE LET ch == Head(str) IN
       CASE ch \in ToSet(DigitChar)             -> 0
         [] ch \in {" ", "\t", "\n", "\r"}        -> 1  \* and \f, \v
         [] ch = ","                             -> 2
         [] ch = "-"                             -> 3
         [] OTHER                                -> 5

(* An entry of stable[]: the push action (PB, PE, DB, DE or none), the    *)
(* flow action (AR, SR or none) and the next mode.                         *)
E(push, flow, mode) == [push |-> push, flow |-> flow, mode |-> mode]
AR == E("", "AR", 0)

(* stable[], one row per mode: initial, startnum, gap1, gap2, stopnum;   *)
(* columns digit, white, comma, hyphen, null, other.                      *)
STable ==
  << << E("PB", "", 1), E("", "", 0), E("", "", 0), E("DB", "", 3), E("", "", 0), AR >>,
     << E("PB", "", 1), E("", "", 2), AR, E("", "", 3), AR, AR >>,
     << AR, E("", "", 2), AR, E("", "", 3), AR, AR >>,
     << E("PE", "", 4), E("", "", 3), E("DE", "SR", 0), AR, E("DE", "SR", 0), AR >>,
     << E("PE", "", 4), E("", "SR", 0), E("", "SR", 0), AR, E("", "SR", 0), AR >> >>

(* Mutant: digits accumulated without the wrap of unsigned long. *)
AccumulateUnwrapped(v, ch) == v * 10 + DigitVal(ch)

(* start = start * 10 + (c - '0') in unsigned long arithmetic. *)
Accumulate(v, ch) == (v * 10 + DigitVal(ch)) % Modulus

(* Mutant: the accumulators kept after a range is submitted. *)
SubmittedNoReset(f, v) == v

(* After range_add, start = 0; stop = 0. *)
Submitted(f, v) == IF f.flow = "SR" THEN 0 ELSE v

(* The for (;;) loop of range_parse, one character per call; the end of   *)
(* the sequence is the terminating '\0'.                                   *)
RECURSIVE ParseLoop(_, _, _, _, _, _)
ParseLoop(m, c, str, mode, start, stop) ==
  LET cc == CCode(str)
      f  == STable[mode + 1][cc + 1]
      start1 == CASE f.push = "PB" -> Accumulate(start, Head(str))
                  [] f.push = "DB" -> ULONG_MAX
                  [] OTHER         -> start
      stop1  == CASE f.push = "PE" -> Accumulate(stop, Head(str))
                  [] f.push = "DE" -> ULONG_MAX
                  [] OTHER         -> stop
      m1 == IF f.flow = "SR" THEN RangeAdd(m, c, start1, stop1) ELSE m
      start2 == Submitted(f, start1)
      stop2  == Submitted(f, stop1)
  IN  CASE f.flow = "AR" -> [m |-> RangeAbort(m, c), ret |-> 0]
        [] cc = 4        -> [m |-> m1, ret |-> 1]
        [] OTHER         -> ParseLoop(m1, c, Tail(str), f.mode, start2, stop2)

(* range_parse: the header must start with "bytes=" (any case); that      *)
(* prefix is one symbol of the input alphabet.                             *)
RangeParse(m, c, str) ==
  IF str = <<>> \/ Head(str) # "bytes=" THEN [m |-> m, ret |-> 0]
  ELSE ParseLoop(m, c, Tail(str), 0, 0, 0)

(***************************************************************************)
(* ranges_fixup.                                                           *)
(***************************************************************************)

(* Mutant: the node is pushed without prev->next = r->next. *)
DropNodeNoUnlink(m, prev, r) == RangePoolPush(m, r)

(* Unlink r (prev->next = r->next when there is a prev) and push it. *)
DropNode(m, prev, r) ==
  LET m1 == IF prev # NIL THEN [m EXCEPT !.next[prev] = m.next[r]] ELSE m
  IN  RangePoolPush(m1, r)

(* Mutant: stop clamped only when it exceeds filesize. *)
ClampStopAtSize(m, r, S) ==
  IF m.rstop[r] > S THEN [m EXCEPT !.rstop[r] = (S - 1) % Modulus] ELSE m

(* if (r->stop > req->filesize - 1) r->stop = req->filesize - 1; *)
ClampStop(m, r, S) ==
  LET last == (S - 1) % Modulus
  IN  IF m.rstop[r] > last THEN [m EXCEPT !.rstop[r] = last] ELSE m

(* The while (r) loop of ranges_fixup.  S is req->filesize; -1 is         *)
(* ULONG_MAX and every subtraction wraps.                                  *)
RECURSIVE FixupLoop(_, _, _, _, _)
FixupLoop(m, c, S, prev, r) ==
  IF r = NIL THEN m
  ELSE
    LET st == m.rstart[r]
        sp == m.rstop[r]
        m1 == CASE st = ULONG_MAX -> [m EXCEPT !.rstart[r] = (S - sp) % Modulus,
                                               !.rstop[r] = (S - 1) % Modulus]
                [] sp = ULONG_MAX -> [m EXCEPT !.rstop[r] = (S - 1) % Modulus]
                [] OTHER          -> m
        inverted == st # ULONG_MAX /\ sp # ULONG_MAX /\ st > sp
        m2 == ClampStop(m1, r, S)
        m3 == IF prev = NIL THEN [m2 EXCEPT !.ranges[c] = r] ELSE m2
    IN  CASE inverted           -> FixupLoop(DropNode(m, prev, r), c, S, prev, m.next[r])
          [] m1.rstart[r] > S   -> FixupLoop(DropNode(m1, prev, r), c, S, prev, m.next[r])
          [] OTHER              -> FixupLoop(m3, c, S, r, m.next[r])

(* ranges_fixup: detach the list, walk it, report whether anything is    *)
(* left (0 makes the caller send 416 Range Not Satisfiable).               *)
RangesFixup(m, c, S) ==
  LET m1 == FixupLoop([m EXCEPT !.ranges[c] = NIL], c, S, NIL, m.ranges[c])
  IN  [m |-> m1, ret |-> IF m1.ranges[c] = NIL THEN 0 ELSE 1]

(***************************************************************************)
(* The request handler's use of range.c.                                   *)
(***************************************************************************)

Init ==
  /\ next = [n \in Nodes |-> NIL]
  /\ rstart = [n \in Nodes |-> 0]
  /\ rstop = [n \in Nodes |-> 0]
  /\ range_pool = NIL
  /\ allocated = {}
  /\ ranges = [c \in Conns |-> NIL]
  /\ filesize = [c \in Conns |-> 0]
  /\ phase = [c \in Conns |-> "idle"]
  /\ raw = [c \in Conns |-> <<>>]
  /\ hdrs = [c \in Conns |-> <<>>]

(* A Range: header line is read: range_parse.  A request may carry more  *)
(* than one such line; each call appends to the same list.                 *)
Parse(c, str) ==
  /\ phase[c] \in {"idle", "parsed"}
  /\ LET p == RangeParse(Mem, c, str) IN
       /\ ~p.m.oom
       /\ SetMem(p.m)
       /\ phase' = [phase EXCEPT ![c] = IF p.ret = 1 THEN "parsed" ELSE "failed"]
  /\ hdrs' = [hdrs EXCEPT ![c] = Append(@, str)]
  /\ UNCHANGED <<filesize, raw>>

(* The file has been opened: req->filesize is set and ranges_fixup runs. *)
Fixup(c, S) ==
  /\ phase[c] = "parsed"
  /\ LET p == RangesFixup(Mem, c, S) IN
       /\ SetMem(p.m)
       /\ phase' = [phase EXCEPT ![c] = IF p.ret = 1 THEN "serving" ELSE "unsatisfiable"]
  /\ filesize' = [filesize EXCEPT ![c] = S]
  /\ raw' = [raw EXCEPT ![c] = Pairs(Mem, ranges[c])]
  /\ UNCHANGED hdrs

(* The request is finished or the connection closes: ranges_reset. *)
Reset(c) ==
  /\ phase[c] # "idle"
  /\ SetMem(RangesReset(Mem, c))
  /\ phase' = [phase EXCEPT ![c] = "idle"]
  /\ raw' = [raw EXCEPT ![c] = <<>>]
  /\ hdrs' = [hdrs EXCEPT ![c] = <<>>]
  /\ UNCHANGED filesize

Next ==
  \E c \in Conns :
    \/ \E str \in Inputs : Parse(c, str)
    \/ \E S \in Sizes : Fixup(c, S)
    \/ Reset(c)

Spec == Init /\ [][Next]_vars

(***************************************************************************)
(* Properties.                                                             *)
(***************************************************************************)

TypeOK ==
  /\ next \in [Nodes -> Nodes \cup {NIL}]
  /\ rstart \in [Nodes -> 0 .. ULONG_MAX]
  /\ rstop \in [Nodes -> 0 .. ULONG_MAX]
  /\ range_pool \in Nodes \cup {NIL}
  /\ allocated \subseteq Nodes
  /\ ranges \in [Conns -> Nodes \cup {NIL}]
  /\ filesize \in [Conns -> {0} \cup Sizes]
  /\ phase \in [Conns -> Phases]

PoolList   == ListOf(Mem, range_pool)
ReqList(c) == ListOf(Mem, ranges[c])

(* Spec section 8, the pool invariant: every node malloc has returned is  *)
(* on exactly one list, the free list or one request's list, and every    *)
(* list is acyclic.  It is about the pointer surgery in range_pool_pop/   *)
(* push, ranges_reset, range_abort, range_add and the two unlink paths of  *)
(* ranges_fixup, across requests that share the pool.                      *)
NodeOwnership ==
  /\ IsInjective(PoolList)
  /\ \A c \in Conns : IsInjective(ReqList(c))
  /\ \A c \in Conns : ToSet(PoolList) \cap ToSet(ReqList(c)) = {}
  /\ \A c, d \in Conns : c # d => ToSet(ReqList(c)) \cap ToSet(ReqList(d)) = {}
  /\ ToSet(PoolList) \cup UNION {ToSet(ReqList(c)) : c \in Conns} = allocated

(* A reference for ranges_fixup over sequences of (start, stop) pairs:    *)
(* resolve the open ends, keep the pairs the code keeps, clamp stop, in   *)
(* the client's order.                                                     *)
ResolvedPair(p, S) ==
  CASE p[1] = ULONG_MAX -> <<(S - p[2]) % Modulus, (S - 1) % Modulus>>
    [] p[2] = ULONG_MAX -> <<p[1], (S - 1) % Modulus>>
    [] OTHER            -> p

KeptPair(p, S) ==
  /\ ~(p[1] # ULONG_MAX /\ p[2] # ULONG_MAX /\ p[1] > p[2])
  /\ ResolvedPair(p, S)[1] <= S

ClampPair(q, S) == <<q[1], IF q[2] > (S - 1) % Modulus THEN (S - 1) % Modulus ELSE q[2]>>

Resolve(rw, S) ==
  LET keep == SelectSeq(rw, LAMBDA p : KeptPair(p, S))
  IN  [i \in 1 .. Len(keep) |-> ClampPair(ResolvedPair(keep[i], S), S)]

(* After ranges_fixup the request's list holds exactly the resolved pairs *)
(* of the list it was given, in the client's order, and the request is    *)
(* unsatisfiable exactly when none is left: the in-place walk, with its   *)
(* prev pointer and the head re-assignment, implements the filter.         *)
FixupMatchesReference ==
  \A c \in Conns :
    phase[c] \in {"serving", "unsatisfiable"} =>
      /\ Pairs(Mem, ranges[c]) = Resolve(raw[c], filesize[c])
      /\ (phase[c] = "serving") = (Resolve(raw[c], filesize[c]) # <<>>)


(***************************************************************************)
(* What a Range: header means (spec section 6 and 4.3), read from its     *)
(* text with unbounded integers: "bytes=" then comma-separated elements,   *)
(* empty elements ignored (RFC 7230 section 7), each "a-b", "a-" or "-n"  *)
(* in digits; anything else makes the whole header a syntax error.  A     *)
(* suffix longer than the file (first < 0) is rejected, the policy the    *)
(* code follows for the open question of section 9.                       *)
(***************************************************************************)

RECURSIVE SplitComma(_, _)
SplitComma(str, cur) ==
  IF str = <<>> THEN <<cur>>
  ELSE IF Head(str) = "," THEN <<cur>> \o SplitComma(Tail(str), <<>>)
  ELSE SplitComma(Tail(str), Append(cur, Head(str)))

IsNumber(d) == d # <<>> /\ \A i \in DOMAIN d : d[i] \in ToSet(DigitChar)

Number(d) == FoldLeft(LAMBDA a, ch : a * 10 + DigitVal(ch), 0, d)

(* Not given: a value no number of the text can take. *)
Open == -1

(* An element as <<first, last>>, Open where the client left it out. *)
RefElement(e) ==
  LET hy == {i \in DOMAIN e : e[i] = "-"}
      h  == CHOOSE i \in hy : TRUE
      a  == SubSeq(e, 1, h - 1)
      b  == SubSeq(e, h + 1, Len(e))
  IN  IF Cardinality(hy) # 1 \/ (a # <<>> /\ ~IsNumber(a)) \/ (b # <<>> /\ ~IsNumber(b))
         \/ (a = <<>> /\ b = <<>>)
      THEN [ok |-> FALSE, p |-> <<Open, Open>>]
      ELSE [ok |-> TRUE,
            p  |-> <<IF a = <<>> THEN Open ELSE Number(a), IF b = <<>> THEN Open ELSE Number(b)>>]

(* The elements of one header value; ok is FALSE for a syntax error. *)
RefParse(str) ==
  IF str = <<>> \/ Head(str) # "bytes=" THEN [ok |-> FALSE, rs |-> <<>>]
  ELSE LET es == SelectSeq(SplitComma(Tail(str), <<>>), LAMBDA e : e # <<>>)
           rs == [i \in 1 .. Len(es) |-> RefElement(es[i])]
       IN  [ok |-> \A i \in DOMAIN rs : rs[i].ok, rs |-> [i \in DOMAIN rs |-> rs[i].p]]

(* Section 4.3 on one element, as a sequence of zero or one interval. *)
RefResolve(p, S) ==
  LET first == IF p[1] = Open THEN S - p[2] ELSE p[1]
      last  == IF p[1] = Open \/ p[2] = Open THEN S - 1 ELSE p[2]
  IN  IF first < 0 \/ first > last \/ first > S - 1 THEN <<>>
      ELSE <<<<first, IF last > S - 1 THEN S - 1 ELSE last>>>>

(* The elements of all the request's headers, or ok = FALSE. *)
RefOutcome(c) ==
  [ok |-> \A i \in DOMAIN hdrs[c] : RefParse(hdrs[c][i]).ok,
   rs |-> FlattenSeq([i \in DOMAIN hdrs[c] |-> RefParse(hdrs[c][i]).rs])]

(* Parser and fixup together give every Range: header its meaning: the   *)
(* request fails to parse exactly when a header is malformed, and after    *)
(* fixup it serves exactly the byte intervals the elements denote in the   *)
(* file, in the client's order, and is unsatisfiable exactly when there    *)
(* are none.  The unsigned long accumulators, the ULONG_MAX "not given"   *)
(* marker and the wrapping S - n of a suffix all sit between the text and *)
(* the result.                                                             *)
RangeHeaderMeaning ==
  \A c \in Conns :
    /\ phase[c] # "idle" => ((phase[c] = "failed") = ~RefOutcome(c).ok)
    /\ phase[c] \in {"serving", "unsatisfiable"} =>
         LET rs   == RefOutcome(c).rs
             want == FlattenSeq([i \in DOMAIN rs |-> RefResolve(rs[i], filesize[c])])
         IN  /\ Pairs(Mem, ranges[c]) = want
             /\ (phase[c] = "serving") = (want # <<>>)

=============================================================================
