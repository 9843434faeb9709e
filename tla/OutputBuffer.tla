--------------------------- MODULE OutputBuffer ---------------------------
(***************************************************************************)
(* The per-connection output buffer of boa (src/src/buffer.c).             *)
(*                                                                         *)
(* A request owns a fixed array of C bytes; [buffer_start, buffer_end) is  *)
(* the part still to be sent.  The response generator appends to it with  *)
(* req_write (raw), req_write_escape_http (%XX) and req_write_escape_html  *)
(* (&entity;); the select loop calls req_flush, which makes exactly one    *)
(* non-blocking write() and advances buffer_start by what the kernel took. *)
(* Overflow and write errors mark the request DEAD.                        *)
(*                                                                         *)
(* Data is abstracted to a five-character alphabet that covers every      *)
(* branch of both escape loops; bytes are one-character strings, so the   *)
(* encodings are modelled by what they produce.  The history variables    *)
(* wire (what the client received) and accepted (the encodings of every   *)
(* write that returned success, in call order) exist for the properties.  *)
(***************************************************************************)
EXTENDS Naturals, Sequences, SequencesExt, TLC

CONSTANTS
  C,         \* sizeof(req->buffer)
  Msgs,      \* the strings the response generator may pass to a write
  MaxCalls   \* bound on the number of write calls in one behaviour

(* Status values, in the order of boa's request status enum: every state  *)
(* of the request machine before DONE is represented by WRITE.            *)
WRITE == 0
DONE  == 1
DEAD  == 2

(* The input alphabet: a letter, a space, and the three characters that   *)
(* the two escape routines treat specially.                                *)
Chars == {"a", " ", "<", "&", "\""}

ASSUME C \in Nat \ {0}
ASSUME Msgs \subseteq Seq(Chars) /\ \A m \in Msgs : m # <<>>
ASSUME MaxCalls \in Nat

VARIABLES
  buf,           \* req->buffer[0 .. buffer_end-1]; buffer_end == Len(buf)
  buffer_start,  \* req->buffer_start
  status,        \* req->status
  wire,          \* history: bytes the client has received, in order
  accepted,      \* history: encoded output of every successful write call
  calls          \* number of write calls made so far (bounded)

vars == <<buf, buffer_start, status, wire, accepted, calls>>

buffer_end == Len(buf)

(* The bytes still to be sent: [buffer_start, buffer_end). *)
Pending == SubSeq(buf, buffer_start + 1, buffer_end)

(***************************************************************************)
(* Encodings (escape.c, buffer.c).                                         *)
(***************************************************************************)

(* The characters of special[] in build_needs_escape that occur in the    *)
(* alphabet: they are cleared in the table, every other byte stays set.   *)
Special == {"a", "&"}

NeedsEscape(c) == c \notin Special

CharCode == ("a" :> 97) @@ (" " :> 32) @@ ("<" :> 60) @@ ("&" :> 38) @@ ("\"" :> 34)

HexDigit == <<"0","1","2","3","4","5","6","7","8","9","A","B","C","D","E","F">>

(* Mutant: lower-case hex digits. *)
INT_TO_HEX_lower(n) ==
  <<"0","1","2","3","4","5","6","7","8","9","a","b","c","d","e","f">>[n + 1]

INT_TO_HEX(n) == HexDigit[n + 1]

(* One input byte as req_write_escape_http emits it. *)
HttpUnit(c) ==
  IF NeedsEscape(c)
  THEN <<"%", INT_TO_HEX((CharCode[c] \div 16) % 16), INT_TO_HEX(CharCode[c] % 16)>>
  ELSE <<c>>

HtmlEntity ==
     (">"  :> <<"&", "g", "t", ";">>)
  @@ ("<"  :> <<"&", "l", "t", ";">>)
  @@ ("&"  :> <<"&", "a", "m", "p", ";">>)
  @@ ("\"" :> <<"&", "q", "u", "o", "t", ";">>)

(* One input byte as req_write_escape_html emits it. *)
HtmlUnit(c) == IF c \in DOMAIN HtmlEntity THEN HtmlEntity[c] ELSE <<c>>

(* One input byte as the routine of the given encoding emits it. *)
Unit(enc, c) == IF enc = "http" THEN HttpUnit(c) ELSE HtmlUnit(c)

(* The copy loop shared by both escape routines:                          *)
(*   while ((c = *inp++) && left >= guard) { emit unit of c; left -= ... } *)
(* It yields what was emitted and what input was not consumed.            *)
RECURSIVE EscapeCopy(_, _, _, _)
EscapeCopy(enc, guard, inp, left) ==
  IF inp = <<>> \/ left < guard
  THEN [out |-> <<>>, rest |-> inp]
  ELSE LET u == Unit(enc, Head(inp))
           r == EscapeCopy(enc, guard, Tail(inp), left - Len(u))
       IN  [out |-> u \o r.out, rest |-> r.rest]

(***************************************************************************)
(* Operations.                                                             *)
(***************************************************************************)

Init ==
  /\ buf = <<>>
  /\ buffer_start = 0
  /\ status = WRITE
  /\ wire = <<>>
  /\ accepted = <<>>
  /\ calls = 0

(* req_write: refused silently once status > DONE; all-or-nothing copy;  *)
(* a message that does not fit kills the connection.                       *)
ReqWrite(m) ==
  /\ calls < MaxCalls
  /\ calls' = calls + 1
  /\ status <= DONE
  /\ IF buffer_end + Len(m) > C
     THEN /\ status' = DEAD
          /\ UNCHANGED <<buf, buffer_start, wire, accepted>>
     ELSE /\ buf' = buf \o m
          /\ accepted' = accepted \o m
          /\ UNCHANGED <<buffer_start, status, wire>>

(* The body of both escape routines once the copy loop has run: the       *)
(* emitted bytes are committed (buffer_end = dest - buffer) before the    *)
(* check for unconsumed input, which then marks the request DEAD.  Neither *)
(* routine looks at req->status.                                           *)
WriteEscaped(copy) ==
  /\ calls < MaxCalls
  /\ calls' = calls + 1
  /\ buf' = buf \o copy.out
  /\ IF copy.rest # <<>>
     THEN /\ status' = DEAD
          /\ UNCHANGED accepted
     ELSE /\ accepted' = accepted \o copy.out
          /\ UNCHANGED status
  /\ UNCHANGED <<buffer_start, wire>>

(* Mutant: a guard band one byte short of %XX. *)
ReqWriteEscapeHttpGuard2(m) == WriteEscaped(EscapeCopy("http", 2, m, C - buffer_end))

(* req_write_escape_http: guard band of 3 bytes, the length of %XX. *)
ReqWriteEscapeHttp(m) == WriteEscaped(EscapeCopy("http", 3, m, C - buffer_end))

(* req_write_escape_html: guard band of 6 bytes, the length of &quot;. *)
ReqWriteEscapeHtml(m) == WriteEscaped(EscapeCopy("html", 6, m, C - buffer_end))

(* Mutant: the window advanced one byte less than the kernel took. *)
FlushWriteShortAdvance ==
  /\ buffer_end > buffer_start
  /\ \/ /\ buf' = <<>>
        /\ buffer_start' = 0
        /\ status' = DEAD
        /\ UNCHANGED wire
     \/ \E k \in 1 .. (buffer_end - buffer_start) :
          /\ wire' = wire \o SubSeq(buf, buffer_start + 1, buffer_start + k)
          /\ IF buffer_start + k = buffer_end
             THEN buf' = <<>> /\ buffer_start' = 0
             ELSE buffer_start' = buffer_start + k - 1 /\ UNCHANGED buf
          /\ UNCHANGED status
  /\ UNCHANGED <<accepted, calls>>

(* The write() of req_flush when there is something to send: it either   *)
(* fails (buffer discarded, DEAD) or the kernel takes k bytes and         *)
(* buffer_start advances; a drained buffer is reset to (0,0).  A          *)
(* would-block result changes nothing and is a stuttering step.           *)
FlushWrite ==
  /\ buffer_end > buffer_start
  /\ \/ /\ buf' = <<>>
        /\ buffer_start' = 0
        /\ status' = DEAD
        /\ UNCHANGED wire
     \/ \E k \in 1 .. (buffer_end - buffer_start) :
          /\ wire' = wire \o SubSeq(buf, buffer_start + 1, buffer_start + k)
          /\ IF buffer_start + k = buffer_end
             THEN buf' = <<>> /\ buffer_start' = 0
             ELSE buffer_start' = buffer_start + k /\ UNCHANGED buf
          /\ UNCHANGED status
  /\ UNCHANGED <<accepted, calls>>

(* Mutants of req_flush: the status check dropped, or written as         *)
(* status < DONE so that a finished response is never flushed.           *)
ReqFlushIgnoringStatus == FlushWrite

ReqFlushBeforeDone == status < DONE /\ FlushWrite

(* req_flush: returns -2 without writing once status > DONE. *)
ReqFlush == status <= DONE /\ FlushWrite

(* reset_output_buffer: sets buffer_end to 0 and leaves buffer_start. *)
ResetOutputBuffer ==
  /\ buf' = <<>>
  /\ UNCHANGED <<buffer_start, status, wire, accepted, calls>>

(* The request state machine outside buffer.c: the response is complete  *)
(* (DONE, the buffer is left to drain), or the connection is killed by a  *)
(* read error or timeout elsewhere.                                        *)
Finish ==
  /\ status = WRITE
  /\ status' = DONE
  /\ UNCHANGED <<buf, buffer_start, wire, accepted, calls>>

Kill ==
  /\ status # DEAD
  /\ status' = DEAD
  /\ UNCHANGED <<buf, buffer_start, wire, accepted, calls>>

Next ==
  \/ \E m \in Msgs : ReqWrite(m)
  \/ \E m \in Msgs : ReqWriteEscapeHttp(m)
  \/ \E m \in Msgs : ReqWriteEscapeHtml(m)
  \/ ReqFlush
  \/ Finish
  \/ Kill

(* The select loop calls req_flush on every writable connection, and a    *)
(* socket that is never writable again is reaped by the timeout (Kill),   *)
(* so flushing is weakly fair.  Callers and Kill need no fairness.        *)
Spec == Init /\ [][Next]_vars /\ WF_vars(ReqFlush)

(* The same, with reset_output_buffer callable at any time. *)
NextWithReset == Next \/ ResetOutputBuffer

SpecWithReset == Init /\ [][NextWithReset]_vars

(***************************************************************************)
(* Properties.                                                             *)
(***************************************************************************)

OutBytes == Chars \cup {"%", ";", "g", "l", "t", "m", "p", "q", "u", "o"}
              \cup ToSet(HexDigit)

TypeOK ==
  /\ buf \in Seq(OutBytes)
  /\ buffer_start \in Nat
  /\ status \in {WRITE, DONE, DEAD}
  /\ wire \in Seq(OutBytes)
  /\ accepted \in Seq(OutBytes)
  /\ calls \in 0 .. MaxCalls

(* The escape loops never check the destination inside one encoded unit; *)
(* the guard band must keep buffer_end within the array, and req_flush    *)
(* must keep buffer_start within [0, buffer_end] (the TESTING build       *)
(* aborts on left < 0; req_flush computes buffer_end - buffer_start       *)
(* unsigned).                                                              *)
NoBufferOverrun == buffer_start <= buffer_end /\ buffer_end <= C

(* What the client receives is always a prefix of what the writers were  *)
(* told was accepted, and while the connection is alive nothing accepted  *)
(* is lost: received bytes followed by pending bytes are exactly the      *)
(* accepted output.  Breaks if a flush sends bytes of a failed write or   *)
(* one of the buffer updates in req_flush goes wrong.                     *)
WireFaithful ==
  /\ IsPrefix(wire, accepted)
  /\ status # DEAD => wire \o Pending = accepted

(* A finished response is eventually drained, unless the connection dies: *)
(* req_flush must keep sending while status is DONE.                       *)
DrainEventually == (status = DONE) ~> (buffer_end = buffer_start \/ status = DEAD)

(* The refinement mapping to the abstract stream: the client has what is *)
(* on the wire; what is still deliverable is the pending window while the *)
(* request is not DEAD, and nothing after (req_flush refuses, and the     *)
(* bytes an escape routine appends to a DEAD request never leave).        *)
Stream == INSTANCE ByteStream WITH
            sent   <- wire,
            queued <- IF status = DEAD THEN <<>> ELSE Pending,
            st     <- CASE status = WRITE -> "open"
                        [] status = DONE  -> "finished"
                        [] status = DEAD  -> "cut"

(* The output buffer implements a FIFO byte stream that is eventually    *)
(* drained unless cut: every write, partial flush, failed flush, escape   *)
(* write before or after DEAD, and status change of the request machine   *)
(* is a step of ByteStream or a stuttering step, and weak fairness of     *)
(* req_flush yields weak fairness of delivery.                            *)
ImplementsByteStream == Stream!Spec

=============================================================================
