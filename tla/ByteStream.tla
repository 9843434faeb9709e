----------------------------- MODULE ByteStream -----------------------------
(***************************************************************************)
(* What a connection's output path promises (spec sections 3, 4.1 and 5): *)
(* a FIFO byte stream.  Writers append to the queue while the connection  *)
(* is not cut; the transport takes a non-empty prefix of the queue at a   *)
(* time; finishing closes the stream to new responses but leaves the      *)
(* queue to drain; cutting the connection discards the queue.  Bytes are  *)
(* delivered in the order they were appended, none is invented, none is   *)
(* delivered twice, and a queue that is not cut is eventually delivered.  *)
(***************************************************************************)
EXTENDS Naturals, Sequences, SequencesExt

VARIABLES
  sent,    \* the bytes the peer has received
  queued,  \* the bytes appended and not yet delivered
  st       \* "open", "finished" or "cut"

vars == <<sent, queued, st>>

Init ==
  /\ sent = <<>>
  /\ queued = <<>>
  /\ st = "open"

(* Some non-empty data is appended to the queue. *)
Accept ==
  /\ st # "cut"
  /\ Len(queued') > Len(queued)
  /\ IsPrefix(queued, queued')
  /\ UNCHANGED <<sent, st>>

(* The transport takes a non-empty prefix of the queue. *)
Deliver ==
  /\ st # "cut"
  /\ queued # <<>>
  /\ \E k \in 1 .. Len(queued) :
       /\ sent' = sent \o SubSeq(queued, 1, k)
       /\ queued' = SubSeq(queued, k + 1, Len(queued))
  /\ UNCHANGED st

Finish ==
  /\ st = "open"
  /\ st' = "finished"
  /\ UNCHANGED <<sent, queued>>

(* The connection is cut; what was queued is lost. *)
Cut ==
  /\ st # "cut"
  /\ st' = "cut"
  /\ queued' = <<>>
  /\ UNCHANGED sent

Next == Accept \/ Deliver \/ Finish \/ Cut

Spec == Init /\ [][Next]_vars /\ WF_vars(Deliver)

=============================================================================
