-------------------------------- MODULE Pipe --------------------------------
(***************************************************************************)
(* What one direction of a Stream promises its two applications, whatever  *)
(* flow control, queues, loops and frames there are in between: a reliable *)
(* byte pipe that either end may cut short.  Bytes are numbered from 0 in  *)
(* the order Write queued them; a chunk is a range of those numbers, which *)
(* is also its place among the other chunks.                               *)
(***************************************************************************)
EXTENDS Integers

VARIABLES
  sent,     \* bytes the sender has queued
  chan,     \* the chunks between the sender and the receiver's buffer
  shut,     \* the sender will put nothing more into chan
  got,      \* the receiver's buffer: bytes got.lo..got.hi of the stream
  deaf,     \* the receiver accepts nothing more
  acked,    \* bytes the sender's Write calls reported as written
  ended     \* what ended the receiver's reads: "none", "eof" or "error"

vars == <<sent, chan, shut, got, deaf, acked, ended>>

Init ==
  /\ sent = 0 /\ chan = {} /\ shut = FALSE
  /\ got = [lo |-> 0, hi |-> 0] /\ deaf = FALSE
  /\ acked = 0 /\ ended = "none"

\* A Write queues a chunk; once the pipe is shut the chunk goes nowhere.
Write ==
  /\ sent' > sent
  /\ chan' = IF shut THEN chan ELSE chan \cup {[lo |-> sent, hi |-> sent']}
  /\ UNCHANGED <<shut, got, deaf, acked, ended>>

\* Bytes are reported as written after they were queued, and never behind the back
\* of a reader that was told it has them all.
Ack ==
  /\ acked' > acked /\ acked' <= sent
  /\ ended = "eof" => acked' <= got.lo
  /\ UNCHANGED <<sent, chan, shut, got, deaf, ended>>

\* The sender half-closes, resets or loses its connection: the last chunks of chan
\* may be lost, the ones before them are not.
Shut ==
  /\ shut' = TRUE
  /\ \E n \in 0..sent : chan' = {c \in chan : c.hi <= n}
  /\ UNCHANGED <<sent, got, deaf, acked, ended>>

\* The chunk c, the oldest one, leaves the pipe.
Arrives(c) ==
  /\ c \in chan /\ \A d \in chan : c.lo <= d.lo
  /\ chan' = chan \ {c}

\* The oldest chunk arrives, and it is the continuation of what arrived before.
Deliver ==
  /\ ~deaf
  /\ \E c \in chan : Arrives(c) /\ c.lo = got.hi /\ got' = [got EXCEPT !.hi = c.hi]
  /\ UNCHANGED <<sent, shut, deaf, acked, ended>>

\* A chunk arrives at a receiver that takes no more.
Discard ==
  /\ deaf
  /\ \E c \in chan : Arrives(c)
  /\ UNCHANGED <<sent, shut, got, deaf, acked, ended>>

Read ==
  /\ \E n \in got.lo + 1..got.hi : got' = [got EXCEPT !.lo = n]
  /\ ended = "none"
  /\ UNCHANGED <<sent, chan, shut, deaf, acked, ended>>

\* The receiver stops accepting, and when it was reset drops what it buffered.
Stop ==
  /\ deaf' = TRUE
  /\ got' \in {got, [got EXCEPT !.lo = got.hi]}
  /\ UNCHANGED <<sent, chan, shut, acked, ended>>

\* Reads end.  EOF says that the sender shut the pipe and that every byte that was
\* put into it, and every byte reported as written, has been read.
End ==
  /\ ended = "none" /\ ended' \in {"eof", "error"}
  /\ got.lo = got.hi
  /\ ended' = "eof" => shut /\ chan = {} /\ acked <= got.lo
  /\ UNCHANGED <<sent, chan, shut, got, deaf, acked>>

Next == Write \/ Ack \/ Shut \/ Deliver \/ Discard \/ Read \/ Stop \/ End

Spec == Init /\ [][Next]_vars
-----------------------------------------------------------------------------
(* What the steps of a pipe preserve *)

Chunk == [lo : Int, hi : Int]

\* The chunks in the pipe are disjoint pieces of what was sent...
Disjoint ==
  /\ \A c \in chan : c.lo < c.hi /\ c.hi <= sent
  /\ \A c, d \in chan : c = d \/ c.hi <= d.lo \/ d.hi <= c.lo

\* ...and continue, without a gap, what the receiver has; while the pipe is not shut they
\* reach up to the last byte sent.
Gapless ==
  ~deaf =>
    /\ \A c \in chan : got.hi <= c.lo /\ (c.lo = got.hi \/ \E d \in chan : d.hi = c.lo)
    /\ ~shut => sent = got.hi \/ \E d \in chan : d.hi = sent

ChanInv ==
  /\ sent \in Nat /\ chan \subseteq Chunk /\ got \in Chunk /\ got.hi >= 0
  /\ Disjoint /\ Gapless
=============================================================================
