----------------------------- MODULE StreamPipe -----------------------------
(***************************************************************************)
(* Stream implements Pipe, in each direction: the refinement mapping.      *)
(***************************************************************************)
EXTENDS Stream

\* The range of bytes that a frame carries, if it is DATA, and those of a queue of frames.
DataOf(f) == IF f.type = "DATA" THEN {[lo |-> f.lo, hi |-> f.hi]} ELSE {}
Ranges(q) == UNION {DataOf(q[i]) : i \in 1..Len(q)}

\* The end that writes will put nothing more on the link: it sent CLOSE, was reset,
\* or its writer loop is gone.
PipeShut(e) == SendDone(e) \/ wlPc[e] = "stopped"

\* The bytes between an end's Write and its peer's buffer: on the link, in the
\* writer loop's hands, and in outQueue while the loop still sends from it.
PipeChan(e) ==
  Ranges(link[e])
    \cup (IF wlPc[e] = "write" THEN DataOf(held[e]) ELSE {})
    \cup (IF PipeShut(e) THEN {} ELSE Ranges(outQueue[e]))

\* What Read told the application: io.EOF, whether found in the buffer or made
\* sticky by Close, or an error.
PipeEnded(e) ==
  CASE readResult[e] = "none" -> "none"
    [] readResult[e] \in {"eof", "EOF"} -> "eof"
    [] OTHER -> "error"

\* DATA that arrives is refused: the peer's CLOSE was handled, or the stream was reset.
PipeDeaf(e) == state[e] \notin {"open", "half_closed_local"}

\* What the server writes, and what the client writes.
Down == INSTANCE Pipe WITH
  sent <- wrote["server"],
  chan <- PipeChan("server"),
  shut <- PipeShut("server"),
  got <- buf["client"],
  deaf <- PipeDeaf("client"),
  acked <- okBytes["server"],
  ended <- PipeEnded("client")
Up == INSTANCE Pipe WITH
  sent <- wrote["client"],
  chan <- PipeChan("client"),
  shut <- PipeShut("client"),
  got <- buf["server"],
  deaf <- PipeDeaf("server"),
  acked <- okBytes["client"],
  ended <- PipeEnded("server")

\* Each direction of a stream is a reliable byte pipe: through credits, chunks,
\* cancelled writes, half-closes, resets and the end of either connection, bytes
\* are read in the order they were written with none missing or repeated, nothing
\* acknowledged is lost except to a reset or a dead connection, and io.EOF means
\* that all of it was read.
BytePipe == Down!Spec /\ Up!Spec
-----------------------------------------------------------------------------
(* The invariant that the simulation needs *)

\* An end that has handled its peer's CLOSE accepts nothing more, and nothing more is on
\* its way.
RemoteDone(e) ==
  remoteClosed[e] =>
    /\ PipeDeaf(e) /\ SendDone(Peer(e)) /\ wlPc[Peer(e)] # "write"
    /\ \A i \in 1..Len(link[Peer(e)]) : link[Peer(e)][i].type # "DATA"

\* Close makes io.EOF sticky only after the peer's CLOSE...
EofIsRemote(e) ==
  err[e] = "EOF" \/ clPc[e] = "close_eof" \/ clNext[e] = "close_eof" => remoteClosed[e]

\* ...and reads end with io.EOF only after it, with the buffer drained.
ReadsEnd(e) ==
  /\ eof[e] => remoteClosed[e] /\ buf[e].lo = buf[e].hi
  /\ readResult[e] # "none" => rdPc[e] = "done"
  /\ readResult[e] \in {"eof", "EOF"} => remoteClosed[e] /\ buf[e].lo = buf[e].hi

\* No RESET carries the code that stands for io.EOF.
NotEof(q) == \A i \in 1..Len(q) : q[i].type = "RESET" => q[i].code # "EOF"
CodesAt(e) == NotEof(controlQueue[e]) /\ NotEof(link[e])

\* The bytes reported as written, and the ones whose Write is about to be told so.
Acked(e) == okBytes[e] + (IF wrPc[e] = "await" /\ wrChunk[e] = 0 THEN wrHold[e] ELSE 0)

\* A chunk is a real one, and one that is waited for lies behind every byte reported so far.
WaitedFor(e) ==
  /\ wrPc[e] = "reserve" => wrWant[e] > 0
  /\ wrPc[e] = "queue" => wrHold[e] > 0
  /\ wrPc[e] = "await" => wrHold[e] >= 0
  /\ wrPc[e] # "await" => wrChunk[e] = 0
  /\ wrChunk[e] # 0 => okBytes[e] + wrHold[e] <= wrChunk[e]
  /\ \A i \in 1..Len(outQueue[e]) : outQueue[e][i].lo < outQueue[e][i].hi

\* Every byte reported as written is on the link or in the peer's buffer, while the peer
\* takes bytes at all, and in its buffer once it has handled our CLOSE.
AckedSent(e) ==
  /\ Acked(e) <= wrote[e]
  /\ ~PipeDeaf(Peer(e)) =>
       \/ Acked(e) <= buf[Peer(e)].hi
       \/ \E i \in 1..Len(link[e]) : link[e][i].type = "DATA" /\ Acked(e) <= link[e][i].hi
  /\ remoteClosed[Peer(e)] => Acked(e) <= buf[Peer(e)].hi

PipeAt(e) == RemoteDone(e) /\ EofIsRemote(e) /\ ReadsEnd(e) /\ CodesAt(e) /\ WaitedFor(e) /\ AckedSent(e)

\* The inductive invariant behind the refinement, with FlowInv and FinInv: what is known
\* of a stream's end, and of the writes that were acknowledged, whatever the interleaving.
PipeInv == \A e \in Ends : PipeAt(e)
ChansInv == Down!ChanInv /\ Up!ChanInv
=============================================================================
