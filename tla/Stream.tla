------------------------------- MODULE Stream -------------------------------
(***************************************************************************)
(* One ws-mixer byte stream between its two ends (wsmixer/stream.go), with *)
(* the parts of each connection the stream goes through: the control       *)
(* queue, the writer loop (sched.go) and the read loop's dispatch          *)
(* (dispatch.go).  The model starts once both ends have the stream in      *)
(* their tables, i.e. after OPEN was dispatched.                           *)
(*                                                                         *)
(* Goroutines of an end e, and where each stands:                          *)
(*   - an application writer inside WriteContext           (wrPc, wrWant)  *)
(*   - an application reader inside ReadContext            (rdPc, rdHand)  *)
(*   - an application closer inside CloseWrite/Reset/Close (clPc, clNext)  *)
(*   - the connection's writerLoop                         (wlPc, held)    *)
(*   - the connection's readerLoop                         (rlPc)          *)
(* s.mu and c.mu critical sections are atomic; whatever the code does      *)
(* between two of them is left open to every other goroutine.              *)
(*                                                                         *)
(* Data: a payload is the range lo..hi of positions its bytes have in the  *)
(* sequence of bytes the sender queued, so its length is hi - lo; a chunk  *)
(* in outQueue is the DATA frame it becomes.  A WINDOW's increment is      *)
(* hi - lo in the same way: the range of consumed bytes it credits back.   *)
(* A RESET carries its code.                                               *)
(***************************************************************************)
EXTENDS Integers, Sequences, FiniteSets

CONSTANTS
  Window,          \* [Ends -> Nat]: the receive window each end grants (initialWindow)
  MaxChunk,        \* maxChunk: the largest DATA chunk
  MaxSendWindow,   \* maxSendWindow: the largest legal send window
  OutQueueCap,     \* streamOutQueueCap
  ControlQueueCap, \* cap(controlQueue)
  LinkCap,         \* frames the transport buffers before a socket write blocks
  WriteSizes,      \* lengths of the slices applications pass to Write
  ReadSizes,       \* lengths of the slices applications pass to Read
  MaxBytes,        \* [Ends -> Nat]: bound on the bytes an application offers to Write
  MaxCancels,      \* bound on the Write calls an end's application cancels
  Calls,           \* [Ends -> SUBSET {"CloseWrite", "Reset", "Close"}] the application makes
  MayDie           \* the ends whose connection may end under the stream

Ends == {"server", "client"}
Peer(e) == IF e = "server" THEN "client" ELSE "server"

ASSUME StreamAssumption ==
  /\ Window \in [Ends -> Nat \ {0}]
  /\ MaxSendWindow \in Nat
  /\ \A e \in Ends : Window[e] <= MaxSendWindow
  /\ MaxChunk \in Nat \ {0}
  /\ OutQueueCap \in Nat \ {0}
  /\ ControlQueueCap \in Nat \ {0}
  /\ LinkCap \in Nat \ {0}
  /\ WriteSizes \subseteq Nat \ {0}
  /\ ReadSizes \subseteq Nat \ {0}
  /\ MaxBytes \in [Ends -> Nat]
  /\ MaxCancels \in Nat
  /\ Calls \in [Ends -> SUBSET {"CloseWrite", "Reset", "Close"}]
  /\ MayDie \subseteq Ends

States == {"open", "half_closed_local", "half_closed_remote", "closed"}
Codes == {"none", "CANCEL", "STREAM_CLOSED", "EOF"}
Frame == [type : {"DATA", "WINDOW", "CLOSE", "RESET"}, lo : Int, hi : Int, code : Codes]
Positions == [lo : Int, hi : Int]

DataFrame(lo, hi) == [type |-> "DATA", lo |-> lo, hi |-> hi, code |-> "none"]
\* Mutant: the increment is one too large.
WindowFrameOffByOne(lo, hi) == [type |-> "WINDOW", lo |-> lo, hi |-> hi + 1, code |-> "none"]
WindowFrame(lo, hi) == [type |-> "WINDOW", lo |-> lo, hi |-> hi, code |-> "none"]
CloseFrame == [type |-> "CLOSE", lo |-> 0, hi |-> 0, code |-> "none"]
\* Mutant: a RESET goes out with a code outside the registry.
ResetFrameBadCode(code) == [type |-> "RESET", lo |-> 0, hi |-> 0, code |-> "unknown"]
ResetFrame(code) == [type |-> "RESET", lo |-> 0, hi |-> 0, code |-> code]
NoChunk == DataFrame(0, 0)

VARIABLES
  \* the Stream struct of each end
  state, sendWindow, recvWindow, unacked, buf, eof, err, remoteClosed, outQueue,
  waiting,      \* goroutines parked on notifyCh: a subset of {"reader", "writer"}
  \* the Conn around it
  live,         \* c.streams still holds the stream
  controlQueue, connClosed, connErr,
  link,         \* frames an end has written that its peer has not dispatched
  \* the goroutines
  wrPc, wrWant, wrHold, wrChunk, rdPc, rdHand, clPc, clNext, wlPc, held, rlPc,
  \* what the application was told
  readResult,   \* what ended its reads
  okBytes,      \* bytes Write reported as written
  \* history
  offered, cancels, reserved, wrote, granted, credited

streamVars == <<state, sendWindow, recvWindow, unacked, buf, eof, err, remoteClosed, outQueue, waiting>>
connVars   == <<live, controlQueue, connClosed, connErr, link>>
writerVars == <<wrPc, wrWant, wrHold, wrChunk, offered, cancels, okBytes, reserved, wrote>>
readerVars == <<rdPc, rdHand, readResult, credited>>
closerVars == <<clPc, clNext>>
loopVars   == <<wlPc, held, rlPc, granted>>
vars == <<streamVars, connVars, writerVars, readerVars, closerVars, loopVars>>

Min2(a, b) == IF a <= b THEN a ELSE b
BufLen(e) == buf[e].hi - buf[e].lo
-----------------------------------------------------------------------------
Init ==
  /\ state = [e \in Ends |-> "open"]
  /\ sendWindow = [e \in Ends |-> Window[Peer(e)]]
  /\ recvWindow = [e \in Ends |-> Window[e]]
  /\ unacked = [e \in Ends |-> 0]
  /\ buf = [e \in Ends |-> [lo |-> 0, hi |-> 0]]
  /\ eof = [e \in Ends |-> FALSE]
  /\ err = [e \in Ends |-> "none"]
  /\ remoteClosed = [e \in Ends |-> FALSE]
  /\ outQueue = [e \in Ends |-> <<>>]
  /\ waiting = [e \in Ends |-> {}]
  /\ live = [e \in Ends |-> TRUE]
  /\ controlQueue = [e \in Ends |-> <<>>]
  /\ connClosed = [e \in Ends |-> FALSE]
  /\ connErr = [e \in Ends |-> "none"]
  /\ link = [e \in Ends |-> <<>>]
  /\ wrPc = [e \in Ends |-> "idle"]
  /\ wrWant = [e \in Ends |-> 0]
  /\ wrHold = [e \in Ends |-> 0]
  /\ wrChunk = [e \in Ends |-> 0]
  /\ rdPc = [e \in Ends |-> "read"]
  /\ rdHand = [e \in Ends |-> 0]
  /\ clPc = [e \in Ends |-> "idle"]
  /\ clNext = [e \in Ends |-> "idle"]
  /\ wlPc = [e \in Ends |-> "turn"]
  /\ held = [e \in Ends |-> NoChunk]
  /\ rlPc = [e \in Ends |-> "read"]
  /\ readResult = [e \in Ends |-> "none"]
  /\ okBytes = [e \in Ends |-> 0]
  /\ offered = [e \in Ends |-> 0]
  /\ cancels = [e \in Ends |-> 0]
  /\ reserved = [e \in Ends |-> 0]
  /\ wrote = [e \in Ends |-> 0]
  /\ granted = [e \in Ends |-> 0]
  /\ credited = [e \in Ends |-> 0]

\* notifyLocked: every goroutine parked on notifyCh rechecks.
NotifyLocked(e) == waiting' = [waiting EXCEPT ![e] = {}]

\* sendControlFrame: blocks while the queue is full, gives up once the conn is closed.
SendControlFrame(e, f) ==
  \/ /\ Len(controlQueue[e]) < ControlQueueCap
     /\ controlQueue' = [controlQueue EXCEPT ![e] = Append(@, f)]
  \/ /\ connClosed[e]
     /\ UNCHANGED controlQueue
-----------------------------------------------------------------------------
(* ReadContext *)

ReadData(e, p) ==
  /\ rdPc[e] = "read" /\ "reader" \notin waiting[e]
  /\ BufLen(e) > 0
  /\ LET n == Min2(p, BufLen(e)) IN
       /\ buf' = [buf EXCEPT ![e] = [lo |-> @.lo + n, hi |-> @.hi]]
       /\ rdHand' = [rdHand EXCEPT ![e] = n]
  /\ rdPc' = [rdPc EXCEPT ![e] = "credit"]
  /\ UNCHANGED <<state, sendWindow, recvWindow, unacked, eof, err, remoteClosed, outQueue, waiting,
                 readResult, credited, connVars, writerVars, closerVars, loopVars>>

\* The buffer is empty: the sticky error wins, then EOF, else the reader parks.
ReadEmpty(e) ==
  /\ rdPc[e] = "read" /\ "reader" \notin waiting[e]
  /\ BufLen(e) = 0
  /\ IF err[e] # "none" \/ eof[e]
       THEN /\ readResult' = [readResult EXCEPT ![e] = IF err[e] # "none" THEN err[e] ELSE "eof"]
            /\ rdPc' = [rdPc EXCEPT ![e] = "done"]
            /\ UNCHANGED waiting
       ELSE /\ waiting' = [waiting EXCEPT ![e] = @ \cup {"reader"}]
            /\ UNCHANGED <<readResult, rdPc>>
  /\ UNCHANGED <<state, sendWindow, recvWindow, unacked, buf, eof, err, remoteClosed, outQueue,
                 rdHand, credited, connVars, writerVars, closerVars, loopVars>>

\* wait() saw c.closed: data, EOF or an error that landed meanwhile is preferred.
ReadConnClosed(e) ==
  /\ rdPc[e] = "read" /\ "reader" \in waiting[e] /\ connClosed[e]
  /\ waiting' = [waiting EXCEPT ![e] = @ \ {"reader"}]
  /\ IF BufLen(e) = 0 /\ ~eof[e] /\ err[e] = "none"
       THEN /\ readResult' = [readResult EXCEPT ![e] = "conn"]
            /\ rdPc' = [rdPc EXCEPT ![e] = "done"]
       ELSE UNCHANGED <<readResult, rdPc>>
  /\ UNCHANGED <<state, sendWindow, recvWindow, unacked, buf, eof, err, remoteClosed, outQueue,
                 rdHand, credited, connVars, writerVars, closerVars, loopVars>>

\* Mutant: the bytes of earlier reads are forgotten when a read is credited.
OwedThisReadOnly(e) == rdHand[e]
\* The bytes read and not yet credited back to the peer.
Owed(e) == unacked[e] + rdHand[e]

\* Mutant: credit is paid only for more than a whole window.
PayLate(e) == Owed(e) > Window[e] /\ state[e] # "closed"
\* Half a window of them is worth a WINDOW.
PayNow(e) == Owed(e) >= Window[e] \div 2 /\ state[e] # "closed"

\* Mutant: reading the last byte does not look at remoteClosed.
DrainedNever(e) == FALSE
\* The peer half-closed and its last byte has been read.
Drained(e) == remoteClosed[e] /\ BufLen(e) = 0

\* creditConsumed's critical section.
CreditConsumed(e) ==
  /\ rdPc[e] = "credit"
  /\ unacked' = [unacked EXCEPT ![e] = IF PayNow(e) THEN 0 ELSE Owed(e)]
  /\ recvWindow' = [recvWindow EXCEPT ![e] = IF PayNow(e) THEN @ + Owed(e) ELSE @]
  /\ credited' = [credited EXCEPT ![e] = IF PayNow(e) THEN @ + Owed(e) ELSE @]
  /\ rdHand' = [rdHand EXCEPT ![e] = IF PayNow(e) THEN Owed(e) ELSE 0]
  /\ rdPc' = [rdPc EXCEPT ![e] = IF PayNow(e) /\ Owed(e) > 0 THEN "window" ELSE "read"]
  /\ eof' = [eof EXCEPT ![e] = @ \/ Drained(e)]
  /\ UNCHANGED <<state, sendWindow, buf, err, remoteClosed, outQueue, waiting, readResult,
                 connVars, writerVars, closerVars, loopVars>>

\* ...and the WINDOW it sends after releasing the lock.
SendWindowFrame(e) ==
  /\ rdPc[e] = "window"
  /\ SendControlFrame(e, WindowFrame(credited[e] - rdHand[e], credited[e]))
  /\ rdPc' = [rdPc EXCEPT ![e] = "read"]
  /\ rdHand' = [rdHand EXCEPT ![e] = 0]
  /\ UNCHANGED <<streamVars, live, connClosed, connErr, link, readResult, credited,
                 writerVars, closerVars, loopVars>>
-----------------------------------------------------------------------------
(* WriteContext *)

\* The application calls Write with n bytes.
Write(e, n) ==
  /\ wrPc[e] = "idle"
  /\ offered[e] + n <= MaxBytes[e]
  /\ offered' = [offered EXCEPT ![e] = @ + n]
  /\ wrWant' = [wrWant EXCEPT ![e] = n]
  /\ wrPc' = [wrPc EXCEPT ![e] = "reserve"]
  /\ UNCHANGED <<streamVars, connVars, wrHold, wrChunk, cancels, okBytes, reserved, wrote,
                 readerVars, closerVars, loopVars>>

WriteReturns(e) ==
  /\ wrPc' = [wrPc EXCEPT ![e] = "idle"]
  /\ wrWant' = [wrWant EXCEPT ![e] = 0]
  /\ wrHold' = [wrHold EXCEPT ![e] = 0]
  /\ wrChunk' = [wrChunk EXCEPT ![e] = 0]

Sendable(e) == state[e] \in {"open", "half_closed_remote"}

\* Mutant: the chunk is not held to the send window.
ChunkLenIgnoresWindow(e) == Min2(wrWant[e], MaxChunk)
\* A chunk is bounded by what is left to write, the send window and maxChunk.
ChunkLen(e) == Min2(Min2(wrWant[e], sendWindow[e]), MaxChunk)

\* reserveSendCredit: fail, take credit for one chunk, or park.
ReserveSendCredit(e) ==
  /\ wrPc[e] = "reserve" /\ "writer" \notin waiting[e]
  /\ \/ /\ err[e] # "none" \/ ~Sendable(e)
        /\ WriteReturns(e)
        /\ UNCHANGED <<sendWindow, reserved, waiting>>
     \/ /\ err[e] = "none" /\ Sendable(e) /\ sendWindow[e] > 0
        /\ sendWindow' = [sendWindow EXCEPT ![e] = @ - ChunkLen(e)]
        /\ reserved' = [reserved EXCEPT ![e] = @ + ChunkLen(e)]
        /\ wrHold' = [wrHold EXCEPT ![e] = ChunkLen(e)]
        /\ wrPc' = [wrPc EXCEPT ![e] = "queue"]
        /\ UNCHANGED <<wrWant, wrChunk, waiting>>
     \/ /\ err[e] = "none" /\ Sendable(e) /\ sendWindow[e] <= 0
        /\ waiting' = [waiting EXCEPT ![e] = @ \cup {"writer"}]
        /\ UNCHANGED <<sendWindow, reserved, wrPc, wrWant, wrHold, wrChunk>>
  /\ UNCHANGED <<state, recvWindow, unacked, buf, eof, err, remoteClosed, outQueue, connVars,
                 offered, cancels, okBytes, wrote, readerVars, closerVars, loopVars>>

\* The chunk goes to outQueue once it has room.
QueueChunk(e) ==
  /\ wrPc[e] = "queue"
  /\ Len(outQueue[e]) < OutQueueCap
  /\ outQueue' = [outQueue EXCEPT ![e] = Append(@, DataFrame(wrote[e], wrote[e] + wrHold[e]))]
  /\ wrote' = [wrote EXCEPT ![e] = @ + wrHold[e]]
  /\ wrChunk' = [wrChunk EXCEPT ![e] = wrote[e] + wrHold[e]]
  /\ wrPc' = [wrPc EXCEPT ![e] = "await"]
  /\ UNCHANGED <<state, sendWindow, recvWindow, unacked, buf, eof, err, remoteClosed, waiting,
                 connVars, wrWant, wrHold, offered, cancels, okBytes, reserved,
                 readerVars, closerVars, loopVars>>

\* pc.done was closed: the writer loop wrote the chunk ("wrote") or completed it
\* with the stream's error ("failed").
ChunkDone(e) ==
  /\ wrPc[e] = "await" /\ wrChunk[e] = 0
  /\ IF wrHold[e] = 0
       THEN WriteReturns(e) /\ UNCHANGED okBytes
       ELSE /\ okBytes' = [okBytes EXCEPT ![e] = @ + wrHold[e]]
            /\ wrWant' = [wrWant EXCEPT ![e] = @ - wrHold[e]]
            /\ wrHold' = [wrHold EXCEPT ![e] = 0]
            /\ wrPc' = [wrPc EXCEPT ![e] = IF wrWant[e] > wrHold[e] THEN "reserve" ELSE "idle"]
            /\ UNCHANGED wrChunk
  /\ UNCHANGED <<streamVars, connVars, offered, cancels, reserved, wrote,
                 readerVars, closerVars, loopVars>>

\* ctx.Done at any of WriteContext's waits: parked for credit, at outQueue (the
\* reserved credit is not given back), or with the chunk queued and abandoned.
CancelWrite(e) ==
  /\ \/ wrPc[e] = "reserve" /\ "writer" \in waiting[e] /\ err[e] = "none"
     \/ wrPc[e] \in {"queue", "await"}
  /\ cancels[e] < MaxCancels
  /\ cancels' = [cancels EXCEPT ![e] = @ + 1]
  /\ waiting' = [waiting EXCEPT ![e] = @ \ {"writer"}]
  /\ WriteReturns(e)
  /\ UNCHANGED <<state, sendWindow, recvWindow, unacked, buf, eof, err, remoteClosed, outQueue,
                 connVars, offered, okBytes, reserved, wrote, readerVars, closerVars, loopVars>>

\* Mutant: a Write parked for credit does not look at c.closed.
WriteWaitsOnChunkOnly(e) == wrPc[e] \in {"queue", "await"}
\* A wait of WriteContext that selects on c.closed (and on ctx.Done): parked for
\* credit, at outQueue, or on its chunk.
WriteWaits(e) ==
  \/ wrPc[e] = "reserve" /\ "writer" \in waiting[e]
  \/ wrPc[e] \in {"queue", "await"}

\* The same three waits see c.closed; a sticky error that landed meanwhile is
\* reported by going round the loop again.
WriteConnClosed(e) ==
  /\ connClosed[e]
  /\ WriteWaits(e)
  /\ waiting' = [waiting EXCEPT ![e] = @ \ {"writer"}]
  /\ IF wrPc[e] = "reserve" /\ err[e] # "none"
       THEN UNCHANGED <<wrPc, wrWant, wrHold, wrChunk>>
       ELSE WriteReturns(e)
  /\ UNCHANGED <<state, sendWindow, recvWindow, unacked, buf, eof, err, remoteClosed, outQueue,
                 connVars, offered, cancels, okBytes, reserved, wrote, readerVars, closerVars, loopVars>>
-----------------------------------------------------------------------------
(* CloseWrite, Reset and Close *)

\* CloseWrite's critical section; "next" is where its caller continues.
CloseWriteLocked(e, next) ==
  /\ IF Sendable(e)
       THEN /\ clNext' = [clNext EXCEPT ![e] = next]
            /\ state' = [state EXCEPT ![e] = IF @ = "open" THEN "half_closed_local" ELSE "closed"]
            /\ clPc' = [clPc EXCEPT ![e] = IF state[e] = "open" THEN "close_send" ELSE "close_retire"]
            /\ NotifyLocked(e)
       ELSE /\ clPc' = [clPc EXCEPT ![e] = next]
            /\ clNext' = [clNext EXCEPT ![e] = "idle"]
            /\ UNCHANGED <<state, waiting>>
  /\ UNCHANGED <<sendWindow, recvWindow, unacked, buf, eof, err, remoteClosed, outQueue>>

CloseWrite(e) ==
  /\ clPc[e] = "idle" /\ "CloseWrite" \in Calls[e]
  /\ CloseWriteLocked(e, "idle")
  /\ UNCHANGED <<connVars, writerVars, readerVars, loopVars>>

\* retireStream drops the table entry.
RetireForClose(e) ==
  /\ clPc[e] = "close_retire"
  /\ live' = [live EXCEPT ![e] = FALSE]
  /\ clPc' = [clPc EXCEPT ![e] = "close_send"]
  /\ UNCHANGED <<streamVars, controlQueue, connClosed, connErr, link, clNext,
                 writerVars, readerVars, loopVars>>

SendClose(e) ==
  /\ clPc[e] = "close_send"
  /\ SendControlFrame(e, CloseFrame)
  /\ clPc' = [clPc EXCEPT ![e] = clNext[e]]
  /\ clNext' = [clNext EXCEPT ![e] = "idle"]
  /\ UNCHANGED <<streamVars, live, connClosed, connErr, link,
                 writerVars, readerVars, loopVars>>

\* Reset's critical section: a no-op on a closed stream, else the buffer is dropped.
ResetLocked(e) ==
  IF state[e] = "closed"
    THEN /\ clPc' = [clPc EXCEPT ![e] = "idle"]
         /\ UNCHANGED streamVars
    ELSE /\ state' = [state EXCEPT ![e] = "closed"]
         /\ buf' = [buf EXCEPT ![e] = [lo |-> @.hi, hi |-> @.hi]]
         /\ err' = [err EXCEPT ![e] = "CANCEL"]
         /\ NotifyLocked(e)
         /\ clPc' = [clPc EXCEPT ![e] = "reset_retire"]
         /\ UNCHANGED <<sendWindow, recvWindow, unacked, eof, remoteClosed, outQueue>>

Reset(e) ==
  /\ clPc[e] = "idle" /\ "Reset" \in Calls[e]
  /\ ResetLocked(e)
  /\ UNCHANGED <<clNext, connVars, writerVars, readerVars, loopVars>>

RetireForReset(e) ==
  /\ clPc[e] = "reset_retire"
  /\ live' = [live EXCEPT ![e] = FALSE]
  /\ clPc' = [clPc EXCEPT ![e] = "reset_send"]
  /\ UNCHANGED <<streamVars, controlQueue, connClosed, connErr, link, clNext,
                 writerVars, readerVars, loopVars>>

SendReset(e) ==
  /\ clPc[e] = "reset_send"
  /\ SendControlFrame(e, ResetFrame("CANCEL"))
  /\ clPc' = [clPc EXCEPT ![e] = "idle"]
  /\ UNCHANGED <<streamVars, live, connClosed, connErr, link, clNext,
                 writerVars, readerVars, loopVars>>

\* Close: remoteClosed is read in a critical section of its own...
Close(e) ==
  /\ clPc[e] = "idle" /\ "Close" \in Calls[e]
  /\ clNext' = [clNext EXCEPT ![e] = IF remoteClosed[e] THEN "close_eof" ELSE "close_reset"]
  /\ clPc' = [clPc EXCEPT ![e] = "close_write"]
  /\ UNCHANGED <<streamVars, connVars, writerVars, readerVars, loopVars>>

\* ...then CloseWrite runs...
CloseCloseWrite(e) ==
  /\ clPc[e] = "close_write"
  /\ CloseWriteLocked(e, clNext[e])
  /\ UNCHANGED <<connVars, writerVars, readerVars, loopVars>>

\* ...then Reset(CANCEL)...
CloseReset(e) ==
  /\ clPc[e] = "close_reset"
  /\ ResetLocked(e)
  /\ UNCHANGED <<clNext, connVars, writerVars, readerVars, loopVars>>

\* ...or, when the peer had closed its side, the sticky io.EOF.
CloseEOF(e) ==
  /\ clPc[e] = "close_eof"
  /\ err' = [err EXCEPT ![e] = IF @ = "none" THEN "EOF" ELSE @]
  /\ NotifyLocked(e)
  /\ clPc' = [clPc EXCEPT ![e] = "idle"]
  /\ UNCHANGED <<state, sendWindow, recvWindow, unacked, buf, eof, remoteClosed, outQueue,
                 clNext, connVars, writerVars, readerVars, loopVars>>
-----------------------------------------------------------------------------
(* writerLoop.  The rotation between streams, and that control frames go      *)
(* first, is module Mux's; here the loop may take a control frame, or a chunk *)
(* of this stream, at any of its turns, and a queued chunk's turn comes.      *)

WriteControl(e) ==
  /\ wlPc[e] = "turn"
  /\ controlQueue[e] # <<>> /\ Len(link[e]) < LinkCap
  /\ link' = [link EXCEPT ![e] = Append(@, Head(controlQueue[e]))]
  /\ controlQueue' = [controlQueue EXCEPT ![e] = Tail(@)]
  /\ UNCHANGED <<streamVars, live, connClosed, connErr, writerVars, readerVars, closerVars, loopVars>>

\* Mutant: a chunk that was dropped is reported as written.
CompleteAsWritten(e, c, ok) ==
  IF wrChunk[e] = c.hi
    THEN wrChunk' = [wrChunk EXCEPT ![e] = 0] /\ UNCHANGED wrHold
    ELSE UNCHANGED <<wrChunk, wrHold>>
\* done is closed for chunk c: only the Write still waiting for it learns the outcome.
CompleteChunk(e, c, ok) ==
  IF wrChunk[e] = c.hi
    THEN /\ wrChunk' = [wrChunk EXCEPT ![e] = 0]
         /\ wrHold' = [wrHold EXCEPT ![e] = IF ok THEN @ ELSE 0]
    ELSE UNCHANGED <<wrChunk, wrHold>>

PopChunk(e) == Head(outQueue[e])

\* Mutant: a half-closed stream still sends DATA.
SendDoneOnlyClosed(e) == state[e] = "closed"
\* sendDone: CLOSE was sent, or the stream was reset.
SendDone(e) == state[e] \in {"half_closed_local", "closed"}

\* nextChunk with this stream at the head of the rotation: a chunk of a stream that
\* sent CLOSE or was reset (sendDone) is completed with the stream's error.
NextChunk(e) ==
  /\ wlPc[e] = "turn" /\ outQueue[e] # <<>>
  /\ outQueue' = [outQueue EXCEPT ![e] = Tail(@)]
  /\ IF SendDone(e)
       THEN /\ CompleteChunk(e, PopChunk(e), FALSE)
            /\ UNCHANGED <<held, wlPc>>
       ELSE /\ held' = [held EXCEPT ![e] = PopChunk(e)]
            /\ wlPc' = [wlPc EXCEPT ![e] = "write"]
            /\ UNCHANGED <<wrChunk, wrHold>>
  /\ UNCHANGED <<state, sendWindow, recvWindow, unacked, buf, eof, err, remoteClosed, waiting,
                 connVars, wrPc, wrWant, offered, cancels, okBytes, reserved, wrote,
                 readerVars, closerVars, rlPc, granted>>

WriteData(e) ==
  /\ wlPc[e] = "write" /\ Len(link[e]) < LinkCap
  /\ link' = [link EXCEPT ![e] = Append(@, held[e])]
  /\ CompleteChunk(e, held[e], TRUE)
  /\ held' = [held EXCEPT ![e] = NoChunk]
  /\ wlPc' = [wlPc EXCEPT ![e] = "turn"]
  /\ UNCHANGED <<streamVars, live, controlQueue, connClosed, connErr,
                 wrPc, wrWant, offered, cancels, okBytes, reserved, wrote,
                 readerVars, closerVars, rlPc, granted>>

\* The connection has ended: the loop returns from its select or a failed write,
\* which completes the chunk with that error.
WriterStops(e) ==
  /\ connClosed[e] /\ wlPc[e] # "stopped"
  /\ wlPc' = [wlPc EXCEPT ![e] = "stopped"]
  /\ held' = [held EXCEPT ![e] = NoChunk]
  /\ IF wlPc[e] = "write" THEN CompleteChunk(e, held[e], FALSE) ELSE UNCHANGED <<wrChunk, wrHold>>
  /\ UNCHANGED <<streamVars, connVars, wrPc, wrWant, offered, cancels, okBytes, reserved, wrote,
                 readerVars, closerVars, rlPc, granted>>
-----------------------------------------------------------------------------
(* readerLoop: dispatch of the frame at the head of the peer's link *)

Incoming(e) == link[Peer(e)]
Consume(e) == link' = [link EXCEPT ![Peer(e)] = Tail(@)]

\* lookupLiveStream: a frame for a stream no longer in the table is discarded.
LookupLiveStream(e) ==
  /\ rlPc[e] = "read" /\ Incoming(e) # <<>>
  /\ \/ live[e] /\ rlPc' = [rlPc EXCEPT ![e] = "apply"] /\ UNCHANGED link
     \/ ~live[e] /\ Consume(e) /\ UNCHANGED rlPc
  /\ UNCHANGED <<streamVars, live, controlQueue, connClosed, connErr,
                 writerVars, readerVars, closerVars, wlPc, held, granted>>

\* dispatch's switch on the type of the frame whose stream was just looked up.
Dispatching(e, type) ==
  rlPc[e] = "apply" /\ Incoming(e) # <<>> /\ Head(Incoming(e)).type = type

\* A connection error: fail() records it and the read loop returns.
FailConn(e, code) ==
  /\ connErr' = [connErr EXCEPT ![e] = code]
  /\ rlPc' = [rlPc EXCEPT ![e] = "stopped"]

HandleData(e) ==
  /\ Dispatching(e, "DATA")
  /\ Consume(e)
  /\ LET f == Head(Incoming(e))
         n == f.hi - f.lo
     IN IF state[e] \notin {"open", "half_closed_local"}
          THEN /\ rlPc' = [rlPc EXCEPT ![e] = "reset"]
               /\ UNCHANGED <<recvWindow, buf, waiting, connErr>>
        ELSE IF n > recvWindow[e]
          THEN /\ FailConn(e, "FLOW_CONTROL_ERROR")
               /\ UNCHANGED <<recvWindow, buf, waiting>>
        ELSE /\ recvWindow' = [recvWindow EXCEPT ![e] = @ - n]
             /\ buf' = [buf EXCEPT ![e] = [lo |-> @.lo, hi |-> @.hi + n]]
             /\ NotifyLocked(e)
             /\ rlPc' = [rlPc EXCEPT ![e] = "read"]
             /\ UNCHANGED connErr
  /\ UNCHANGED <<state, sendWindow, unacked, eof, err, remoteClosed, outQueue,
                 live, controlQueue, connClosed,
                 writerVars, readerVars, closerVars, wlPc, held, granted>>

HandleWindow(e) ==
  /\ Dispatching(e, "WINDOW")
  /\ Consume(e)
  /\ LET inc == Head(Incoming(e)).hi - Head(Incoming(e)).lo IN
       IF sendWindow[e] + inc > MaxSendWindow
         THEN /\ FailConn(e, "FLOW_CONTROL_ERROR")
              /\ UNCHANGED <<sendWindow, granted, waiting>>
         ELSE /\ rlPc' = [rlPc EXCEPT ![e] = "read"]
              /\ UNCHANGED connErr
              /\ IF state[e] = "closed"
                   THEN UNCHANGED <<sendWindow, granted, waiting>>
                   ELSE /\ sendWindow' = [sendWindow EXCEPT ![e] = @ + inc]
                        /\ granted' = [granted EXCEPT ![e] = @ + inc]
                        /\ NotifyLocked(e)
  /\ UNCHANGED <<state, recvWindow, unacked, buf, eof, err, remoteClosed, outQueue,
                 live, controlQueue, connClosed,
                 writerVars, readerVars, closerVars, wlPc, held>>

\* handleClose, and retireStream when that closed the second side.
HandleClose(e) ==
  /\ Dispatching(e, "CLOSE")
  /\ Consume(e)
  /\ \/ /\ state[e] = "half_closed_remote"        \* duplicate CLOSE
        /\ rlPc' = [rlPc EXCEPT ![e] = "reset"]
        /\ UNCHANGED <<state, remoteClosed, eof, waiting, live>>
     \/ /\ state[e] = "closed"
        /\ rlPc' = [rlPc EXCEPT ![e] = "read"]
        /\ live' = [live EXCEPT ![e] = FALSE]
        /\ UNCHANGED <<state, remoteClosed, eof, waiting>>
     \/ /\ state[e] \in {"open", "half_closed_local"}
        /\ state' = [state EXCEPT ![e] = IF @ = "open" THEN "half_closed_remote" ELSE "closed"]
        /\ remoteClosed' = [remoteClosed EXCEPT ![e] = TRUE]
        /\ eof' = [eof EXCEPT ![e] = @ \/ BufLen(e) = 0]
        /\ NotifyLocked(e)
        /\ live' = [live EXCEPT ![e] = state[e] = "open"]
        /\ rlPc' = [rlPc EXCEPT ![e] = "read"]
  /\ UNCHANGED <<sendWindow, recvWindow, unacked, buf, err, outQueue,
                 controlQueue, connClosed, connErr,
                 writerVars, readerVars, closerVars, wlPc, held, granted>>

\* (*Stream).handleReset with retireStream behind it.
ApplyReset(e, code) ==
  /\ state' = [state EXCEPT ![e] = "closed"]
  /\ buf' = [buf EXCEPT ![e] = [lo |-> @.hi, hi |-> @.hi]]
  /\ err' = [err EXCEPT ![e] = code]
  /\ NotifyLocked(e)
  /\ live' = [live EXCEPT ![e] = FALSE]

HandleReset(e) ==
  /\ Dispatching(e, "RESET")
  /\ Consume(e)
  /\ ApplyReset(e, Head(Incoming(e)).code)
  /\ rlPc' = [rlPc EXCEPT ![e] = "read"]
  /\ UNCHANGED <<sendWindow, recvWindow, unacked, eof, remoteClosed, outQueue,
                 controlQueue, connClosed, connErr,
                 writerVars, readerVars, closerVars, wlPc, held, granted>>

\* resetStream(STREAM_CLOSED): mirrors the reset if the stream is still in the table...
ResetStream(e) ==
  /\ rlPc[e] = "reset"
  /\ IF live[e] THEN ApplyReset(e, "STREAM_CLOSED") ELSE UNCHANGED <<state, buf, err, waiting, live>>
  /\ rlPc' = [rlPc EXCEPT ![e] = "reset_send"]
  /\ UNCHANGED <<sendWindow, recvWindow, unacked, eof, remoteClosed, outQueue,
                 controlQueue, connClosed, connErr, link,
                 writerVars, readerVars, closerVars, wlPc, held, granted>>

\* ...and sends RESET either way.
SendResetStream(e) ==
  /\ rlPc[e] = "reset_send"
  /\ SendControlFrame(e, ResetFrame("STREAM_CLOSED"))
  /\ rlPc' = [rlPc EXCEPT ![e] = "read"]
  /\ UNCHANGED <<streamVars, live, connClosed, connErr, link,
                 writerVars, readerVars, closerVars, wlPc, held, granted>>

\* c.closed: a read or write error, a keepalive timeout, or Close on the connection.
ConnEnds(e) ==
  /\ e \in MayDie /\ ~connClosed[e]
  /\ connClosed' = [connClosed EXCEPT ![e] = TRUE]
  /\ UNCHANGED <<streamVars, live, controlQueue, connErr, link,
                 writerVars, readerVars, closerVars, loopVars>>

\* ...after which the read loop's next Read fails.
ReaderStops(e) ==
  /\ connClosed[e] /\ rlPc[e] = "read"
  /\ rlPc' = [rlPc EXCEPT ![e] = "stopped"]
  /\ UNCHANGED <<streamVars, connVars, writerVars, readerVars, closerVars, wlPc, held, granted>>
-----------------------------------------------------------------------------
AppReads(e) ==
  (\E p \in ReadSizes : ReadData(e, p)) \/ ReadEmpty(e) \/ ReadConnClosed(e)
    \/ CreditConsumed(e) \/ SendWindowFrame(e)
WriteSteps(e) ==
  ReserveSendCredit(e) \/ QueueChunk(e) \/ ChunkDone(e) \/ WriteConnClosed(e)
CloseSteps(e) ==
  RetireForClose(e) \/ SendClose(e) \/ RetireForReset(e) \/ SendReset(e)
    \/ CloseCloseWrite(e) \/ CloseReset(e) \/ CloseEOF(e)
WriterLoop(e) ==
  WriteControl(e) \/ NextChunk(e) \/ WriteData(e) \/ WriterStops(e)
ReaderLoop(e) ==
  LookupLiveStream(e) \/ HandleData(e) \/ HandleWindow(e) \/ HandleClose(e) \/ HandleReset(e)
    \/ ResetStream(e) \/ SendResetStream(e) \/ ReaderStops(e)
AppCalls(e) ==
  (\E n \in WriteSizes : Write(e, n)) \/ CancelWrite(e) \/ CloseWrite(e) \/ Reset(e) \/ Close(e)

Next == \E e \in Ends :
  AppReads(e) \/ WriteSteps(e) \/ CloseSteps(e) \/ WriterLoop(e) \/ ReaderLoop(e)
    \/ AppCalls(e) \/ ConnEnds(e)

Spec == Init /\ [][Next]_vars

\* Goroutines that can run do run, and applications keep calling Read.  Nothing is
\* assumed of what applications write, cancel, close or reset.
Fairness == \A e \in Ends :
  WF_vars(AppReads(e)) /\ WF_vars(WriteSteps(e)) /\ WF_vars(CloseSteps(e))
    /\ WF_vars(WriterLoop(e)) /\ WF_vars(ReaderLoop(e))
FairSpec == Spec /\ Fairness
-----------------------------------------------------------------------------
(* Properties *)

StreamType ==
  /\ state \in [Ends -> States]
  /\ sendWindow \in [Ends -> Int]
  /\ recvWindow \in [Ends -> Int]
  /\ unacked \in [Ends -> Int]
  /\ buf \in [Ends -> Positions]
  /\ eof \in [Ends -> BOOLEAN]
  /\ err \in [Ends -> Codes]
  /\ remoteClosed \in [Ends -> BOOLEAN]
  /\ outQueue \in [Ends -> Seq(Frame)]
  /\ waiting \in [Ends -> SUBSET {"reader", "writer"}]
ConnType ==
  /\ live \in [Ends -> BOOLEAN]
  /\ controlQueue \in [Ends -> Seq(Frame)]
  /\ connClosed \in [Ends -> BOOLEAN]
  /\ connErr \in [Ends -> {"none", "FLOW_CONTROL_ERROR"}]
  /\ link \in [Ends -> Seq(Frame)]
WriterType ==
  /\ wrPc \in [Ends -> {"idle", "reserve", "queue", "await"}]
  /\ wrWant \in [Ends -> Int]
  /\ wrHold \in [Ends -> Int]
  /\ wrChunk \in [Ends -> Int]
  /\ offered \in [Ends -> Int]
  /\ cancels \in [Ends -> Int]
  /\ okBytes \in [Ends -> Int]
  /\ reserved \in [Ends -> Int]
  /\ wrote \in [Ends -> Int]
ReaderType ==
  /\ rdPc \in [Ends -> {"read", "credit", "window", "done"}]
  /\ rdHand \in [Ends -> Int]
  /\ readResult \in [Ends -> Codes \cup {"eof", "conn"}]
  /\ credited \in [Ends -> Int]
CloserType ==
  /\ clPc \in [Ends -> {"idle", "close_write", "close_retire", "close_send", "close_reset",
                        "close_eof", "reset_retire", "reset_send"}]
  /\ clNext \in [Ends -> {"idle", "close_reset", "close_eof"}]
LoopType ==
  /\ wlPc \in [Ends -> {"turn", "write", "stopped"}]
  /\ held \in [Ends -> Frame]
  /\ rlPc \in [Ends -> {"read", "apply", "reset", "reset_send", "stopped"}]
  /\ granted \in [Ends -> Int]

\* Type correctness.  Counters are the code's signed 64-bit integers; that none of
\* them goes negative is part of FlowInv.
TypeOK == StreamType /\ ConnType /\ WriterType /\ ReaderType /\ CloserType /\ LoopType

\* Two ends that both run this code never meet a FLOW_CONTROL_ERROR (handleData's
\* and handleWindow's checks), whatever the interleaving of reads, credits, writes,
\* cancellations, half-closes and resets.
NoFlowControlError == \A e \in Ends : connErr[e] = "none"

\* The credit a sender has left plus every byte it took credit for that has not
\* arrived (reserved, queued, on the wire, or lost to a cancelled Write) never
\* exceeds what the receiver is prepared to accept.
WindowsAgree == \A e \in Ends :
  sendWindow[e] + (reserved[e] - buf[Peer(e)].hi) <= recvWindow[Peer(e)]

\* Bytes a Read took out of the buffer and has not passed to creditConsumed yet.
Unaccounted(e) == IF rdPc[e] = "credit" THEN rdHand[e] ELSE 0

\* Receive credit is conserved: what the peer may still send, what is buffered,
\* what a Read took but has not accounted for, and what is owed to the peer add
\* up to the initial window (ReadContext drops the lock between taking bytes and
\* creditConsumed).  In particular the buffer never outgrows the window.
CreditConserved == \A e \in Ends :
  state[e] # "closed" =>
    recvWindow[e] + BufLen(e) + unacked[e] + Unaccounted(e) = Window[e]

\* The frames of type T in q cover increasing, disjoint ranges between a and b.
Ordered(q, T, a, b) ==
  /\ a <= b
  /\ \A i \in 1..Len(q) : q[i].type = T => a <= q[i].lo /\ q[i].lo <= q[i].hi /\ q[i].hi <= b
  /\ \A i, j \in 1..Len(q) : i < j /\ q[i].type = T /\ q[j].type = T => q[i].hi <= q[j].lo

\* The bytes between an end's outQueue and its peer's buffer: on the link up to m,
\* then the chunk in the writer loop's hands, then the queue.
DataPipe(e, m) ==
  /\ Ordered(link[e], "DATA", buf[Peer(e)].hi, m)
  /\ wlPc[e] = "write" => m <= held[e].lo /\ held[e].lo <= held[e].hi
  /\ Ordered(outQueue[e], "DATA", IF wlPc[e] = "write" THEN held[e].hi ELSE m, wrote[e])

\* Credit accounted for in creditConsumed whose WINDOW is not queued yet.
Unsent(e) == IF rdPc[e] = "window" THEN rdHand[e] ELSE 0

\* The credit between an end's reader and its peer's send window.
CreditPipe(e, m) ==
  /\ Ordered(link[e], "WINDOW", granted[Peer(e)], m)
  /\ Ordered(controlQueue[e], "WINDOW", m, credited[e] - Unsent(e))

\* The code's windows are the initial window plus credits minus bytes, at both ends.
WindowAccounts(e) ==
  /\ recvWindow[e] = Window[e] + credited[e] - buf[e].hi
  /\ sendWindow[e] = Window[Peer(e)] + granted[e] - reserved[e]
  /\ sendWindow[e] >= 0

\* A sender has reserved credit for all it queued.
ReservedFirst(e) ==
  /\ wrote[e] + (IF wrPc[e] = "queue" THEN wrHold[e] ELSE 0) <= reserved[e]
  /\ wrPc[e] = "reserve" => wrWant[e] >= 0
  /\ wrPc[e] = "queue" => wrHold[e] >= 0

\* DATA goes through outQueue and the writer loop's hands, the rest through controlQueue.
ChunksAreData(e) ==
  /\ \A i \in 1..Len(outQueue[e]) : outQueue[e][i].type = "DATA"
  /\ held[e].type = "DATA"
  /\ \A i \in 1..Len(controlQueue[e]) : controlQueue[e][i].type # "DATA"

\* Bytes, and credits, travel in order, so none is spent twice.
DataInOrder(e) == \E m \in buf[Peer(e)].hi..wrote[e] : DataPipe(e, m)
CreditInOrder(e) == \E m \in granted[Peer(e)]..credited[e] : CreditPipe(e, m)

\* A receiver credits back only what was read, and all of it while the stream is open.
ReadAccounts(e) ==
  /\ unacked[e] >= 0 /\ rdHand[e] >= 0
  /\ credited[e] + unacked[e] + Unaccounted(e) <= buf[e].lo
  /\ state[e] # "closed" => credited[e] + unacked[e] + Unaccounted(e) = buf[e].lo
  /\ buf[e].lo <= buf[e].hi

FlowAt(e) ==
  /\ WindowAccounts(e) /\ ReservedFirst(e) /\ ChunksAreData(e)
  /\ DataInOrder(e) /\ CreditInOrder(e) /\ ReadAccounts(e)
  /\ connErr[e] = "none"

\* The inductive invariant behind the flow-control properties: the accounts of bytes
\* and credits at the two ends agree in every state the interleaving of readers,
\* writers, closers and loops can reach.
FlowInv == \A e \in Ends : FlowAt(e)

\* Once CLOSE or RESET is on the wire no DATA of that stream follows it, although
\* Write, CloseWrite and the writer loop run in different goroutines and a chunk
\* may be popped before and written after the half-close (nextChunk, sendDone).
NoDataAfterClose == \A e \in Ends : \A i, j \in 1..Len(link[e]) :
  link[e][i].type \in {"CLOSE", "RESET"} /\ i < j => link[e][j].type # "DATA"

\* CLOSE or RESET.
IsFin(f) == f.type \in {"CLOSE", "RESET"}

\* Whoever is about to queue a CLOSE or RESET has ended the stream's sending side first...
FinDecided(e) ==
  clPc[e] \in {"close_retire", "close_send", "reset_retire", "reset_send"} \/ rlPc[e] = "reset_send"
\* ...and so has whoever queued or wrote one; behind one that is written no chunk is left in
\* the writer loop's hands.  Only a closed stream is retired.
FinLast(e) ==
  /\ FinDecided(e) => SendDone(e)
  /\ \A i \in 1..Len(controlQueue[e]) : IsFin(controlQueue[e][i]) => SendDone(e)
  /\ \A i \in 1..Len(link[e]) : IsFin(link[e][i]) =>
       /\ SendDone(e) /\ wlPc[e] # "write"
       /\ \A j \in 1..Len(link[e]) : i < j => link[e][j].type # "DATA"
  /\ ~live[e] \/ clPc[e] \in {"close_retire", "reset_retire"} => state[e] = "closed"

\* The inductive invariant behind NoDataAfterClose.
FinInv == \A e \in Ends : FinLast(e)

\* Every Write returns: no call stays parked for credit, at outQueue or on its
\* chunk while the peer is there and its application keeps reading.
WriteReturnsEventually == \A e \in Ends :
  wrPc[e] # "idle" ~> wrPc[e] = "idle" \/ connClosed[Peer(e)]

\* A half-close gets through while the connection is up: the peer's reads end (EOF
\* once drained, or an error).
HalfCloseEndsReads == \A e \in Ends :
  state[e] = "half_closed_local" ~> rdPc[Peer(e)] = "done" \/ connClosed[e]

\* The end of the connection releases the stream's goroutines: a reader drains what
\* is buffered and then returns, and a Write returns from whichever wait it is in.
ConnEndReleases == \A e \in Ends :
  /\ connClosed[e] ~> rdPc[e] = "done"
  /\ connClosed[e] /\ wrPc[e] # "idle" ~> wrPc[e] = "idle"

=============================================================================
