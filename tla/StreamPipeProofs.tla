-------------------------- MODULE StreamPipeProofs --------------------------
(***************************************************************************)
(* Stream implements Pipe in both directions: the proof, for every value   *)
(* of the constants.  Each direction is a Pipe through the mapping of      *)
(* StreamPipe; the simulation needs what FlowInv says of the order of the  *)
(* bytes, what FinInv says of CLOSE and RESET, PipeInv, and ChanInv, which *)
(* the pipe's own steps preserve.                                          *)
(***************************************************************************)
EXTENDS StreamProofs, StreamPipe

(* The directions of a stream and their chunks *)

\* What end d writes and its peer reads, for either end: Down is Direction("server"), Up is
\* Direction("client").
Direction(d) == INSTANCE Pipe WITH
  sent <- wrote[d],
  chan <- PipeChan(d),
  shut <- PipeShut(d),
  got <- buf[Peer(d)],
  deaf <- PipeDeaf(Peer(d)),
  acked <- okBytes[d],
  ended <- PipeEnded(Peer(d))

\* The ranges of a queue that a frame was appended to...
LEMMA RangesAppend ==
  ASSUME NEW q \in Seq(Frame), NEW f \in Frame
  PROVE  Ranges(Append(q, f)) = Ranges(q) \cup DataOf(f)
<1> DEFINE r == Append(q, f)
<1>1. /\ Len(r) = Len(q) + 1 /\ Len(q) \in Nat /\ r[Len(q) + 1] = f /\ Len(q) + 1 \in 1..Len(r)
      /\ \A i \in 1..Len(q) : i \in 1..Len(r) /\ r[i] = q[i]
      /\ \A i \in 1..Len(r) : (i \in 1..Len(q) /\ r[i] = q[i]) \/ (i = Len(q) + 1 /\ r[i] = f)
  BY AppendElems
<1> HIDE DEF r
<1>2. ASSUME NEW c PROVE c \in Ranges(r) <=> c \in Ranges(q) \/ c \in DataOf(f)
  <2>1. c \in Ranges(r) <=> \E i \in 1..Len(r) : c \in DataOf(r[i])
    BY DEF Ranges
  <2>2. c \in Ranges(q) <=> \E i \in 1..Len(q) : c \in DataOf(q[i])
    BY DEF Ranges
  <2> QED
    BY <1>1, <2>1, <2>2
<1> QED
  BY <1>2 DEF r

\* ...or that lost its head.
LEMMA RangesTail ==
  ASSUME NEW q \in Seq(Frame), q # <<>>
  PROVE  Ranges(q) = Ranges(Tail(q)) \cup DataOf(Head(q))
<1> DEFINE r == Tail(q)
<1>1. /\ 1 \in 1..Len(q) /\ Head(q) = q[1] /\ Len(q) \in Nat
      /\ \A i \in 1..Len(r) : i + 1 \in 1..Len(q) /\ r[i] = q[i + 1]
      /\ \A i \in 1..Len(q) : i = 1 \/ (i - 1 \in 1..Len(r) /\ q[i] = r[i - 1])
  BY TailElems
<1> HIDE DEF r
<1>2. ASSUME NEW c PROVE c \in Ranges(q) <=> c \in Ranges(r) \/ c \in DataOf(Head(q))
  <2>1. c \in Ranges(r) <=> \E i \in 1..Len(r) : c \in DataOf(r[i])
    BY DEF Ranges
  <2>2. c \in Ranges(q) <=> \E i \in 1..Len(q) : c \in DataOf(q[i])
    BY DEF Ranges
  <2> QED
    BY <1>1, <2>1, <2>2
<1> QED
  BY <1>2 DEF r

\* A range of a queue is that of one of its DATA frames.
LEMMA RangesElem ==
  ASSUME NEW q, NEW c
  PROVE  c \in Ranges(q) <=>
           \E i \in 1..Len(q) : q[i].type = "DATA" /\ c = [lo |-> q[i].lo, hi |-> q[i].hi]
<1>1. c \in Ranges(q) <=> \E i \in 1..Len(q) : c \in DataOf(q[i])
  BY DEF Ranges
<1>2. \A f : c \in DataOf(f) <=> f.type = "DATA" /\ c = [lo |-> f.lo, hi |-> f.hi]
  BY DEF DataOf
<1> QED
  BY <1>1, <1>2

\* What is in an end's pipe.
LEMMA ChanElem ==
  ASSUME NEW d, NEW c
  PROVE  c \in PipeChan(d) <=>
           \/ c \in Ranges(link[d])
           \/ wlPc[d] = "write" /\ c \in DataOf(held[d])
           \/ ~PipeShut(d) /\ c \in Ranges(outQueue[d])
  BY DEF PipeChan

\* The steps of a pipe keep its chunks disjoint and without a gap.
LEMMA ChanStep ==
  ASSUME NEW d \in Ends, Direction(d)!ChanInv, [Direction(d)!Next]_(Direction(d)!vars), wrote'[d] \in Int
  PROVE  Direction(d)!ChanInv'
<1> DEFINE sent == wrote[d]
           chan == PipeChan(d)
           shut == PipeShut(d)
           got == buf[Peer(d)]
           deaf == PipeDeaf(Peer(d))
           InvOf(s, ch, sh, g, df) ==
             /\ s \in Nat /\ ch \subseteq [lo : Int, hi : Int] /\ g \in [lo : Int, hi : Int] /\ g.hi >= 0
             /\ \A c \in ch : c.lo < c.hi /\ c.hi <= s
             /\ \A c, e \in ch : c = e \/ c.hi <= e.lo \/ e.hi <= c.lo
             /\ ~df => /\ \A c \in ch : g.hi <= c.lo /\ (c.lo = g.hi \/ \E e \in ch : e.hi = c.lo)
                       /\ ~sh => s = g.hi \/ \E e \in ch : e.hi = s
<1>1. InvOf(sent, chan, shut, got, deaf)
  BY DEF Direction!ChanInv, Direction!Disjoint, Direction!Gapless, Direction!Chunk
<1>2. Direction(d)!ChanInv' <=> InvOf(sent', chan', shut', got', deaf')
  BY DEF Direction!ChanInv, Direction!Disjoint, Direction!Gapless, Direction!Chunk
<1>3. sent' \in Int
  OBVIOUS
<1> HIDE DEF sent, chan, shut, got, deaf
<1>4. CASE Direction(d)!Write
  <2>1. sent' > sent /\ shut' = shut /\ got' = got /\ deaf' = deaf
        /\ chan' = IF shut THEN chan ELSE chan \cup {[lo |-> sent, hi |-> sent']}
    BY <1>4 DEF Direction!Write, sent, chan, shut, got, deaf
  <2>2. InvOf(sent', chan', shut', got', deaf')
    <3>1. CASE shut
      BY <1>1, <1>3, <2>1, <3>1
    <3>2. CASE ~shut
      <4> DEFINE n == [lo |-> sent, hi |-> sent']
      <4>1. n \in [lo : Int, hi : Int] /\ n.lo = sent /\ n.hi = sent' /\ chan' = chan \cup {n}
        BY <1>1, <1>3, <2>1, <3>2
      <4> HIDE DEF n
      <4>2. \A c \in chan : c.lo \in Int /\ c.hi \in Int /\ c.hi <= n.lo
        BY <1>1, <4>1
      <4>3. got.hi \in Int /\ got.hi >= 0
        BY <1>1
      <4>4. \A c \in chan' : c.lo < c.hi /\ c.hi <= sent'
        BY <1>1, <1>3, <2>1, <4>1, <4>2
      <4>5. \A c, e \in chan' : c = e \/ c.hi <= e.lo \/ e.hi <= c.lo
        BY <1>1, <4>1, <4>2
      <4>6. ASSUME ~deaf, NEW c \in chan'
            PROVE  got.hi <= c.lo /\ (c.lo = got.hi \/ \E e \in chan' : e.hi = c.lo)
        <5>1. CASE c \in chan
          BY <1>1, <4>1, <4>6, <5>1
        <5>2. CASE c = n
          <6>1. sent = got.hi \/ \E e \in chan : e.hi = sent
            BY <1>1, <3>2, <4>6
          <6>2. \A e \in chan : got.hi <= e.lo /\ e.lo < e.hi /\ e.lo \in Int /\ e.hi \in Int
            BY <1>1, <4>2, <4>6
          <6> QED
            BY <4>1, <4>3, <5>2, <6>1, <6>2
        <5> QED
          BY <4>1, <5>1, <5>2
      <4>7. \E e \in chan' : e.hi = sent'
        BY <4>1
      <4>8. chan' \subseteq [lo : Int, hi : Int] /\ sent' \in Nat
        BY <1>1, <1>3, <2>1, <4>1
      <4> QED
        BY <1>1, <2>1, <4>4, <4>5, <4>6, <4>7, <4>8
    <3> QED
      BY <3>1, <3>2
  <2> QED
    BY <1>2, <2>2
<1>5. CASE Direction(d)!Shut
  <2>1. sent' = sent /\ shut' /\ got' = got /\ deaf' = deaf
        /\ \E n \in 0..sent : chan' = {c \in chan : c.hi <= n}
    BY <1>5 DEF Direction!Shut, sent, chan, shut, got, deaf
  <2>2. PICK n \in Int : chan' = {c \in chan : c.hi <= n}
    BY <1>1, <2>1
  <2>3. \A c \in chan : c.lo \in Int /\ c.hi \in Int /\ c.lo < c.hi
    BY <1>1
  <2>4. \A c \in chan', e \in chan : e.hi = c.lo => e \in chan'
    BY <2>2, <2>3
  <2>5. InvOf(sent', chan', shut', got', deaf')
    BY <1>1, <2>1, <2>2, <2>4
  <2> QED
    BY <1>2, <2>5
<1>6. CASE Direction(d)!Deliver
  <2>1. /\ sent' = sent /\ shut' = shut /\ deaf' = deaf /\ ~deaf
        /\ \E c \in chan : chan' = chan \ {c} /\ c.lo = got.hi /\ got' = [got EXCEPT !.hi = c.hi]
    BY <1>6 DEF Direction!Deliver, Direction!Arrives, sent, chan, shut, got, deaf
  <2>2. PICK f \in chan : chan' = chan \ {f} /\ f.lo = got.hi /\ got' = [got EXCEPT !.hi = f.hi]
    BY <2>1
  <2>3. \A c \in chan : c.lo \in Int /\ c.hi \in Int /\ c.lo < c.hi /\ c.hi <= sent
    BY <1>1
  <2>4. got' \in [lo : Int, hi : Int] /\ got'.hi = f.hi /\ got'.hi >= 0 /\ got.hi \in Int
    BY <1>1, <2>2, <2>3
  <2>5. \A c \in chan' : got'.hi <= c.lo /\ (c.lo = got'.hi \/ \E e \in chan' : e.hi = c.lo)
    <3> SUFFICES ASSUME NEW c \in chan' PROVE got'.hi <= c.lo /\ (c.lo = got'.hi \/ \E e \in chan' : e.hi = c.lo)
      OBVIOUS
    <3>1. c \in chan /\ c # f
      BY <2>2
    <3>2. f.hi <= c.lo
      BY <1>1, <2>1, <2>2, <2>3, <3>1
    <3>3. \E e \in chan : e.hi = c.lo
      BY <1>1, <2>1, <2>2, <2>3, <3>1, <3>2
    <3> QED
      BY <2>2, <2>4, <3>2, <3>3
  <2>6. ~shut => sent = got'.hi \/ \E e \in chan' : e.hi = sent
    <3>1. ~shut => sent = got.hi \/ \E e \in chan : e.hi = sent
      BY <1>1, <2>1
    <3>2. sent # got.hi
      BY <1>1, <2>2, <2>3
    <3> QED
      BY <2>2, <2>4, <3>1, <3>2
  <2>7. InvOf(sent', chan', shut', got', deaf')
    BY <1>1, <2>1, <2>2, <2>4, <2>5, <2>6
  <2> QED
    BY <1>2, <2>7
<1>7. CASE Direction(d)!Discard
  <2>1. /\ sent' = sent /\ shut' = shut /\ got' = got /\ deaf' = deaf /\ deaf
        /\ chan' \subseteq chan
    BY <1>7 DEF Direction!Discard, Direction!Arrives, sent, chan, shut, got, deaf
  <2>2. InvOf(sent', chan', shut', got', deaf')
    BY <1>1, <2>1
  <2> QED
    BY <1>2, <2>2
<1>8. CASE Direction(d)!Read
  <2>1. /\ sent' = sent /\ shut' = shut /\ chan' = chan /\ deaf' = deaf
        /\ \E n \in got.lo + 1..got.hi : got' = [got EXCEPT !.lo = n]
    BY <1>8 DEF Direction!Read, sent, chan, shut, got, deaf
  <2>2. got' \in [lo : Int, hi : Int] /\ got'.hi = got.hi
    BY <1>1, <2>1
  <2>3. InvOf(sent', chan', shut', got', deaf')
    BY <1>1, <2>1, <2>2
  <2> QED
    BY <1>2, <2>3
<1>9. CASE Direction(d)!Stop
  <2>1. /\ sent' = sent /\ shut' = shut /\ chan' = chan /\ deaf'
        /\ got' \in {got, [got EXCEPT !.lo = got.hi]}
    BY <1>9 DEF Direction!Stop, sent, chan, shut, got, deaf
  <2>2. got' \in [lo : Int, hi : Int] /\ got'.hi = got.hi
    BY <1>1, <2>1
  <2>3. InvOf(sent', chan', shut', got', deaf')
    BY <1>1, <2>1, <2>2
  <2> QED
    BY <1>2, <2>3
<1>10. CASE Direction(d)!Ack \/ Direction(d)!End \/ UNCHANGED Direction(d)!vars
  <2>1. sent' = sent /\ shut' = shut /\ chan' = chan /\ deaf' = deaf /\ got' = got
    BY <1>10 DEF Direction!Ack, Direction!End, Direction!vars, sent, chan, shut, got, deaf
  <2>2. InvOf(sent', chan', shut', got', deaf')
    BY <1>1, <2>1
  <2> QED
    BY <1>2, <2>2
<1> QED
  BY <1>4, <1>5, <1>6, <1>7, <1>8, <1>9, <1>10 DEF Direction!Next
-----------------------------------------------------------------------------
(* What a step can do to queues, links and sides *)

\* No DATA frame in a queue.
NoData(q) == \A i \in 1..Len(q) : q[i].type # "DATA"

\* A side of a stream that has ended stays so.
LEMMA SideSettles ==
  ASSUME TypeOK, [Next]_vars, NEW d \in Ends
  PROVE  (SendDone(d) => SendDone(d)') /\ (PipeDeaf(d) => PipeDeaf(d)')
<1> DEFINE G == (SendDone(d) => SendDone(d)') /\ (PipeDeaf(d) => PipeDeaf(d)')
<1> SUFFICES G
  OBVIOUS
<1>1. state \in [Ends -> States]
  BY DEF TypeOK, StreamType
<1>2. ASSUME NEW e \in Ends, CloseWrite(e) PROVE G
  BY <1>1, <1>2 DEF CloseWrite, CloseWriteLocked, Sendable, NotifyLocked, SendDone, PipeDeaf,
     States, streamVars
<1>3. ASSUME NEW e \in Ends, CloseCloseWrite(e) PROVE G
  BY <1>1, <1>3 DEF CloseCloseWrite, CloseWriteLocked, Sendable, NotifyLocked, SendDone, PipeDeaf,
     States, streamVars
<1>4. ASSUME NEW e \in Ends, Reset(e) PROVE G
  BY <1>1, <1>4 DEF Reset, ResetLocked, NotifyLocked, SendDone, PipeDeaf, States, streamVars
<1>5. ASSUME NEW e \in Ends, CloseReset(e) PROVE G
  BY <1>1, <1>5 DEF CloseReset, ResetLocked, NotifyLocked, SendDone, PipeDeaf, States, streamVars
<1>6. ASSUME NEW e \in Ends, HandleClose(e) PROVE G
  BY <1>1, <1>6 DEF HandleClose, Consume, NotifyLocked, SendDone, PipeDeaf, States, streamVars
<1>7. ASSUME NEW e \in Ends, HandleReset(e) PROVE G
  BY <1>1, <1>7 DEF HandleReset, Consume, ApplyReset, NotifyLocked, SendDone, PipeDeaf, States,
     streamVars
<1>8. ASSUME NEW e \in Ends, ResetStream(e) PROVE G
  BY <1>1, <1>8 DEF ResetStream, ApplyReset, NotifyLocked, SendDone, PipeDeaf, States, streamVars
<1>9. ASSUME NEW e \in Ends,
          (\E p \in ReadSizes : ReadData(e, p)) \/ ReadEmpty(e) \/ ReadConnClosed(e) \/
            CreditConsumed(e) \/ SendWindowFrame(e)
     PROVE  G
  <2>1. UNCHANGED <<state>>
    BY <1>9 DEF ReadData, ReadEmpty, ReadConnClosed, CreditConsumed, SendWindowFrame,
       SendControlFrame, streamVars, connVars, writerVars, readerVars, closerVars, loopVars
  <2> QED
    BY <2>1 DEF SendDone, PipeDeaf
<1>10. ASSUME NEW e \in Ends,
          (\E n \in WriteSizes : Write(e, n)) \/ ReserveSendCredit(e) \/ QueueChunk(e) \/
            ChunkDone(e) \/ WriteConnClosed(e) \/ CancelWrite(e)
     PROVE  G
  <2>1. UNCHANGED <<state>>
    BY <1>10 DEF Write, ReserveSendCredit, WriteReturns, QueueChunk, ChunkDone, WriteConnClosed,
       CancelWrite, streamVars, connVars, writerVars, readerVars, closerVars, loopVars
  <2> QED
    BY <2>1 DEF SendDone, PipeDeaf
<1>11. ASSUME NEW e \in Ends,
          RetireForClose(e) \/ RetireForReset(e) \/ SendClose(e) \/ SendReset(e) \/
            Close(e) \/ CloseEOF(e)
     PROVE  G
  <2>1. UNCHANGED <<state>>
    BY <1>11 DEF RetireForClose, RetireForReset, SendClose, SendReset, Close, CloseEOF,
       NotifyLocked, streamVars, connVars, writerVars, readerVars, closerVars, loopVars
  <2> QED
    BY <2>1 DEF SendDone, PipeDeaf
<1>12. ASSUME NEW e \in Ends,
          WriteControl(e) \/ NextChunk(e) \/ WriteData(e) \/ WriterStops(e)
     PROVE  G
  <2>1. UNCHANGED <<state>>
    BY <1>12 DEF WriteControl, NextChunk, CompleteChunk, WriteData, WriterStops, streamVars,
       connVars, writerVars, readerVars, closerVars, loopVars
  <2> QED
    BY <2>1 DEF SendDone, PipeDeaf
<1>13. ASSUME NEW e \in Ends,
          LookupLiveStream(e) \/ HandleData(e) \/ HandleWindow(e) \/ SendResetStream(e) \/
            ReaderStops(e) \/ ConnEnds(e)
     PROVE  G
  <2>1. UNCHANGED <<state>>
    BY <1>13 DEF LookupLiveStream, Consume, HandleData, NotifyLocked, FailConn, HandleWindow,
       SendResetStream, ReaderStops, ConnEnds, streamVars, connVars, writerVars, readerVars,
       closerVars, loopVars
  <2> QED
    BY <2>1 DEF SendDone, PipeDeaf
<1>14. CASE UNCHANGED vars
  <2>1. UNCHANGED <<state>>
    BY <1>14 DEF vars, streamVars, connVars, writerVars, readerVars, closerVars, loopVars
  <2> QED
    BY <2>1 DEF SendDone, PipeDeaf
<1> QED
  BY <1>2, <1>3, <1>4, <1>5, <1>6, <1>7, <1>8, <1>9, <1>10, <1>11, <1>12, <1>13, <1>14 DEF Next,
     AppReads, WriteSteps, CloseSteps, WriterLoop, ReaderLoop, AppCalls

\* The writer loop takes a chunk only while the sending side is open.
LEMMA LoopSettles ==
  ASSUME TypeOK, [Next]_vars, NEW d \in Ends
  PROVE  wlPc'[d] = "write" => wlPc[d] = "write" \/ ~SendDone(d)
<1> DEFINE G == wlPc'[d] = "write" => wlPc[d] = "write" \/ ~SendDone(d)
<1> SUFFICES G
  OBVIOUS
<1>1. wlPc \in [Ends -> {"turn", "write", "stopped"}]
  BY DEF TypeOK, LoopType
<1>2. ASSUME NEW e \in Ends, NextChunk(e) PROVE G
  BY <1>1, <1>2 DEF NextChunk, CompleteChunk
<1>3. ASSUME NEW e \in Ends, WriteData(e) PROVE G
  BY <1>1, <1>3 DEF WriteData, CompleteChunk
<1>4. ASSUME NEW e \in Ends, WriterStops(e) PROVE G
  BY <1>1, <1>4 DEF WriterStops, CompleteChunk
<1>5. ASSUME NEW e \in Ends,
          (\E p \in ReadSizes : ReadData(e, p)) \/ ReadEmpty(e) \/ ReadConnClosed(e) \/
            CreditConsumed(e) \/ SendWindowFrame(e)
     PROVE  G
  <2>1. UNCHANGED <<wlPc>>
    BY <1>5 DEF ReadData, ReadEmpty, ReadConnClosed, CreditConsumed, SendWindowFrame,
       SendControlFrame, streamVars, connVars, writerVars, readerVars, closerVars, loopVars
  <2> QED
    BY <2>1
<1>6. ASSUME NEW e \in Ends,
          (\E n \in WriteSizes : Write(e, n)) \/ ReserveSendCredit(e) \/ QueueChunk(e) \/
            ChunkDone(e) \/ WriteConnClosed(e) \/ CancelWrite(e)
     PROVE  G
  <2>1. UNCHANGED <<wlPc>>
    BY <1>6 DEF Write, ReserveSendCredit, WriteReturns, QueueChunk, ChunkDone, WriteConnClosed,
       CancelWrite, streamVars, connVars, writerVars, readerVars, closerVars, loopVars
  <2> QED
    BY <2>1
<1>7. ASSUME NEW e \in Ends,
          CloseWrite(e) \/ CloseCloseWrite(e) \/ Reset(e) \/ CloseReset(e) \/
            RetireForClose(e) \/ RetireForReset(e) \/ SendClose(e) \/ SendReset(e) \/
            Close(e) \/ CloseEOF(e)
     PROVE  G
  <2>1. UNCHANGED <<wlPc>>
    BY <1>7 DEF CloseWrite, CloseWriteLocked, Sendable, NotifyLocked, CloseCloseWrite, Reset,
       ResetLocked, CloseReset, RetireForClose, RetireForReset, SendClose, SendReset, Close,
       CloseEOF, streamVars, connVars, writerVars, readerVars, closerVars, loopVars
  <2> QED
    BY <2>1
<1>8. ASSUME NEW e \in Ends,
          WriteControl(e)
     PROVE  G
  <2>1. UNCHANGED <<wlPc>>
    BY <1>8 DEF WriteControl, streamVars, connVars, writerVars, readerVars, closerVars, loopVars
  <2> QED
    BY <2>1
<1>9. ASSUME NEW e \in Ends,
          LookupLiveStream(e) \/ HandleData(e) \/ HandleWindow(e) \/ HandleClose(e) \/
            HandleReset(e) \/ ResetStream(e) \/ SendResetStream(e) \/ ReaderStops(e) \/
            ConnEnds(e)
     PROVE  G
  <2>1. UNCHANGED <<wlPc>>
    BY <1>9 DEF LookupLiveStream, Consume, HandleData, NotifyLocked, FailConn, HandleWindow,
       HandleClose, HandleReset, ApplyReset, ResetStream, SendResetStream, ReaderStops, ConnEnds,
       streamVars, connVars, writerVars, readerVars, closerVars, loopVars
  <2> QED
    BY <2>1
<1>10. CASE UNCHANGED vars
  <2>1. UNCHANGED <<wlPc>>
    BY <1>10 DEF vars, streamVars, connVars, writerVars, readerVars, closerVars, loopVars
  <2> QED
    BY <2>1
<1> QED
  BY <1>2, <1>3, <1>4, <1>5, <1>6, <1>7, <1>8, <1>9, <1>10 DEF Next, AppReads, WriteSteps,
     CloseSteps, WriterLoop, ReaderLoop, AppCalls

\* What a step can do to an end's link: a frame of the control queue or the chunk in the
\* loop's hands is written, or the peer takes the head off.
LEMMA LinkSteps ==
  ASSUME TypeOK, [Next]_vars, NEW d \in Ends
  PROVE  \/ link'[d] = link[d]
         \/ controlQueue[d] # <<>> /\ link'[d] = Append(link[d], Head(controlQueue[d]))
         \/ wlPc[d] = "write" /\ link'[d] = Append(link[d], held[d])
         \/ /\ link[d] # <<>> /\ link'[d] = Tail(link[d])
            /\ Head(link[d]).type = "DATA" => ~live[Peer(d)] \/ HandleData(Peer(d))
<1> DEFINE G == \/ link'[d] = link[d]
                \/ controlQueue[d] # <<>> /\ link'[d] = Append(link[d], Head(controlQueue[d]))
                \/ wlPc[d] = "write" /\ link'[d] = Append(link[d], held[d])
                \/ /\ link[d] # <<>> /\ link'[d] = Tail(link[d])
                   /\ Head(link[d]).type = "DATA" => ~live[Peer(d)] \/ HandleData(Peer(d))
<1> SUFFICES G
  OBVIOUS
<1>1. link \in [Ends -> Seq(Frame)]
  BY DEF TypeOK, ConnType
<1>2. ASSUME NEW e \in Ends, WriteControl(e) PROVE G
  BY <1>1, <1>2, PeerInEnds DEF WriteControl, Incoming, Dispatching
<1>3. ASSUME NEW e \in Ends, WriteData(e) PROVE G
  BY <1>1, <1>3, PeerInEnds DEF WriteData, CompleteChunk, Incoming, Dispatching
<1>4. ASSUME NEW e \in Ends, LookupLiveStream(e) PROVE G
  BY <1>1, <1>4, PeerInEnds DEF LookupLiveStream, Consume, Incoming, Dispatching
<1>5. ASSUME NEW e \in Ends, HandleData(e) PROVE G
  BY <1>1, <1>5, PeerInEnds DEF HandleData, Consume, NotifyLocked, FailConn, Incoming, Dispatching
<1>6. ASSUME NEW e \in Ends, HandleWindow(e) PROVE G
  BY <1>1, <1>6, PeerInEnds DEF HandleWindow, Consume, NotifyLocked, FailConn, Incoming,
     Dispatching
<1>7. ASSUME NEW e \in Ends, HandleClose(e) PROVE G
  BY <1>1, <1>7, PeerInEnds DEF HandleClose, Consume, NotifyLocked, Incoming, Dispatching
<1>8. ASSUME NEW e \in Ends, HandleReset(e) PROVE G
  BY <1>1, <1>8, PeerInEnds DEF HandleReset, Consume, ApplyReset, NotifyLocked, Incoming,
     Dispatching
<1>9. ASSUME NEW e \in Ends,
          (\E p \in ReadSizes : ReadData(e, p)) \/ ReadEmpty(e) \/ ReadConnClosed(e) \/
            CreditConsumed(e) \/ SendWindowFrame(e)
     PROVE  G
  <2>1. UNCHANGED <<link>>
    BY <1>9 DEF ReadData, ReadEmpty, ReadConnClosed, CreditConsumed, SendWindowFrame,
       SendControlFrame, streamVars, connVars, writerVars, readerVars, closerVars, loopVars
  <2> QED
    BY <2>1
<1>10. ASSUME NEW e \in Ends,
          (\E n \in WriteSizes : Write(e, n)) \/ ReserveSendCredit(e) \/ QueueChunk(e) \/
            ChunkDone(e) \/ WriteConnClosed(e) \/ CancelWrite(e)
     PROVE  G
  <2>1. UNCHANGED <<link>>
    BY <1>10 DEF Write, ReserveSendCredit, WriteReturns, QueueChunk, ChunkDone, WriteConnClosed,
       CancelWrite, streamVars, connVars, writerVars, readerVars, closerVars, loopVars
  <2> QED
    BY <2>1
<1>11. ASSUME NEW e \in Ends,
          CloseWrite(e) \/ CloseCloseWrite(e) \/ Reset(e) \/ CloseReset(e) \/
            RetireForClose(e) \/ RetireForReset(e) \/ SendClose(e) \/ SendReset(e) \/
            Close(e) \/ CloseEOF(e)
     PROVE  G
  <2>1. UNCHANGED <<link>>
    BY <1>11 DEF CloseWrite, CloseWriteLocked, Sendable, NotifyLocked, CloseCloseWrite, Reset,
       ResetLocked, CloseReset, RetireForClose, RetireForReset, SendClose, SendReset, Close,
       CloseEOF, streamVars, connVars, writerVars, readerVars, closerVars, loopVars
  <2> QED
    BY <2>1
<1>12. ASSUME NEW e \in Ends,
          NextChunk(e) \/ WriterStops(e)
     PROVE  G
  <2>1. UNCHANGED <<link>>
    BY <1>12 DEF NextChunk, CompleteChunk, WriterStops, streamVars, connVars, writerVars,
       readerVars, closerVars, loopVars
  <2> QED
    BY <2>1
<1>13. ASSUME NEW e \in Ends,
          ResetStream(e) \/ SendResetStream(e) \/ ReaderStops(e) \/ ConnEnds(e)
     PROVE  G
  <2>1. UNCHANGED <<link>>
    BY <1>13 DEF ResetStream, ApplyReset, NotifyLocked, SendResetStream, ReaderStops, ConnEnds,
       streamVars, connVars, writerVars, readerVars, closerVars, loopVars
  <2> QED
    BY <2>1
<1>14. CASE UNCHANGED vars
  <2>1. UNCHANGED <<link>>
    BY <1>14 DEF vars, streamVars, connVars, writerVars, readerVars, closerVars, loopVars
  <2> QED
    BY <2>1
<1> QED
  BY <1>2, <1>3, <1>4, <1>5, <1>6, <1>7, <1>8, <1>9, <1>10, <1>11, <1>12, <1>13, <1>14 DEF Next,
     AppReads, WriteSteps, CloseSteps, WriterLoop, ReaderLoop, AppCalls

\* What a step can do to an end's control queue: a frame of the four kinds is queued, or the
\* head is taken off.
LEMMA ControlSteps ==
  ASSUME TypeOK, [Next]_vars, NEW d \in Ends
  PROVE  \/ controlQueue'[d] = controlQueue[d]
         \/ controlQueue[d] # <<>> /\ controlQueue'[d] = Tail(controlQueue[d])
         \/ \E f \in Frame : f.code # "EOF" /\ controlQueue'[d] = Append(controlQueue[d], f)
<1> DEFINE G == \/ controlQueue'[d] = controlQueue[d]
                \/ controlQueue[d] # <<>> /\ controlQueue'[d] = Tail(controlQueue[d])
                \/ \E f \in Frame : f.code # "EOF" /\ controlQueue'[d] = Append(controlQueue[d], f)
<1> SUFFICES G
  OBVIOUS
<1>1. controlQueue \in [Ends -> Seq(Frame)]
  BY DEF TypeOK, ConnType
<1>2. ASSUME NEW e \in Ends, WriteControl(e) PROVE G
  BY <1>1, <1>2 DEF WriteControl
<1>3. ASSUME NEW e \in Ends, SendClose(e) PROVE G
  <2>1. CloseFrame \in Frame /\ CloseFrame.code # "EOF"
    BY FrameType, Ints DEF CloseFrame
  <2> QED
    BY <1>1, <1>3, <2>1 DEF SendClose, SendControlFrame
<1>4. ASSUME NEW e \in Ends, SendReset(e) PROVE G
  <2>1. ResetFrame("CANCEL") \in Frame /\ ResetFrame("CANCEL").code # "EOF"
    BY FrameType, Ints DEF ResetFrame, Codes
  <2> QED
    BY <1>1, <1>4, <2>1 DEF SendReset, SendControlFrame
<1>5. ASSUME NEW e \in Ends, SendResetStream(e) PROVE G
  <2>1. ResetFrame("STREAM_CLOSED") \in Frame /\ ResetFrame("STREAM_CLOSED").code # "EOF"
    BY FrameType, Ints DEF ResetFrame, Codes
  <2> QED
    BY <1>1, <1>5, <2>1 DEF SendResetStream, SendControlFrame
<1>6. ASSUME NEW e \in Ends, SendWindowFrame(e) PROVE G
  <2> DEFINE f == WindowFrame(credited[e] - rdHand[e], credited[e])
  <2>1. credited[e] - rdHand[e] \in Int /\ credited[e] \in Int
    BY Ints
  <2>2. f \in Frame
    BY <2>1, FrameType
  <2>3. f.code # "EOF"
    BY DEF WindowFrame
  <2>4. SendControlFrame(e, f)
    BY <1>6 DEF SendWindowFrame
  <2> HIDE DEF f
  <2> QED
    BY <1>1, <2>2, <2>3, <2>4 DEF SendControlFrame
<1>7. ASSUME NEW e \in Ends,
          (\E p \in ReadSizes : ReadData(e, p)) \/ ReadEmpty(e) \/ ReadConnClosed(e) \/
            CreditConsumed(e)
     PROVE  G
  <2>1. UNCHANGED <<controlQueue>>
    BY <1>7 DEF ReadData, ReadEmpty, ReadConnClosed, CreditConsumed, streamVars, connVars,
       writerVars, readerVars, closerVars, loopVars
  <2> QED
    BY <2>1
<1>8. ASSUME NEW e \in Ends,
          (\E n \in WriteSizes : Write(e, n)) \/ ReserveSendCredit(e) \/ QueueChunk(e) \/
            ChunkDone(e) \/ WriteConnClosed(e) \/ CancelWrite(e)
     PROVE  G
  <2>1. UNCHANGED <<controlQueue>>
    BY <1>8 DEF Write, ReserveSendCredit, WriteReturns, QueueChunk, ChunkDone, WriteConnClosed,
       CancelWrite, streamVars, connVars, writerVars, readerVars, closerVars, loopVars
  <2> QED
    BY <2>1
<1>9. ASSUME NEW e \in Ends,
          CloseWrite(e) \/ CloseCloseWrite(e) \/ Reset(e) \/ CloseReset(e) \/
            RetireForClose(e) \/ RetireForReset(e) \/ Close(e) \/ CloseEOF(e)
     PROVE  G
  <2>1. UNCHANGED <<controlQueue>>
    BY <1>9 DEF CloseWrite, CloseWriteLocked, Sendable, NotifyLocked, CloseCloseWrite, Reset,
       ResetLocked, CloseReset, RetireForClose, RetireForReset, Close, CloseEOF, streamVars,
       connVars, writerVars, readerVars, closerVars, loopVars
  <2> QED
    BY <2>1
<1>10. ASSUME NEW e \in Ends,
          NextChunk(e) \/ WriteData(e) \/ WriterStops(e)
     PROVE  G
  <2>1. UNCHANGED <<controlQueue>>
    BY <1>10 DEF NextChunk, CompleteChunk, WriteData, WriterStops, streamVars, connVars,
       writerVars, readerVars, closerVars, loopVars
  <2> QED
    BY <2>1
<1>11. ASSUME NEW e \in Ends,
          LookupLiveStream(e) \/ HandleData(e) \/ HandleWindow(e) \/ HandleClose(e) \/
            HandleReset(e) \/ ResetStream(e) \/ ReaderStops(e) \/ ConnEnds(e)
     PROVE  G
  <2>1. UNCHANGED <<controlQueue>>
    BY <1>11 DEF LookupLiveStream, Consume, HandleData, NotifyLocked, FailConn, HandleWindow,
       HandleClose, HandleReset, ApplyReset, ResetStream, ReaderStops, ConnEnds, streamVars,
       connVars, writerVars, readerVars, closerVars, loopVars
  <2> QED
    BY <2>1
<1>12. CASE UNCHANGED vars
  <2>1. UNCHANGED <<controlQueue>>
    BY <1>12 DEF vars, streamVars, connVars, writerVars, readerVars, closerVars, loopVars
  <2> QED
    BY <2>1
<1> QED
  BY <1>2, <1>3, <1>4, <1>5, <1>6, <1>7, <1>8, <1>9, <1>10, <1>11, <1>12 DEF Next, AppReads,
     WriteSteps, CloseSteps, WriterLoop, ReaderLoop, AppCalls

\* A link that carries no DATA gets none while the writer loop holds no chunk.
LEMMA LinkSettles ==
  ASSUME TypeOK, FlowInv, [Next]_vars, NEW d \in Ends, wlPc[d] # "write", NoData(link[d])
  PROVE  NoData(link'[d])
<1>1. controlQueue[d] \in Seq(Frame) /\ link[d] \in Seq(Frame) /\ ChunksAreData(d)
  BY QueueTypes DEF FlowInv, FlowAt
<1>2. CASE link'[d] = link[d]
  BY <1>2
<1>3. CASE controlQueue[d] # <<>> /\ link'[d] = Append(link[d], Head(controlQueue[d]))
  <2>1. Head(controlQueue[d]) \in Frame /\ Head(controlQueue[d]).type # "DATA"
    BY <1>1, <1>3, TailAll DEF ChunksAreData
  <2> QED
    BY <1>1, <1>3, <2>1, AppendAll DEF NoData
<1>4. CASE link[d] # <<>> /\ link'[d] = Tail(link[d])
  BY <1>1, <1>4, TailAll DEF NoData
<1> QED
  BY <1>2, <1>3, <1>4, LinkSteps

\* No RESET with the code that stands for io.EOF is ever queued or written.
LEMMA CodesStep ==
  ASSUME TypeOK, FlowInv, PipeInv, [Next]_vars, NEW d \in Ends
  PROVE  CodesAt(d)'
<1>1. controlQueue[d] \in Seq(Frame) /\ link[d] \in Seq(Frame) /\ held[d] \in Frame
  BY QueueTypes, Ints
<1>2. NotEof(controlQueue[d]) /\ NotEof(link[d])
  BY DEF PipeInv, PipeAt, CodesAt
<1>3. ASSUME NEW q \in Seq(Frame), NotEof(q)
      PROVE  /\ \A f \in Frame : (f.type = "RESET" => f.code # "EOF") => NotEof(Append(q, f))
             /\ q # <<>> => /\ Head(q) \in Frame /\ (Head(q).type = "RESET" => Head(q).code # "EOF")
                           /\ NotEof(Tail(q))
  <2>1. ASSUME NEW f \in Frame, f.type = "RESET" => f.code # "EOF" PROVE NotEof(Append(q, f))
    BY <1>3, <2>1, AppendElems DEF NotEof
  <2>2. ASSUME q # <<>>
        PROVE  /\ Head(q) \in Frame /\ (Head(q).type = "RESET" => Head(q).code # "EOF")
               /\ NotEof(Tail(q))
    BY <1>3, <2>2, TailElems DEF NotEof
  <2> QED
    BY <2>1, <2>2
<1>4. NotEof(controlQueue'[d])
  BY <1>1, <1>2, <1>3, ControlSteps
<1>5. held[d].type = "DATA"
  BY DEF FlowInv, FlowAt, ChunksAreData
<1>6. NotEof(link'[d])
  BY <1>1, <1>2, <1>3, <1>5, LinkSteps
<1>7. CodesAt(d)' <=> NotEof(controlQueue'[d]) /\ NotEof(link'[d])
  BY DEF CodesAt, NotEof
<1> QED
  BY <1>4, <1>6, <1>7
-----------------------------------------------------------------------------
(* How the peer's CLOSE reaches reads *)

\* What the peer said of its side stays said, and only a CLOSE says it.
LEMMA RemoteCloses ==
  ASSUME TypeOK, [Next]_vars, NEW d \in Ends
  PROVE  /\ remoteClosed[d] => remoteClosed'[d]
         /\ remoteClosed'[d] => remoteClosed[d] \/ (HandleClose(d) /\ ~PipeDeaf(d) /\ PipeDeaf(d)')
<1> DEFINE G == /\ remoteClosed[d] => remoteClosed'[d]
                /\ remoteClosed'[d] => remoteClosed[d] \/ (HandleClose(d) /\ ~PipeDeaf(d) /\ PipeDeaf(d)')
<1> SUFFICES G
  OBVIOUS
<1>1. remoteClosed \in [Ends -> BOOLEAN] /\ state \in [Ends -> States]
  BY DEF TypeOK, StreamType
<1>2. ASSUME NEW e \in Ends, HandleClose(e) PROVE G
  <2>1. \/ UNCHANGED remoteClosed
        \/ /\ remoteClosed' = [remoteClosed EXCEPT ![e] = TRUE] /\ state[e] \in {"open", "half_closed_local"}
           /\ state' = [state EXCEPT ![e] = IF @ = "open" THEN "half_closed_remote" ELSE "closed"]
    BY <1>2 DEF HandleClose
  <2> QED
    BY <1>1, <1>2, <2>1 DEF PipeDeaf
<1>3. ASSUME NEW e \in Ends,
          (\E p \in ReadSizes : ReadData(e, p)) \/ ReadEmpty(e) \/ ReadConnClosed(e) \/
            CreditConsumed(e) \/ SendWindowFrame(e)
     PROVE  G
  <2>1. UNCHANGED <<remoteClosed>>
    BY <1>3 DEF ReadData, ReadEmpty, ReadConnClosed, CreditConsumed, SendWindowFrame,
       SendControlFrame, streamVars, connVars, writerVars, readerVars, closerVars, loopVars
  <2> QED
    BY <2>1
<1>4. ASSUME NEW e \in Ends,
          (\E n \in WriteSizes : Write(e, n)) \/ ReserveSendCredit(e) \/ QueueChunk(e) \/
            ChunkDone(e) \/ WriteConnClosed(e) \/ CancelWrite(e)
     PROVE  G
  <2>1. UNCHANGED <<remoteClosed>>
    BY <1>4 DEF Write, ReserveSendCredit, WriteReturns, QueueChunk, ChunkDone, WriteConnClosed,
       CancelWrite, streamVars, connVars, writerVars, readerVars, closerVars, loopVars
  <2> QED
    BY <2>1
<1>5. ASSUME NEW e \in Ends,
          CloseWrite(e) \/ CloseCloseWrite(e) \/ Reset(e) \/ CloseReset(e) \/
            RetireForClose(e) \/ RetireForReset(e) \/ SendClose(e) \/ SendReset(e) \/
            Close(e) \/ CloseEOF(e)
     PROVE  G
  <2>1. UNCHANGED <<remoteClosed>>
    BY <1>5 DEF CloseWrite, CloseWriteLocked, Sendable, NotifyLocked, CloseCloseWrite, Reset,
       ResetLocked, CloseReset, RetireForClose, RetireForReset, SendClose, SendReset, Close,
       CloseEOF, streamVars, connVars, writerVars, readerVars, closerVars, loopVars
  <2> QED
    BY <2>1
<1>6. ASSUME NEW e \in Ends,
          WriteControl(e) \/ NextChunk(e) \/ WriteData(e) \/ WriterStops(e)
     PROVE  G
  <2>1. UNCHANGED <<remoteClosed>>
    BY <1>6 DEF WriteControl, NextChunk, CompleteChunk, WriteData, WriterStops, streamVars,
       connVars, writerVars, readerVars, closerVars, loopVars
  <2> QED
    BY <2>1
<1>7. ASSUME NEW e \in Ends,
          LookupLiveStream(e) \/ HandleData(e) \/ HandleWindow(e) \/ HandleReset(e) \/
            ResetStream(e) \/ SendResetStream(e) \/ ReaderStops(e) \/ ConnEnds(e)
     PROVE  G
  <2>1. UNCHANGED <<remoteClosed>>
    BY <1>7 DEF LookupLiveStream, Consume, HandleData, NotifyLocked, FailConn, HandleWindow,
       HandleReset, ApplyReset, ResetStream, SendResetStream, ReaderStops, ConnEnds, streamVars,
       connVars, writerVars, readerVars, closerVars, loopVars
  <2> QED
    BY <2>1
<1>8. CASE UNCHANGED vars
  <2>1. UNCHANGED <<remoteClosed>>
    BY <1>8 DEF vars, streamVars, connVars, writerVars, readerVars, closerVars, loopVars
  <2> QED
    BY <2>1
<1> QED
  BY <1>2, <1>3, <1>4, <1>5, <1>6, <1>7, <1>8 DEF Next, AppReads, WriteSteps, CloseSteps,
     WriterLoop, ReaderLoop, AppCalls

\* Once an end has handled its peer's CLOSE nothing more can reach it.
LEMMA RemoteDoneStep ==
  ASSUME TypeOK, FlowInv, FinInv, PipeInv, [Next]_vars, NEW d \in Ends
  PROVE  RemoteDone(d)'
<1> DEFINE p == Peer(d)
<1>1. p \in Ends /\ Peer(p) = d /\ p # d
  BY PeerInEnds
<1>2. link[p] \in Seq(Frame)
  BY <1>1, QueueTypes
<1>3. CASE remoteClosed[d]
  <2>1. PipeDeaf(d) /\ SendDone(p) /\ wlPc[p] # "write" /\ NoData(link[p])
    BY <1>3 DEF PipeInv, PipeAt, RemoteDone, NoData
  <2>2. PipeDeaf(d)' /\ SendDone(p)' /\ wlPc'[p] # "write"
    BY <1>1, <2>1, SideSettles, LoopSettles
  <2>3. NoData(link'[p])
    BY <1>1, <2>1, LinkSettles
  <2> QED
    BY <2>2, <2>3 DEF RemoteDone, NoData
<1>4. CASE ~remoteClosed[d] /\ remoteClosed'[d]
  <2>1. HandleClose(d) /\ PipeDeaf(d)'
    BY <1>4, RemoteCloses
  <2>2. link[p] # <<>> /\ IsFin(Head(link[p])) /\ link' = [link EXCEPT ![p] = Tail(@)] /\ wlPc' = wlPc
    BY <2>1 DEF HandleClose, Dispatching, Incoming, Consume, IsFin
  <2>3. FinSent(link[p], SendDone(p) /\ wlPc[p] # "write")
    BY <1>1, FinParts DEF FinInv
  <2>4. SendDone(p) /\ wlPc[p] # "write" /\ NoData(Tail(link[p]))
    BY <1>2, <2>2, <2>3, FinSentTail DEF NoData
  <2>5. SendDone(p)' /\ link'[p] = Tail(link[p])
    BY <1>1, <1>2, <2>2, <2>4, SideSettles DEF TypeOK, ConnType
  <2> QED
    BY <2>1, <2>2, <2>4, <2>5 DEF RemoteDone, NoData
<1> QED
  BY <1>3, <1>4 DEF RemoteDone

\* io.EOF is made sticky only after the peer's CLOSE.
LEMMA EofIsRemoteStep ==
  ASSUME TypeOK, PipeInv, [Next]_vars, NEW d \in Ends
  PROVE  EofIsRemote(d)'
<1> DEFINE Eof(er, pc, nx) == er = "EOF" \/ pc = "close_eof" \/ nx = "close_eof"
           G == Eof(err'[d], clPc'[d], clNext'[d]) => remoteClosed'[d]
<1> SUFFICES G
  BY DEF EofIsRemote
<1>1. /\ err \in [Ends -> Codes] /\ remoteClosed \in [Ends -> BOOLEAN]
      /\ clNext \in [Ends -> {"idle", "close_reset", "close_eof"}]
      /\ clPc \in [Ends -> {"idle", "close_write", "close_retire", "close_send", "close_reset",
                            "close_eof", "reset_retire", "reset_send"}]
  BY DEF TypeOK, StreamType, CloserType
<1>2. Eof(err[d], clPc[d], clNext[d]) => remoteClosed[d]
  BY DEF PipeInv, PipeAt, EofIsRemote
<1>3. remoteClosed[d] => remoteClosed'[d]
  BY RemoteCloses
<1>4. ASSUME NEW e \in Ends, CloseWrite(e) PROVE G
  BY <1>1, <1>2, <1>3, <1>4 DEF CloseWrite, CloseWriteLocked, Sendable, NotifyLocked, streamVars,
     closerVars, Codes
<1>5. ASSUME NEW e \in Ends, CloseCloseWrite(e) PROVE G
  BY <1>1, <1>2, <1>3, <1>5 DEF CloseCloseWrite, CloseWriteLocked, Sendable, NotifyLocked,
     streamVars, closerVars, Codes
<1>6. ASSUME NEW e \in Ends, Reset(e) PROVE G
  BY <1>1, <1>2, <1>3, <1>6 DEF Reset, ResetLocked, NotifyLocked, streamVars, closerVars, Codes
<1>7. ASSUME NEW e \in Ends, CloseReset(e) PROVE G
  BY <1>1, <1>2, <1>3, <1>7 DEF CloseReset, ResetLocked, NotifyLocked, streamVars, closerVars,
     Codes
<1>8. ASSUME NEW e \in Ends, RetireForClose(e) PROVE G
  BY <1>1, <1>2, <1>3, <1>8 DEF RetireForClose, streamVars, closerVars, Codes
<1>9. ASSUME NEW e \in Ends, RetireForReset(e) PROVE G
  BY <1>1, <1>2, <1>3, <1>9 DEF RetireForReset, streamVars, closerVars, Codes
<1>10. ASSUME NEW e \in Ends, SendReset(e) PROVE G
  BY <1>1, <1>2, <1>3, <1>10 DEF SendReset, streamVars, closerVars, Codes
<1>11. ASSUME NEW e \in Ends, Close(e) PROVE G
  BY <1>1, <1>2, <1>3, <1>11 DEF Close, streamVars, closerVars, Codes
<1>12. ASSUME NEW e \in Ends, CloseEOF(e) PROVE G
  BY <1>1, <1>2, <1>3, <1>12 DEF CloseEOF, NotifyLocked, streamVars, closerVars, Codes
<1>13. ASSUME NEW e \in Ends, SendClose(e) PROVE G
  BY <1>1, <1>2, <1>3, <1>13 DEF SendClose, streamVars, closerVars, Codes
<1>14. ASSUME NEW e \in Ends, ResetStream(e) PROVE G
  BY <1>1, <1>2, <1>3, <1>14 DEF ResetStream, ApplyReset, NotifyLocked, streamVars, closerVars,
     Codes
<1>15. ASSUME NEW e \in Ends, HandleReset(e) PROVE G
  <2>1. Incoming(e) # <<>> /\ Head(Incoming(e)).type = "RESET"
    BY <1>15 DEF HandleReset, Dispatching
  <2>2. NotEof(link[Peer(e)]) /\ link[Peer(e)] \in Seq(Frame)
    BY PeerInEnds, QueueTypes DEF PipeInv, PipeAt, CodesAt
  <2>3. Head(Incoming(e)).code # "EOF"
    BY <2>1, <2>2, TailElems DEF NotEof, Incoming
  <2> QED
    BY <1>1, <1>2, <1>3, <1>15, <2>3 DEF HandleReset, ApplyReset, closerVars
<1>16. ASSUME NEW e \in Ends,
          (\E p \in ReadSizes : ReadData(e, p)) \/ ReadEmpty(e) \/ ReadConnClosed(e) \/
            CreditConsumed(e) \/ SendWindowFrame(e)
     PROVE  G
  <2>1. UNCHANGED <<err, clPc, clNext>>
    BY <1>16 DEF ReadData, ReadEmpty, ReadConnClosed, CreditConsumed, SendWindowFrame,
       SendControlFrame, streamVars, connVars, writerVars, readerVars, closerVars, loopVars
  <2> QED
    BY <1>2, <1>3, <2>1
<1>17. ASSUME NEW e \in Ends,
          (\E n \in WriteSizes : Write(e, n)) \/ ReserveSendCredit(e) \/ QueueChunk(e) \/
            ChunkDone(e) \/ WriteConnClosed(e) \/ CancelWrite(e)
     PROVE  G
  <2>1. UNCHANGED <<err, clPc, clNext>>
    BY <1>17 DEF Write, ReserveSendCredit, WriteReturns, QueueChunk, ChunkDone, WriteConnClosed,
       CancelWrite, streamVars, connVars, writerVars, readerVars, closerVars, loopVars
  <2> QED
    BY <1>2, <1>3, <2>1
<1>18. ASSUME NEW e \in Ends,
          WriteControl(e) \/ NextChunk(e) \/ WriteData(e) \/ WriterStops(e)
     PROVE  G
  <2>1. UNCHANGED <<err, clPc, clNext>>
    BY <1>18 DEF WriteControl, NextChunk, CompleteChunk, WriteData, WriterStops, streamVars,
       connVars, writerVars, readerVars, closerVars, loopVars
  <2> QED
    BY <1>2, <1>3, <2>1
<1>19. ASSUME NEW e \in Ends,
          LookupLiveStream(e) \/ HandleData(e) \/ HandleWindow(e) \/ HandleClose(e) \/
            SendResetStream(e) \/ ReaderStops(e) \/ ConnEnds(e)
     PROVE  G
  <2>1. UNCHANGED <<err, clPc, clNext>>
    BY <1>19 DEF LookupLiveStream, Consume, HandleData, NotifyLocked, FailConn, HandleWindow,
       HandleClose, SendResetStream, ReaderStops, ConnEnds, streamVars, connVars, writerVars,
       readerVars, closerVars, loopVars
  <2> QED
    BY <1>2, <1>3, <2>1
<1>20. CASE UNCHANGED vars
  <2>1. UNCHANGED <<err, clPc, clNext>>
    BY <1>20 DEF vars, streamVars, connVars, writerVars, readerVars, closerVars, loopVars
  <2> QED
    BY <1>2, <1>3, <2>1
<1> QED
  BY <1>4, <1>5, <1>6, <1>7, <1>8, <1>9, <1>10, <1>11, <1>12, <1>13, <1>14, <1>15, <1>16, <1>17,
     <1>18, <1>19, <1>20 DEF Next, AppReads, WriteSteps, CloseSteps, WriterLoop, ReaderLoop,
     AppCalls

\* Reads end with io.EOF only behind the peer's CLOSE and the last byte before it.
LEMMA ReadsEndStep ==
  ASSUME TypeOK, FlowInv, PipeInv, [Next]_vars, NEW d \in Ends
  PROVE  ReadsEnd(d)'
<1> DEFINE Ends3(ef, rc, b, rr, pc) ==
             /\ ef => rc /\ b.lo = b.hi
             /\ rr # "none" => pc = "done"
             /\ rr \in {"eof", "EOF"} => rc /\ b.lo = b.hi
           G == Ends3(eof'[d], remoteClosed'[d], buf'[d], readResult'[d], rdPc'[d])
<1> SUFFICES G
  BY DEF ReadsEnd
<1>1. /\ eof \in [Ends -> BOOLEAN] /\ buf \in [Ends -> Positions]
      /\ readResult \in [Ends -> Codes \cup {"eof", "conn"}]
      /\ rdPc \in [Ends -> {"read", "credit", "window", "done"}]
      /\ buf[d].lo \in Int /\ buf[d].hi \in Int
  BY Ints DEF TypeOK, StreamType, ReaderType
<1>2. Ends3(eof[d], remoteClosed[d], buf[d], readResult[d], rdPc[d])
  BY DEF PipeInv, PipeAt, ReadsEnd
<1>3. remoteClosed[d] => remoteClosed'[d]
  BY RemoteCloses
<1>4. ASSUME NEW e \in Ends, NEW p \in ReadSizes, ReadData(e, p) PROVE G
  <2>1. e # d => UNCHANGED <<eof[d], buf[d], readResult[d], rdPc[d]>>
    BY <1>1, <1>2, <1>3, <1>4 DEF ReadData
  <2>2. e = d => buf[d].hi - buf[d].lo > 0 /\ rdPc[d] = "read" /\ UNCHANGED <<eof, readResult>>
    BY <1>4 DEF ReadData, BufLen
  <2> QED
    BY <1>1, <1>2, <1>3, <2>1, <2>2
<1>5. ASSUME NEW e \in Ends, ReadEmpty(e) PROVE G
  <2>1. buf' = buf /\ eof' = eof
    BY <1>5 DEF ReadEmpty
  <2>2. e = d => buf[d].hi - buf[d].lo = 0
    BY <1>5 DEF ReadEmpty, BufLen
  <2>3. err[d] = "EOF" => remoteClosed[d]
    BY DEF PipeInv, PipeAt, EofIsRemote
  <2>4. \/ readResult' = readResult /\ rdPc' = rdPc
        \/ /\ readResult' = [readResult EXCEPT ![e] = IF err[e] # "none" THEN err[e] ELSE "eof"]
           /\ rdPc' = [rdPc EXCEPT ![e] = "done"] /\ (err[e] # "none" \/ eof[e])
    BY <1>5 DEF ReadEmpty
  <2>5. err[d] \in Codes
    BY DEF TypeOK, StreamType
  <2> QED
    BY <1>1, <1>2, <1>3, <2>1, <2>2, <2>3, <2>4, <2>5 DEF Codes
<1>6. ASSUME NEW e \in Ends, ReadConnClosed(e) PROVE G
  BY <1>1, <1>2, <1>3, <1>6 DEF ReadConnClosed
<1>7. ASSUME NEW e \in Ends, CreditConsumed(e) PROVE G
  <2>1. buf' = buf /\ readResult' = readResult /\ eof' = [eof EXCEPT ![e] = @ \/ Drained(e)]
        /\ rdPc[e] = "credit" /\ (e # d => rdPc'[d] = rdPc[d])
    BY <1>1, <1>7 DEF CreditConsumed
  <2>2. Drained(d) => remoteClosed[d] /\ buf[d].lo = buf[d].hi
    BY <1>1 DEF Drained, BufLen
  <2>3. Drained(e) \in BOOLEAN
    BY DEF Drained
  <2> QED
    BY <1>1, <1>2, <1>3, <2>1, <2>2, <2>3
<1>8. ASSUME NEW e \in Ends, SendWindowFrame(e) PROVE G
  BY <1>1, <1>2, <1>3, <1>8 DEF SendWindowFrame, streamVars
<1>9. ASSUME NEW e \in Ends, HandleData(e) PROVE G
  <2>1. UNCHANGED <<eof, readResult, rdPc>>
    BY <1>9 DEF HandleData, readerVars
  <2>2. PipeDeaf(d) \/ d # e => buf'[d] = buf[d]
    BY <1>1, <1>9 DEF HandleData, PipeDeaf
  <2>3. remoteClosed[d] => PipeDeaf(d)
    BY DEF PipeInv, PipeAt, RemoteDone
  <2>4. eof[d] => remoteClosed[d]
    BY <1>2
  <2> QED
    BY <1>2, <1>3, <2>1, <2>2, <2>3
<1>10. ASSUME NEW e \in Ends, HandleClose(e) PROVE G
  <2>1. UNCHANGED <<buf, readResult, rdPc>>
    BY <1>10 DEF HandleClose, readerVars
  <2>2. \/ UNCHANGED eof
        \/ eof' = [eof EXCEPT ![e] = @ \/ BufLen(e) = 0] /\ remoteClosed' = [remoteClosed EXCEPT ![e] = TRUE]
    BY <1>10 DEF HandleClose
  <2>3. remoteClosed \in [Ends -> BOOLEAN]
    BY DEF TypeOK, StreamType
  <2> QED
    BY <1>1, <1>2, <1>3, <2>1, <2>2, <2>3 DEF BufLen
<1>11. ASSUME NEW e \in Ends, Reset(e) PROVE G
  <2>1. UNCHANGED <<eof, readResult, rdPc>>
    BY <1>11 DEF Reset, ResetLocked, NotifyLocked, readerVars, streamVars
  <2>2. buf'[d] = buf[d] \/ buf'[d] = [lo |-> buf[d].hi, hi |-> buf[d].hi]
    BY <1>1, <1>11 DEF Reset, ResetLocked, NotifyLocked, streamVars
  <2> QED
    BY <1>2, <1>3, <2>1, <2>2
<1>12. ASSUME NEW e \in Ends, CloseReset(e) PROVE G
  <2>1. UNCHANGED <<eof, readResult, rdPc>>
    BY <1>12 DEF CloseReset, ResetLocked, NotifyLocked, readerVars, streamVars
  <2>2. buf'[d] = buf[d] \/ buf'[d] = [lo |-> buf[d].hi, hi |-> buf[d].hi]
    BY <1>1, <1>12 DEF CloseReset, ResetLocked, NotifyLocked, streamVars
  <2> QED
    BY <1>2, <1>3, <2>1, <2>2
<1>13. ASSUME NEW e \in Ends, HandleReset(e) PROVE G
  <2>1. UNCHANGED <<eof, readResult, rdPc>>
    BY <1>13 DEF HandleReset, Consume, ApplyReset, NotifyLocked, readerVars, streamVars
  <2>2. buf'[d] = buf[d] \/ buf'[d] = [lo |-> buf[d].hi, hi |-> buf[d].hi]
    BY <1>1, <1>13 DEF HandleReset, Consume, ApplyReset, NotifyLocked, streamVars
  <2> QED
    BY <1>2, <1>3, <2>1, <2>2
<1>14. ASSUME NEW e \in Ends, ResetStream(e) PROVE G
  <2>1. UNCHANGED <<eof, readResult, rdPc>>
    BY <1>14 DEF ResetStream, ApplyReset, NotifyLocked, readerVars, streamVars
  <2>2. buf'[d] = buf[d] \/ buf'[d] = [lo |-> buf[d].hi, hi |-> buf[d].hi]
    BY <1>1, <1>14 DEF ResetStream, ApplyReset, NotifyLocked, streamVars
  <2> QED
    BY <1>2, <1>3, <2>1, <2>2
<1>15. ASSUME NEW e \in Ends,
          (\E n \in WriteSizes : Write(e, n)) \/ ReserveSendCredit(e) \/ QueueChunk(e) \/
            ChunkDone(e) \/ WriteConnClosed(e) \/ CancelWrite(e)
     PROVE  G
  <2>1. UNCHANGED <<eof, buf, readResult, rdPc>>
    BY <1>15 DEF Write, ReserveSendCredit, WriteReturns, QueueChunk, ChunkDone, WriteConnClosed,
       CancelWrite, streamVars, connVars, writerVars, readerVars, closerVars, loopVars
  <2> QED
    BY <1>2, <1>3, <2>1
<1>16. ASSUME NEW e \in Ends,
          CloseWrite(e) \/ CloseCloseWrite(e) \/ RetireForClose(e) \/ RetireForReset(e) \/
            SendClose(e) \/ SendReset(e) \/ Close(e) \/ CloseEOF(e)
     PROVE  G
  <2>1. UNCHANGED <<eof, buf, readResult, rdPc>>
    BY <1>16 DEF CloseWrite, CloseWriteLocked, Sendable, NotifyLocked, CloseCloseWrite,
       RetireForClose, RetireForReset, SendClose, SendReset, Close, CloseEOF, streamVars,
       connVars, writerVars, readerVars, closerVars, loopVars
  <2> QED
    BY <1>2, <1>3, <2>1
<1>17. ASSUME NEW e \in Ends,
          WriteControl(e) \/ NextChunk(e) \/ WriteData(e) \/ WriterStops(e)
     PROVE  G
  <2>1. UNCHANGED <<eof, buf, readResult, rdPc>>
    BY <1>17 DEF WriteControl, NextChunk, CompleteChunk, WriteData, WriterStops, streamVars,
       connVars, writerVars, readerVars, closerVars, loopVars
  <2> QED
    BY <1>2, <1>3, <2>1
<1>18. ASSUME NEW e \in Ends,
          LookupLiveStream(e) \/ HandleWindow(e) \/ SendResetStream(e) \/ ReaderStops(e)
            \/ ConnEnds(e)
     PROVE  G
  <2>1. UNCHANGED <<eof, buf, readResult, rdPc>>
    BY <1>18 DEF LookupLiveStream, Consume, HandleWindow, NotifyLocked, FailConn, SendResetStream,
       ReaderStops, ConnEnds, streamVars, connVars, writerVars, readerVars, closerVars, loopVars
  <2> QED
    BY <1>2, <1>3, <2>1
<1>19. CASE UNCHANGED vars
  <2>1. UNCHANGED <<eof, buf, readResult, rdPc>>
    BY <1>19 DEF vars, streamVars, connVars, writerVars, readerVars, closerVars, loopVars
  <2> QED
    BY <1>2, <1>3, <2>1
<1> QED
  BY <1>4, <1>5, <1>6, <1>7, <1>8, <1>9, <1>10, <1>11, <1>12, <1>13, <1>14, <1>15, <1>16, <1>17,
     <1>18, <1>19 DEF Next, AppReads, WriteSteps, CloseSteps, WriterLoop, ReaderLoop, AppCalls
-----------------------------------------------------------------------------
(* Chunks and the Writes that wait for them *)

\* The numbers behind the writes of an end.
LEMMA WriteInts ==
  ASSUME TypeOK, NEW d \in Ends
  PROVE  /\ wrWant[d] \in Int /\ wrHold[d] \in Int /\ wrChunk[d] \in Int /\ okBytes[d] \in Int
         /\ wrote[d] \in Int /\ sendWindow[d] \in Int
  BY DEF TypeOK, StreamType, WriterType

\* Every chunk in an end's outQueue, and the one in its writer loop's hands, has an end
\* behind position 0, so it is not mistaken for the wrChunk of a Write that waits for none.
LEMMA ChunkPositive ==
  ASSUME TypeOK, FlowInv, PipeInv, NEW d \in Ends, Direction(d)!ChanInv
  PROVE  /\ outQueue[d] # <<>> => /\ PopChunk(d) \in Frame /\ PopChunk(d).hi \in Int /\ PopChunk(d).hi > 0
         /\ wlPc[d] = "write" => held[d].hi > 0 /\ held[d].hi <= wrote[d]
<1>1. PICK m \in Int : DataPipe(d, m)
  BY DataPick DEF FlowInv, FlowAt
<1>2. /\ outQueue[d] \in Seq(Frame) /\ held[d].lo \in Int /\ held[d].hi \in Int /\ wrote[d] \in Int
      /\ buf[Peer(d)].hi \in Int
  BY Ints, PeerInEnds
<1>3. buf[Peer(d)].hi >= 0
  BY DEF Direction!ChanInv
<1>4. m >= 0
  BY <1>1, <1>2, <1>3 DEF DataPipe, Ordered
<1>5. ASSUME wlPc[d] = "write" PROVE held[d].hi > 0 /\ held[d].hi <= wrote[d]
  <2>1. held[d].type = "DATA"
    BY DEF FlowInv, FlowAt, ChunksAreData
  <2>2. [lo |-> held[d].lo, hi |-> held[d].hi] \in PipeChan(d)
    BY <1>5, <2>1 DEF PipeChan, DataOf
  <2>3. held[d].lo < held[d].hi /\ held[d].hi <= wrote[d]
    BY <2>2 DEF Direction!ChanInv, Direction!Disjoint
  <2> QED
    BY <1>1, <1>2, <1>4, <1>5, <2>3 DEF DataPipe
<1>6. ASSUME outQueue[d] # <<>>
      PROVE  PopChunk(d) \in Frame /\ PopChunk(d).hi \in Int /\ PopChunk(d).hi > 0
  <2>1. 1 \in 1..Len(outQueue[d]) /\ PopChunk(d) = outQueue[d][1] /\ outQueue[d][1] \in Frame
    BY <1>2, <1>6, TailElems DEF PopChunk
  <2>2. outQueue[d][1].lo \in Int /\ outQueue[d][1].hi \in Int
    BY <2>1, FrameType
  <2>3. outQueue[d][1].lo < outQueue[d][1].hi
    BY <2>1 DEF PipeInv, PipeAt, WaitedFor
  <2>4. outQueue[d][1].type = "DATA"
    BY <2>1 DEF FlowInv, FlowAt, ChunksAreData
  <2>5. outQueue[d][1].lo >= (IF wlPc[d] = "write" THEN held[d].hi ELSE m)
    BY <1>1, <2>1, <2>2, <2>4 DEF DataPipe, Ordered
  <2> QED
    BY <1>2, <1>4, <1>5, <2>1, <2>2, <2>3, <2>5
<1> QED
  BY <1>5, <1>6

\* What done says to the Write of an end: nothing, unless it waits for that chunk.
LEMMA CompleteSteps ==
  ASSUME TypeOK, NEW e \in Ends, NEW d \in Ends, NEW c, NEW ok \in BOOLEAN, CompleteChunk(e, c, ok)
  PROVE  \/ UNCHANGED <<wrHold, wrChunk>>
         \/ /\ wrChunk[e] = c.hi /\ wrChunk' = [wrChunk EXCEPT ![e] = 0]
            /\ e # d => wrHold'[d] = wrHold[d]
            /\ e = d => wrHold'[d] = IF ok THEN wrHold[d] ELSE 0
<1>1. wrHold \in [Ends -> Int]
  BY DEF TypeOK, WriterType
<1> QED
  BY <1>1 DEF CompleteChunk

\* What a step can do to an end's outQueue: a real chunk is queued, or the head is taken off.
LEMMA OutQueueSteps ==
  ASSUME TypeOK, PipeInv, [Next]_vars, NEW d \in Ends
  PROVE  \/ outQueue'[d] = outQueue[d]
         \/ outQueue[d] # <<>> /\ outQueue'[d] = Tail(outQueue[d])
         \/ \E f \in Frame : f.lo < f.hi /\ outQueue'[d] = Append(outQueue[d], f)
<1> DEFINE G == \/ outQueue'[d] = outQueue[d]
                \/ outQueue[d] # <<>> /\ outQueue'[d] = Tail(outQueue[d])
                \/ \E f \in Frame : f.lo < f.hi /\ outQueue'[d] = Append(outQueue[d], f)
<1> SUFFICES G
  OBVIOUS
<1>1. outQueue \in [Ends -> Seq(Frame)]
  BY DEF TypeOK, StreamType
<1>2. ASSUME NEW e \in Ends, NextChunk(e) PROVE G
  BY <1>1, <1>2 DEF NextChunk
<1>3. ASSUME NEW e \in Ends, QueueChunk(e) PROVE G
  <2> DEFINE f == DataFrame(wrote[e], wrote[e] + wrHold[e])
  <2>1. wrHold[e] > 0
    BY <1>3 DEF QueueChunk, PipeInv, PipeAt, WaitedFor
  <2>2. f \in Frame /\ f.lo < f.hi
    BY <2>1, WriteInts, FrameType, FrameFields
  <2>3. outQueue' = [outQueue EXCEPT ![e] = Append(@, f)]
    BY <1>3 DEF QueueChunk
  <2> HIDE DEF f
  <2> QED
    BY <1>1, <2>2, <2>3
<1>4. ASSUME NEW e \in Ends,
          (\E p \in ReadSizes : ReadData(e, p)) \/ ReadEmpty(e) \/ ReadConnClosed(e) \/
            CreditConsumed(e) \/ SendWindowFrame(e)
     PROVE  G
  <2>1. UNCHANGED <<outQueue>>
    BY <1>4 DEF ReadData, ReadEmpty, ReadConnClosed, CreditConsumed, SendWindowFrame,
       SendControlFrame, streamVars, connVars, writerVars, readerVars, closerVars, loopVars
  <2> QED
    BY <2>1
<1>5. ASSUME NEW e \in Ends,
          (\E n \in WriteSizes : Write(e, n)) \/ ReserveSendCredit(e) \/ ChunkDone(e) \/
            WriteConnClosed(e) \/ CancelWrite(e)
     PROVE  G
  <2>1. UNCHANGED <<outQueue>>
    BY <1>5 DEF Write, ReserveSendCredit, WriteReturns, ChunkDone, WriteConnClosed, CancelWrite,
       streamVars, connVars, writerVars, readerVars, closerVars, loopVars
  <2> QED
    BY <2>1
<1>6. ASSUME NEW e \in Ends,
          CloseWrite(e) \/ CloseCloseWrite(e) \/ Reset(e) \/ CloseReset(e) \/
            RetireForClose(e) \/ RetireForReset(e) \/ SendClose(e) \/ SendReset(e) \/
            Close(e) \/ CloseEOF(e)
     PROVE  G
  <2>1. UNCHANGED <<outQueue>>
    BY <1>6 DEF CloseWrite, CloseWriteLocked, Sendable, NotifyLocked, CloseCloseWrite, Reset,
       ResetLocked, CloseReset, RetireForClose, RetireForReset, SendClose, SendReset, Close,
       CloseEOF, streamVars, connVars, writerVars, readerVars, closerVars, loopVars
  <2> QED
    BY <2>1
<1>7. ASSUME NEW e \in Ends,
          WriteControl(e) \/ WriteData(e) \/ WriterStops(e)
     PROVE  G
  <2>1. UNCHANGED <<outQueue>>
    BY <1>7 DEF WriteControl, WriteData, CompleteChunk, WriterStops, streamVars, connVars,
       writerVars, readerVars, closerVars, loopVars
  <2> QED
    BY <2>1
<1>8. ASSUME NEW e \in Ends,
          LookupLiveStream(e) \/ HandleData(e) \/ HandleWindow(e) \/ HandleClose(e) \/
            HandleReset(e) \/ ResetStream(e) \/ SendResetStream(e) \/ ReaderStops(e) \/
            ConnEnds(e)
     PROVE  G
  <2>1. UNCHANGED <<outQueue>>
    BY <1>8 DEF LookupLiveStream, Consume, HandleData, NotifyLocked, FailConn, HandleWindow,
       HandleClose, HandleReset, ApplyReset, ResetStream, SendResetStream, ReaderStops, ConnEnds,
       streamVars, connVars, writerVars, readerVars, closerVars, loopVars
  <2> QED
    BY <2>1
<1>9. CASE UNCHANGED vars
  <2>1. UNCHANGED <<outQueue>>
    BY <1>9 DEF vars, streamVars, connVars, writerVars, readerVars, closerVars, loopVars
  <2> QED
    BY <2>1
<1> QED
  BY <1>2, <1>3, <1>4, <1>5, <1>6, <1>7, <1>8, <1>9 DEF Next, AppReads, WriteSteps, CloseSteps,
     WriterLoop, ReaderLoop, AppCalls

\* Where a Write stands, what it holds and what it waits for.
WriteStands(pc, want, hold, chunk, ok) ==
  /\ pc = "reserve" => want > 0
  /\ pc = "queue" => hold > 0
  /\ pc = "await" => hold >= 0
  /\ pc # "await" => chunk = 0
  /\ chunk # 0 => ok + hold <= chunk

\* A chunk that is waited for stays behind what was reported.
LEMMA WriteStandsStep ==
  ASSUME TypeOK, FlowInv, PipeInv, [Next]_vars, NEW d \in Ends, Direction(d)!ChanInv
  PROVE  WriteStands(wrPc'[d], wrWant'[d], wrHold'[d], wrChunk'[d], okBytes'[d])
<1> DEFINE G == WriteStands(wrPc'[d], wrWant'[d], wrHold'[d], wrChunk'[d], okBytes'[d])
<1> SUFFICES G
  OBVIOUS
<1> USE DEF WriteStands
<1>1. /\ wrPc \in [Ends -> {"idle", "reserve", "queue", "await"}] /\ wrWant \in [Ends -> Int]
      /\ wrHold \in [Ends -> Int] /\ wrChunk \in [Ends -> Int] /\ okBytes \in [Ends -> Int]
      /\ wrote \in [Ends -> Int] /\ sendWindow \in [Ends -> Int]
  BY DEF TypeOK, StreamType, WriterType
<1>2. WriteStands(wrPc[d], wrWant[d], wrHold[d], wrChunk[d], okBytes[d])
  BY DEF PipeInv, PipeAt, WaitedFor, WriteStands
<1>3. /\ outQueue[d] # <<>> => PopChunk(d).hi # 0
      /\ wlPc[d] = "write" => held[d].hi # 0
  BY ChunkPositive, Ints
<1>4. ASSUME NEW e \in Ends, NEW n \in WriteSizes, Write(e, n) PROVE G
  <2>1. n \in Nat /\ n > 0
    BY <1>4, StreamAssumption
  <2> QED
    BY <1>1, <1>2, <1>4, <2>1 DEF Write
<1>5. ASSUME NEW e \in Ends, ReserveSendCredit(e) PROVE G
  <2>1. WriteReturns(e) \/ UNCHANGED <<wrPc, wrWant, wrHold, wrChunk>>
        \/ /\ wrHold' = [wrHold EXCEPT ![e] = ChunkLen(e)] /\ wrPc' = [wrPc EXCEPT ![e] = "queue"]
           /\ UNCHANGED <<wrWant, wrChunk>> /\ wrPc[e] = "reserve" /\ sendWindow[e] > 0
    BY <1>5 DEF ReserveSendCredit
  <2>2. okBytes' = okBytes
    BY <1>5 DEF ReserveSendCredit
  <2>3. MaxChunk \in Int /\ MaxChunk > 0
    BY StreamAssumption
  <2>4. wrPc[e] = "reserve" /\ sendWindow[e] > 0 /\ d = e => ChunkLen(e) \in Int /\ ChunkLen(e) > 0
    BY <1>1, <1>2, <2>3 DEF ChunkLen, Min2
  <2> QED
    BY <1>1, <1>2, <2>1, <2>2, <2>4 DEF WriteReturns
<1>6. ASSUME NEW e \in Ends, QueueChunk(e) PROVE G
  <2>1. Acked(d) <= wrote[d]
    BY DEF PipeInv, PipeAt, AckedSent
  <2>2. e = d => okBytes[d] <= wrote[d]
    BY <1>1, <1>6, <2>1 DEF Acked, QueueChunk
  <2>3. /\ wrChunk' = [wrChunk EXCEPT ![e] = wrote[e] + wrHold[e]] /\ wrPc' = [wrPc EXCEPT ![e] = "await"]
        /\ UNCHANGED <<wrWant, wrHold, okBytes>> /\ wrPc[e] = "queue"
    BY <1>6 DEF QueueChunk
  <2> QED
    BY <1>1, <1>2, <2>2, <2>3
<1>7. ASSUME NEW e \in Ends, ChunkDone(e) PROVE G
  <2>1. wrPc[e] = "await" /\ wrChunk[e] = 0
    BY <1>7 DEF ChunkDone
  <2>2. CASE wrHold[e] = 0
    BY <1>1, <1>2, <1>7, <2>2 DEF ChunkDone, WriteReturns
  <2>3. CASE wrHold[e] # 0
    BY <1>1, <1>2, <1>7, <2>1, <2>3 DEF ChunkDone
  <2> QED
    BY <2>2, <2>3
<1>8. ASSUME NEW e \in Ends, WriteConnClosed(e) PROVE G
  BY <1>1, <1>2, <1>8 DEF WriteConnClosed, WriteReturns
<1>9. ASSUME NEW e \in Ends, CancelWrite(e) PROVE G
  BY <1>1, <1>2, <1>9 DEF CancelWrite, WriteReturns
<1>10. ASSUME NEW e \in Ends, NextChunk(e) PROVE G
  <2>1. UNCHANGED <<wrHold, wrChunk>> \/ (outQueue[e] # <<>> /\ \E ok \in BOOLEAN : CompleteChunk(e, PopChunk(e), ok))
    BY <1>10 DEF NextChunk
  <2>2. UNCHANGED <<wrPc, wrWant, okBytes>>
    BY <1>10 DEF NextChunk
  <2>3. CASE UNCHANGED <<wrHold, wrChunk>>
    BY <1>2, <2>2, <2>3
  <2>4. ASSUME NEW ok \in BOOLEAN, outQueue[e] # <<>>, CompleteChunk(e, PopChunk(e), ok) PROVE G
    <3>1. \/ UNCHANGED <<wrHold, wrChunk>>
          \/ /\ wrChunk[e] = PopChunk(e).hi /\ wrChunk' = [wrChunk EXCEPT ![e] = 0]
             /\ e # d => wrHold'[d] = wrHold[d]
             /\ e = d => wrHold'[d] = IF ok THEN wrHold[d] ELSE 0
      BY <2>4, CompleteSteps
    <3>2. e = d /\ wrChunk[d] = PopChunk(e).hi => wrChunk[d] # 0
      BY <1>1, <1>3, <2>4
    <3>3. CASE e # d
      BY <1>1, <1>2, <2>2, <3>1, <3>3
    <3>4. CASE e = d
      BY <1>1, <1>2, <2>2, <3>1, <3>2, <3>4
    <3> QED
      BY <3>3, <3>4
  <2> QED
    BY <2>1, <2>3, <2>4
<1>11. ASSUME NEW e \in Ends, WriteData(e) PROVE G
  <2>1. UNCHANGED <<wrHold, wrChunk>> \/ (wlPc[e] = "write" /\ \E ok \in BOOLEAN : CompleteChunk(e, held[e], ok))
    BY <1>11 DEF WriteData
  <2>2. UNCHANGED <<wrPc, wrWant, okBytes>>
    BY <1>11 DEF WriteData
  <2>3. CASE UNCHANGED <<wrHold, wrChunk>>
    BY <1>2, <2>2, <2>3
  <2>4. ASSUME NEW ok \in BOOLEAN, wlPc[e] = "write", CompleteChunk(e, held[e], ok) PROVE G
    <3>1. \/ UNCHANGED <<wrHold, wrChunk>>
          \/ /\ wrChunk[e] = held[e].hi /\ wrChunk' = [wrChunk EXCEPT ![e] = 0]
             /\ e # d => wrHold'[d] = wrHold[d]
             /\ e = d => wrHold'[d] = IF ok THEN wrHold[d] ELSE 0
      BY <2>4, CompleteSteps
    <3>2. e = d /\ wrChunk[d] = held[e].hi => wrChunk[d] # 0
      BY <1>1, <1>3, <2>4
    <3>3. CASE e # d
      BY <1>1, <1>2, <2>2, <3>1, <3>3
    <3>4. CASE e = d
      BY <1>1, <1>2, <2>2, <3>1, <3>2, <3>4
    <3> QED
      BY <3>3, <3>4
  <2> QED
    BY <2>1, <2>3, <2>4
<1>12. ASSUME NEW e \in Ends, WriterStops(e) PROVE G
  <2>1. UNCHANGED <<wrHold, wrChunk>> \/ (wlPc[e] = "write" /\ \E ok \in BOOLEAN : CompleteChunk(e, held[e], ok))
    BY <1>12 DEF WriterStops
  <2>2. UNCHANGED <<wrPc, wrWant, okBytes>>
    BY <1>12 DEF WriterStops
  <2>3. CASE UNCHANGED <<wrHold, wrChunk>>
    BY <1>2, <2>2, <2>3
  <2>4. ASSUME NEW ok \in BOOLEAN, wlPc[e] = "write", CompleteChunk(e, held[e], ok) PROVE G
    <3>1. \/ UNCHANGED <<wrHold, wrChunk>>
          \/ /\ wrChunk[e] = held[e].hi /\ wrChunk' = [wrChunk EXCEPT ![e] = 0]
             /\ e # d => wrHold'[d] = wrHold[d]
             /\ e = d => wrHold'[d] = IF ok THEN wrHold[d] ELSE 0
      BY <2>4, CompleteSteps
    <3>2. e = d /\ wrChunk[d] = held[e].hi => wrChunk[d] # 0
      BY <1>1, <1>3, <2>4
    <3>3. CASE e # d
      BY <1>1, <1>2, <2>2, <3>1, <3>3
    <3>4. CASE e = d
      BY <1>1, <1>2, <2>2, <3>1, <3>2, <3>4
    <3> QED
      BY <3>3, <3>4
  <2> QED
    BY <2>1, <2>3, <2>4
<1>13. ASSUME NEW e \in Ends,
          (\E p \in ReadSizes : ReadData(e, p)) \/ ReadEmpty(e) \/ ReadConnClosed(e) \/
            CreditConsumed(e) \/ SendWindowFrame(e)
     PROVE  G
  <2>1. UNCHANGED <<wrPc, wrWant, wrHold, wrChunk, okBytes>>
    BY <1>13 DEF ReadData, ReadEmpty, ReadConnClosed, CreditConsumed, SendWindowFrame,
       SendControlFrame, streamVars, connVars, writerVars, readerVars, closerVars, loopVars
  <2> QED
    BY <1>2, <2>1
<1>14. ASSUME NEW e \in Ends,
          CloseWrite(e) \/ CloseCloseWrite(e) \/ Reset(e) \/ CloseReset(e) \/
            RetireForClose(e) \/ RetireForReset(e) \/ SendClose(e) \/ SendReset(e) \/
            Close(e) \/ CloseEOF(e)
     PROVE  G
  <2>1. UNCHANGED <<wrPc, wrWant, wrHold, wrChunk, okBytes>>
    BY <1>14 DEF CloseWrite, CloseWriteLocked, Sendable, NotifyLocked, CloseCloseWrite, Reset,
       ResetLocked, CloseReset, RetireForClose, RetireForReset, SendClose, SendReset, Close,
       CloseEOF, streamVars, connVars, writerVars, readerVars, closerVars, loopVars
  <2> QED
    BY <1>2, <2>1
<1>15. ASSUME NEW e \in Ends,
          WriteControl(e)
     PROVE  G
  <2>1. UNCHANGED <<wrPc, wrWant, wrHold, wrChunk, okBytes>>
    BY <1>15 DEF WriteControl, streamVars, connVars, writerVars, readerVars, closerVars, loopVars
  <2> QED
    BY <1>2, <2>1
<1>16. ASSUME NEW e \in Ends,
          LookupLiveStream(e) \/ HandleData(e) \/ HandleWindow(e) \/ HandleClose(e) \/
            HandleReset(e) \/ ResetStream(e) \/ SendResetStream(e) \/ ReaderStops(e) \/
            ConnEnds(e)
     PROVE  G
  <2>1. UNCHANGED <<wrPc, wrWant, wrHold, wrChunk, okBytes>>
    BY <1>16 DEF LookupLiveStream, Consume, HandleData, NotifyLocked, FailConn, HandleWindow,
       HandleClose, HandleReset, ApplyReset, ResetStream, SendResetStream, ReaderStops, ConnEnds,
       streamVars, connVars, writerVars, readerVars, closerVars, loopVars
  <2> QED
    BY <1>2, <2>1
<1>17. CASE UNCHANGED vars
  <2>1. UNCHANGED <<wrPc, wrWant, wrHold, wrChunk, okBytes>>
    BY <1>17 DEF vars, streamVars, connVars, writerVars, readerVars, closerVars, loopVars
  <2> QED
    BY <1>2, <2>1
<1> QED
  BY <1>4, <1>5, <1>6, <1>7, <1>8, <1>9, <1>10, <1>11, <1>12, <1>13, <1>14, <1>15, <1>16, <1>17
     DEF Next, AppReads, WriteSteps, CloseSteps, WriterLoop, ReaderLoop, AppCalls

\* A chunk stays real, and one that is waited for stays behind what was reported.
LEMMA WaitedForStep ==
  ASSUME TypeOK, FlowInv, PipeInv, [Next]_vars, NEW d \in Ends, Direction(d)!ChanInv
  PROVE  WaitedFor(d)'
<1>1. WriteStands(wrPc'[d], wrWant'[d], wrHold'[d], wrChunk'[d], okBytes'[d])
  BY WriteStandsStep
<1>2. \A i \in 1..Len(outQueue'[d]) : outQueue'[d][i].lo < outQueue'[d][i].hi
  <2>1. outQueue[d] \in Seq(Frame) /\ \A i \in 1..Len(outQueue[d]) : outQueue[d][i].lo < outQueue[d][i].hi
    BY QueueTypes DEF PipeInv, PipeAt, WaitedFor
  <2>2. CASE outQueue[d] # <<>> /\ outQueue'[d] = Tail(outQueue[d])
    BY <2>1, <2>2, TailElems
  <2>3. ASSUME NEW f \in Frame, f.lo < f.hi, outQueue'[d] = Append(outQueue[d], f)
        PROVE  \A i \in 1..Len(outQueue'[d]) : outQueue'[d][i].lo < outQueue'[d][i].hi
    BY <2>1, <2>3, AppendElems
  <2> QED
    BY <2>1, <2>2, <2>3, OutQueueSteps
<1> QED
  BY <1>1, <1>2 DEF WaitedFor, WriteStands
-----------------------------------------------------------------------------
(* Acknowledged bytes are not lost *)

\* What is in an end's pipe behind the chunk at the head of its link.
Behind(d) ==
  Ranges(Tail(link[d]))
    \cup (IF wlPc[d] = "write" THEN DataOf(held[d]) ELSE {})
    \cup (IF PipeShut(d) THEN {} ELSE Ranges(outQueue[d]))

\* The range of the frame at the head of an end's link.
HeadRange(d) == [lo |-> Head(link[d]).lo, hi |-> Head(link[d]).hi]

\* The chunk at the head of the link is the oldest one of the pipe, and continues what the
\* peer has.
LEMMA HeadOldest ==
  ASSUME TypeOK, FlowInv, NEW d \in Ends, Direction(d)!ChanInv,
         link[d] # <<>>, Head(link[d]).type = "DATA"
  PROVE  /\ HeadRange(d).lo \in Int /\ HeadRange(d).hi \in Int /\ HeadRange(d).lo < HeadRange(d).hi
         /\ PipeChan(d) = Behind(d) \cup {HeadRange(d)}
         /\ \A x \in Behind(d) : x.lo \in Int /\ HeadRange(d).hi <= x.lo
         /\ ~PipeDeaf(Peer(d)) => HeadRange(d).lo = buf[Peer(d)].hi
<1> DEFINE c == HeadRange(d)
<1>1. PICK m \in Int : DataPipe(d, m)
  BY DataPick DEF FlowInv, FlowAt
<1>2. /\ link[d] \in Seq(Frame) /\ outQueue[d] \in Seq(Frame)
      /\ held[d].lo \in Int /\ held[d].hi \in Int /\ buf[Peer(d)].hi \in Int
  BY Ints, PeerInEnds
<1>3. /\ 1 \in 1..Len(link[d]) /\ Head(link[d]) = link[d][1] /\ link[d][1] \in Frame
      /\ \A i \in 1..Len(Tail(link[d])) : i + 1 \in 1..Len(link[d]) /\ Tail(link[d])[i] = link[d][i + 1]
                                          /\ i \in Nat /\ 1 < i + 1
      /\ \A i \in 1..Len(link[d]) : link[d][i].lo \in Int /\ link[d][i].hi \in Int
      /\ \A i \in 1..Len(outQueue[d]) : outQueue[d][i].lo \in Int /\ outQueue[d][i].hi \in Int
  BY <1>2, TailElems, FrameType
<1>4. c.lo \in Int /\ c.hi \in Int /\ c.lo = link[d][1].lo /\ c.hi = link[d][1].hi
  BY <1>3 DEF HeadRange
<1>5. DataOf(Head(link[d])) = {c}
  BY DEF DataOf, HeadRange
<1>6. PipeChan(d) = Behind(d) \cup {c}
  BY <1>2, <1>5, RangesTail DEF PipeChan, Behind
<1>7. c.lo < c.hi
  BY <1>6 DEF Direction!ChanInv, Direction!Disjoint
<1>8. c.hi <= m
  BY <1>1, <1>3, <1>4 DEF DataPipe, Ordered
<1>9. ASSUME NEW x \in Behind(d) PROVE x.lo \in Int /\ c.hi <= x.lo
  <2>1. CASE x \in Ranges(Tail(link[d]))
    <3>1. PICK i \in 1..Len(Tail(link[d])) :
            Tail(link[d])[i].type = "DATA" /\ x = [lo |-> Tail(link[d])[i].lo, hi |-> Tail(link[d])[i].hi]
      BY <2>1, RangesElem
    <3>2. x.lo = link[d][i + 1].lo /\ link[d][i + 1].type = "DATA" /\ i + 1 \in 1..Len(link[d])
          /\ i + 1 \in Nat /\ 1 < i + 1
      BY <1>3, <3>1
    <3>3. link[d][1].type = "DATA"
      BY <1>3
    <3>4. link[d][1].hi <= link[d][i + 1].lo
      BY <1>1, <1>3, <3>2, <3>3 DEF DataPipe, Ordered
    <3> QED
      BY <1>3, <1>4, <3>2, <3>4
  <2>2. CASE wlPc[d] = "write" /\ x \in DataOf(held[d])
    <3>1. x = [lo |-> held[d].lo, hi |-> held[d].hi]
      BY <2>2 DEF DataOf
    <3>2. m <= held[d].lo
      BY <1>1, <2>2 DEF DataPipe
    <3> QED
      BY <1>2, <1>4, <1>8, <3>1, <3>2
  <2>3. CASE x \in Ranges(outQueue[d])
    <3>1. PICK i \in 1..Len(outQueue[d]) :
            outQueue[d][i].type = "DATA" /\ x = [lo |-> outQueue[d][i].lo, hi |-> outQueue[d][i].hi]
      BY <2>3, RangesElem
    <3>2. (IF wlPc[d] = "write" THEN held[d].hi ELSE m) <= outQueue[d][i].lo
      BY <1>1, <3>1 DEF DataPipe, Ordered
    <3>3. wlPc[d] = "write" => m <= held[d].lo /\ held[d].lo <= held[d].hi
      BY <1>1 DEF DataPipe
    <3> QED
      BY <1>2, <1>3, <1>4, <1>8, <3>1, <3>2, <3>3
  <2> QED
    BY <2>1, <2>2, <2>3 DEF Behind
<1>10. ASSUME ~PipeDeaf(Peer(d)) PROVE c.lo = buf[Peer(d)].hi
  <2>1. c \in PipeChan(d)
    BY <1>6
  <2>2. c.lo = buf[Peer(d)].hi \/ \E x \in PipeChan(d) : x.hi = c.lo
    BY <1>10, <2>1 DEF Direction!ChanInv, Direction!Gapless
  <2>3. ASSUME NEW x \in PipeChan(d), x.hi = c.lo PROVE FALSE
    <3>1. x.lo < x.hi
      BY <2>3 DEF Direction!ChanInv, Direction!Disjoint
    <3>2. CASE x = c
      BY <1>4, <1>7, <2>3, <3>2
    <3>3. CASE x \in Behind(d)
      <4>1. x.lo \in Int /\ c.hi <= x.lo
        BY <1>9, <3>3
      <4> QED
        BY <1>4, <1>7, <2>3, <3>1, <4>1
    <3> QED
      BY <1>6, <2>3, <3>2, <3>3
  <2> QED
    BY <2>2, <2>3
<1> QED
  BY <1>4, <1>6, <1>7, <1>9, <1>10

\* DATA that is not refused extends the buffer to the end of its chunk.
LEMMA DataArrives ==
  ASSUME TypeOK, FlowInv, FlowInv', NEW d \in Ends, Direction(d)!ChanInv,
         HandleData(Peer(d)), ~PipeDeaf(Peer(d))
  PROVE  buf'[Peer(d)] = [lo |-> buf[Peer(d)].lo, hi |-> HeadRange(d).hi]
<1> DEFINE e == Peer(d)
<1>1. e \in Ends /\ Peer(e) = d
  BY PeerInEnds
<1>2. link[d] # <<>> /\ Head(link[d]).type = "DATA"
  BY <1>1 DEF HandleData, Dispatching, Incoming
<1>3. connErr'[e] = "none"
  BY <1>1 DEF FlowInv, FlowAt
<1>4. buf' = [buf EXCEPT ![e] = [lo |-> @.lo, hi |-> @.hi + (Head(link[d]).hi - Head(link[d]).lo)]]
  BY <1>1, <1>3 DEF HandleData, PipeDeaf, Incoming, FailConn, TypeOK, ConnType
<1>5. buf \in [Ends -> Positions] /\ buf[e].hi \in Int
  BY <1>1, Ints DEF TypeOK, StreamType
<1>6. /\ HeadRange(d).lo = Head(link[d]).lo /\ HeadRange(d).hi = Head(link[d]).hi
      /\ HeadRange(d).lo \in Int /\ HeadRange(d).hi \in Int /\ HeadRange(d).lo = buf[e].hi
  BY <1>2, HeadOldest DEF HeadRange
<1> QED
  BY <1>1, <1>4, <1>5, <1>6

\* Bytes that were queued stay counted...
LEMMA WroteGrows ==
  ASSUME TypeOK, PipeInv, [Next]_vars, NEW d \in Ends
  PROVE  wrote'[d] \in Int /\ wrote[d] <= wrote'[d]
<1> DEFINE G == wrote'[d] \in Int /\ wrote[d] <= wrote'[d]
<1> SUFFICES G
  OBVIOUS
<1>1. wrote \in [Ends -> Int] /\ wrHold \in [Ends -> Int]
  BY DEF TypeOK, WriterType
<1>2. ASSUME NEW e \in Ends, QueueChunk(e) PROVE G
  <2>1. wrHold[e] > 0
    BY <1>2 DEF QueueChunk, PipeInv, PipeAt, WaitedFor
  <2> QED
    BY <1>1, <1>2, <2>1 DEF QueueChunk
<1>3. ASSUME NEW e \in Ends,
          (\E p \in ReadSizes : ReadData(e, p)) \/ ReadEmpty(e) \/ ReadConnClosed(e) \/
            CreditConsumed(e) \/ SendWindowFrame(e)
     PROVE  G
  <2>1. UNCHANGED <<wrote>>
    BY <1>3 DEF ReadData, ReadEmpty, ReadConnClosed, CreditConsumed, SendWindowFrame,
       SendControlFrame, streamVars, connVars, writerVars, readerVars, closerVars, loopVars
  <2> QED
    BY <1>1, <2>1
<1>4. ASSUME NEW e \in Ends,
          (\E n \in WriteSizes : Write(e, n)) \/ ReserveSendCredit(e) \/ ChunkDone(e) \/
            WriteConnClosed(e) \/ CancelWrite(e)
     PROVE  G
  <2>1. UNCHANGED <<wrote>>
    BY <1>4 DEF Write, ReserveSendCredit, WriteReturns, ChunkDone, WriteConnClosed, CancelWrite,
       streamVars, connVars, writerVars, readerVars, closerVars, loopVars
  <2> QED
    BY <1>1, <2>1
<1>5. ASSUME NEW e \in Ends,
          CloseWrite(e) \/ CloseCloseWrite(e) \/ Reset(e) \/ CloseReset(e) \/
            RetireForClose(e) \/ RetireForReset(e) \/ SendClose(e) \/ SendReset(e) \/
            Close(e) \/ CloseEOF(e)
     PROVE  G
  <2>1. UNCHANGED <<wrote>>
    BY <1>5 DEF CloseWrite, CloseWriteLocked, Sendable, NotifyLocked, CloseCloseWrite, Reset,
       ResetLocked, CloseReset, RetireForClose, RetireForReset, SendClose, SendReset, Close,
       CloseEOF, streamVars, connVars, writerVars, readerVars, closerVars, loopVars
  <2> QED
    BY <1>1, <2>1
<1>6. ASSUME NEW e \in Ends,
          WriteControl(e) \/ NextChunk(e) \/ WriteData(e) \/ WriterStops(e)
     PROVE  G
  <2>1. UNCHANGED <<wrote>>
    BY <1>6 DEF WriteControl, NextChunk, CompleteChunk, WriteData, WriterStops, streamVars,
       connVars, writerVars, readerVars, closerVars, loopVars
  <2> QED
    BY <1>1, <2>1
<1>7. ASSUME NEW e \in Ends,
          LookupLiveStream(e) \/ HandleData(e) \/ HandleWindow(e) \/ HandleClose(e) \/
            HandleReset(e) \/ ResetStream(e) \/ SendResetStream(e) \/ ReaderStops(e) \/
            ConnEnds(e)
     PROVE  G
  <2>1. UNCHANGED <<wrote>>
    BY <1>7 DEF LookupLiveStream, Consume, HandleData, NotifyLocked, FailConn, HandleWindow,
       HandleClose, HandleReset, ApplyReset, ResetStream, SendResetStream, ReaderStops, ConnEnds,
       streamVars, connVars, writerVars, readerVars, closerVars, loopVars
  <2> QED
    BY <1>1, <2>1
<1>8. CASE UNCHANGED vars
  <2>1. UNCHANGED <<wrote>>
    BY <1>8 DEF vars, streamVars, connVars, writerVars, readerVars, closerVars, loopVars
  <2> QED
    BY <1>1, <2>1
<1> QED
  BY <1>2, <1>3, <1>4, <1>5, <1>6, <1>7, <1>8 DEF Next, AppReads, WriteSteps, CloseSteps,
     WriterLoop, ReaderLoop, AppCalls

\* ...and so do those that arrived.
LEMMA BufGrows ==
  ASSUME TypeOK, FlowInv, [Next]_vars, NEW d \in Ends
  PROVE  buf'[d].hi \in Int /\ buf[d].hi <= buf'[d].hi
<1> DEFINE G == buf'[d].hi \in Int /\ buf[d].hi <= buf'[d].hi
<1> SUFFICES G
  OBVIOUS
<1>1. buf \in [Ends -> Positions] /\ buf[d].lo \in Int /\ buf[d].hi \in Int
  BY Ints DEF TypeOK, StreamType
<1>2. ASSUME NEW e \in Ends, Reset(e) PROVE G
  BY <1>1, <1>2 DEF Reset, ResetLocked, NotifyLocked, streamVars
<1>3. ASSUME NEW e \in Ends, CloseReset(e) PROVE G
  BY <1>1, <1>3 DEF CloseReset, ResetLocked, NotifyLocked, streamVars
<1>4. ASSUME NEW e \in Ends, HandleReset(e) PROVE G
  BY <1>1, <1>4 DEF HandleReset, Consume, ApplyReset, NotifyLocked, streamVars
<1>5. ASSUME NEW e \in Ends, ResetStream(e) PROVE G
  BY <1>1, <1>5 DEF ResetStream, ApplyReset, NotifyLocked, streamVars
<1>6. ASSUME NEW e \in Ends, NEW p \in ReadSizes, ReadData(e, p) PROVE G
  BY <1>1, <1>6 DEF ReadData
<1>7. ASSUME NEW e \in Ends, HandleData(e) PROVE G
  <2>1. /\ Head(Incoming(e)).lo \in Int /\ Head(Incoming(e)).hi \in Int
        /\ Head(Incoming(e)).lo <= Head(Incoming(e)).hi
    BY <1>7, HeadData DEF HandleData, Dispatching
  <2> QED
    BY <1>1, <1>7, <2>1 DEF HandleData
<1>8. ASSUME NEW e \in Ends,
          ReadEmpty(e) \/ ReadConnClosed(e) \/ CreditConsumed(e) \/ SendWindowFrame(e)
     PROVE  G
  <2>1. UNCHANGED <<buf>>
    BY <1>8 DEF ReadEmpty, ReadConnClosed, CreditConsumed, SendWindowFrame, SendControlFrame,
       streamVars, connVars, writerVars, readerVars, closerVars, loopVars
  <2> QED
    BY <1>1, <2>1
<1>9. ASSUME NEW e \in Ends,
          (\E n \in WriteSizes : Write(e, n)) \/ ReserveSendCredit(e) \/ QueueChunk(e) \/
            ChunkDone(e) \/ WriteConnClosed(e) \/ CancelWrite(e)
     PROVE  G
  <2>1. UNCHANGED <<buf>>
    BY <1>9 DEF Write, ReserveSendCredit, WriteReturns, QueueChunk, ChunkDone, WriteConnClosed,
       CancelWrite, streamVars, connVars, writerVars, readerVars, closerVars, loopVars
  <2> QED
    BY <1>1, <2>1
<1>10. ASSUME NEW e \in Ends,
          CloseWrite(e) \/ CloseCloseWrite(e) \/ RetireForClose(e) \/ RetireForReset(e) \/
            SendClose(e) \/ SendReset(e) \/ Close(e) \/ CloseEOF(e)
     PROVE  G
  <2>1. UNCHANGED <<buf>>
    BY <1>10 DEF CloseWrite, CloseWriteLocked, Sendable, NotifyLocked, CloseCloseWrite,
       RetireForClose, RetireForReset, SendClose, SendReset, Close, CloseEOF, streamVars,
       connVars, writerVars, readerVars, closerVars, loopVars
  <2> QED
    BY <1>1, <2>1
<1>11. ASSUME NEW e \in Ends,
          WriteControl(e) \/ NextChunk(e) \/ WriteData(e) \/ WriterStops(e)
     PROVE  G
  <2>1. UNCHANGED <<buf>>
    BY <1>11 DEF WriteControl, NextChunk, CompleteChunk, WriteData, WriterStops, streamVars,
       connVars, writerVars, readerVars, closerVars, loopVars
  <2> QED
    BY <1>1, <2>1
<1>12. ASSUME NEW e \in Ends,
          LookupLiveStream(e) \/ HandleWindow(e) \/ HandleClose(e) \/ SendResetStream(e)
            \/ ReaderStops(e) \/ ConnEnds(e)
     PROVE  G
  <2>1. UNCHANGED <<buf>>
    BY <1>12 DEF LookupLiveStream, Consume, HandleWindow, NotifyLocked, FailConn, HandleClose,
       SendResetStream, ReaderStops, ConnEnds, streamVars, connVars, writerVars, readerVars,
       closerVars, loopVars
  <2> QED
    BY <1>1, <2>1
<1>13. CASE UNCHANGED vars
  <2>1. UNCHANGED <<buf>>
    BY <1>13 DEF vars, streamVars, connVars, writerVars, readerVars, closerVars, loopVars
  <2> QED
    BY <1>1, <2>1
<1> QED
  BY <1>2, <1>3, <1>4, <1>5, <1>6, <1>7, <1>8, <1>9, <1>10, <1>11, <1>12, <1>13 DEF Next,
     AppReads, WriteSteps, CloseSteps, WriterLoop, ReaderLoop, AppCalls

\* Only a chunk that is put on the link raises what its Write was, or is about to be, told.
LEMMA AckedStep ==
  ASSUME TypeOK, FlowInv, PipeInv, [Next]_vars, NEW d \in Ends, Direction(d)!ChanInv
  PROVE  /\ Acked(d) \in Int /\ Acked(d)' \in Int
         /\ Acked(d)' <= Acked(d) \/ (WriteData(d) /\ Acked(d)' <= held[d].hi)
<1> DEFINE A(ok, pc, chunk, hold) == ok + (IF pc = "await" /\ chunk = 0 THEN hold ELSE 0)
           old == A(okBytes[d], wrPc[d], wrChunk[d], wrHold[d])
           new == A(okBytes'[d], wrPc'[d], wrChunk'[d], wrHold'[d])
           G == /\ old \in Int /\ new \in Int
                /\ new <= old \/ (WriteData(d) /\ new <= held[d].hi)
<1> SUFFICES G
  BY DEF Acked
<1>1. /\ wrPc \in [Ends -> {"idle", "reserve", "queue", "await"}] /\ wrWant \in [Ends -> Int]
      /\ wrHold \in [Ends -> Int] /\ wrChunk \in [Ends -> Int] /\ okBytes \in [Ends -> Int]
      /\ wrote \in [Ends -> Int] /\ sendWindow \in [Ends -> Int] /\ held[d].hi \in Int
  BY Ints DEF TypeOK, StreamType, WriterType
<1>2. WriteStands(wrPc[d], wrWant[d], wrHold[d], wrChunk[d], okBytes[d])
  BY DEF PipeInv, PipeAt, WaitedFor, WriteStands
<1>3. /\ outQueue[d] # <<>> => PopChunk(d).hi # 0
      /\ wlPc[d] = "write" => held[d].hi # 0
  BY ChunkPositive, Ints
<1> USE DEF WriteStands
<1>4. ASSUME NEW e \in Ends, NEW n \in WriteSizes, Write(e, n) PROVE G
  BY <1>1, <1>2, <1>4 DEF Write
<1>5. ASSUME NEW e \in Ends, ReserveSendCredit(e) PROVE G
  <2>1. \/ WriteReturns(e)
        \/ UNCHANGED <<wrPc, wrHold, wrChunk>>
        \/ wrHold' = [wrHold EXCEPT ![e] = ChunkLen(e)] /\ wrPc' = [wrPc EXCEPT ![e] = "queue"] /\ UNCHANGED wrChunk
    BY <1>5 DEF ReserveSendCredit
  <2>2. okBytes' = okBytes /\ wrPc[e] = "reserve"
    BY <1>5 DEF ReserveSendCredit
  <2> QED
    BY <1>1, <1>2, <2>1, <2>2 DEF WriteReturns
<1>6. ASSUME NEW e \in Ends, QueueChunk(e) PROVE G
  <2>1. Acked(d) <= wrote[d]
    BY DEF PipeInv, PipeAt, AckedSent
  <2>2. /\ wrChunk' = [wrChunk EXCEPT ![e] = wrote[e] + wrHold[e]] /\ wrPc' = [wrPc EXCEPT ![e] = "await"]
        /\ UNCHANGED <<wrHold, okBytes>> /\ wrPc[e] = "queue"
    BY <1>6 DEF QueueChunk
  <2>3. buf[Peer(d)].hi >= 0 /\ buf[Peer(d)].hi \in Int /\ buf[Peer(d)].hi <= wrote[d]
    BY PeerInEnds, Ints, Bounds DEF Direction!ChanInv
  <2>4. e = d => wrote[d] + wrHold[d] # 0
    BY <1>1, <1>2, <2>2, <2>3
  <2> QED
    BY <1>1, <1>2, <2>2, <2>4
<1>7. ASSUME NEW e \in Ends, ChunkDone(e) PROVE G
  <2>1. wrPc[e] = "await" /\ wrChunk[e] = 0
    BY <1>7 DEF ChunkDone
  <2>2. CASE wrHold[e] = 0
    BY <1>1, <1>2, <1>7, <2>1, <2>2 DEF ChunkDone, WriteReturns
  <2>3. CASE wrHold[e] # 0
    BY <1>1, <1>2, <1>7, <2>1, <2>3 DEF ChunkDone
  <2> QED
    BY <2>2, <2>3
<1>8. ASSUME NEW e \in Ends, WriteConnClosed(e) PROVE G
  BY <1>1, <1>2, <1>8 DEF WriteConnClosed, WriteReturns
<1>9. ASSUME NEW e \in Ends, CancelWrite(e) PROVE G
  BY <1>1, <1>2, <1>9 DEF CancelWrite, WriteReturns
<1>10. ASSUME NEW e \in Ends, NextChunk(e) PROVE G
  <2>1. UNCHANGED <<wrHold, wrChunk>> \/ (outQueue[e] # <<>> /\ CompleteChunk(e, PopChunk(e), FALSE))
    BY <1>10 DEF NextChunk
  <2>2. UNCHANGED <<wrPc, okBytes>>
    BY <1>10 DEF NextChunk
  <2>3. CASE UNCHANGED <<wrHold, wrChunk>>
    BY <1>1, <2>2, <2>3
  <2>4. CASE outQueue[e] # <<>> /\ CompleteChunk(e, PopChunk(e), FALSE)
    <3>1. \/ UNCHANGED <<wrHold, wrChunk>>
          \/ /\ wrChunk[e] = PopChunk(e).hi /\ wrChunk' = [wrChunk EXCEPT ![e] = 0]
             /\ e # d => wrHold'[d] = wrHold[d]
             /\ e = d => wrHold'[d] = 0
      BY <2>4, CompleteSteps
    <3>2. e = d /\ wrChunk[d] = PopChunk(e).hi => wrChunk[d] # 0
      BY <1>3, <2>4
    <3>3. CASE e # d
      BY <1>1, <2>2, <3>1, <3>3
    <3>4. CASE e = d
      BY <1>1, <1>2, <2>2, <3>1, <3>2, <3>4
    <3> QED
      BY <3>3, <3>4
  <2> QED
    BY <2>1, <2>3, <2>4
<1>11. ASSUME NEW e \in Ends, WriteData(e) PROVE G
  <2>1. UNCHANGED <<wrHold, wrChunk>> \/ (wlPc[e] = "write" /\ CompleteChunk(e, held[e], TRUE))
    BY <1>11 DEF WriteData
  <2>2. UNCHANGED <<wrPc, okBytes>>
    BY <1>11 DEF WriteData
  <2>3. CASE UNCHANGED <<wrHold, wrChunk>>
    BY <1>1, <2>2, <2>3
  <2>4. CASE wlPc[e] = "write" /\ CompleteChunk(e, held[e], TRUE)
    <3>1. \/ UNCHANGED <<wrHold, wrChunk>>
          \/ /\ wrChunk[e] = held[e].hi /\ wrChunk' = [wrChunk EXCEPT ![e] = 0]
             /\ e # d => wrHold'[d] = wrHold[d]
             /\ e = d => wrHold'[d] = wrHold[d]
      BY <2>4, CompleteSteps
    <3>2. e = d /\ wrChunk[d] = held[e].hi => wrChunk[d] # 0
      BY <1>3, <2>4
    <3>3. CASE e # d
      BY <1>1, <2>2, <3>1, <3>3
    <3>4. CASE e = d
      BY <1>1, <1>2, <1>11, <2>2, <3>1, <3>2, <3>4
    <3> QED
      BY <3>3, <3>4
  <2> QED
    BY <2>1, <2>3, <2>4
<1>12. ASSUME NEW e \in Ends, WriterStops(e) PROVE G
  <2>1. UNCHANGED <<wrHold, wrChunk>> \/ (wlPc[e] = "write" /\ CompleteChunk(e, held[e], FALSE))
    BY <1>12 DEF WriterStops
  <2>2. UNCHANGED <<wrPc, okBytes>>
    BY <1>12 DEF WriterStops
  <2>3. CASE UNCHANGED <<wrHold, wrChunk>>
    BY <1>1, <2>2, <2>3
  <2>4. CASE wlPc[e] = "write" /\ CompleteChunk(e, held[e], FALSE)
    <3>1. \/ UNCHANGED <<wrHold, wrChunk>>
          \/ /\ wrChunk[e] = held[e].hi /\ wrChunk' = [wrChunk EXCEPT ![e] = 0]
             /\ e # d => wrHold'[d] = wrHold[d]
             /\ e = d => wrHold'[d] = 0
      BY <2>4, CompleteSteps
    <3>2. e = d /\ wrChunk[d] = held[e].hi => wrChunk[d] # 0
      BY <1>3, <2>4
    <3>3. CASE e # d
      BY <1>1, <2>2, <3>1, <3>3
    <3>4. CASE e = d
      BY <1>1, <1>2, <2>2, <3>1, <3>2, <3>4
    <3> QED
      BY <3>3, <3>4
  <2> QED
    BY <2>1, <2>3, <2>4
<1>13. ASSUME NEW e \in Ends,
          (\E p \in ReadSizes : ReadData(e, p)) \/ ReadEmpty(e) \/ ReadConnClosed(e) \/
            CreditConsumed(e) \/ SendWindowFrame(e)
     PROVE  G
  <2>1. UNCHANGED <<okBytes, wrPc, wrChunk, wrHold>>
    BY <1>13 DEF ReadData, ReadEmpty, ReadConnClosed, CreditConsumed, SendWindowFrame,
       SendControlFrame, streamVars, connVars, writerVars, readerVars, closerVars, loopVars
  <2> QED
    BY <1>1, <2>1
<1>14. ASSUME NEW e \in Ends,
          CloseWrite(e) \/ CloseCloseWrite(e) \/ Reset(e) \/ CloseReset(e) \/
            RetireForClose(e) \/ RetireForReset(e) \/ SendClose(e) \/ SendReset(e) \/
            Close(e) \/ CloseEOF(e)
     PROVE  G
  <2>1. UNCHANGED <<okBytes, wrPc, wrChunk, wrHold>>
    BY <1>14 DEF CloseWrite, CloseWriteLocked, Sendable, NotifyLocked, CloseCloseWrite, Reset,
       ResetLocked, CloseReset, RetireForClose, RetireForReset, SendClose, SendReset, Close,
       CloseEOF, streamVars, connVars, writerVars, readerVars, closerVars, loopVars
  <2> QED
    BY <1>1, <2>1
<1>15. ASSUME NEW e \in Ends,
          WriteControl(e)
     PROVE  G
  <2>1. UNCHANGED <<okBytes, wrPc, wrChunk, wrHold>>
    BY <1>15 DEF WriteControl, streamVars, connVars, writerVars, readerVars, closerVars, loopVars
  <2> QED
    BY <1>1, <2>1
<1>16. ASSUME NEW e \in Ends,
          LookupLiveStream(e) \/ HandleData(e) \/ HandleWindow(e) \/ HandleClose(e) \/
            HandleReset(e) \/ ResetStream(e) \/ SendResetStream(e) \/ ReaderStops(e) \/
            ConnEnds(e)
     PROVE  G
  <2>1. UNCHANGED <<okBytes, wrPc, wrChunk, wrHold>>
    BY <1>16 DEF LookupLiveStream, Consume, HandleData, NotifyLocked, FailConn, HandleWindow,
       HandleClose, HandleReset, ApplyReset, ResetStream, SendResetStream, ReaderStops, ConnEnds,
       streamVars, connVars, writerVars, readerVars, closerVars, loopVars
  <2> QED
    BY <1>1, <2>1
<1>17. CASE UNCHANGED vars
  <2>1. UNCHANGED <<okBytes, wrPc, wrChunk, wrHold>>
    BY <1>17 DEF vars, streamVars, connVars, writerVars, readerVars, closerVars, loopVars
  <2> QED
    BY <1>1, <2>1
<1> QED
  BY <1>4, <1>5, <1>6, <1>7, <1>8, <1>9, <1>10, <1>11, <1>12, <1>13, <1>14, <1>15, <1>16, <1>17
     DEF Next, AppReads, WriteSteps, CloseSteps, WriterLoop, ReaderLoop, AppCalls

\* Nothing that was reported as written gets lost between the link and the peer's buffer.
LEMMA AckedSentStep ==
  ASSUME TypeOK, FlowInv, FlowInv', FinInv, PipeInv, [Next]_vars, NEW d \in Ends, Direction(d)!ChanInv
  PROVE  AckedSent(d)'
<1> DEFINE p == Peer(d)
           OnLink(n, q) == \E i \in 1..Len(q) : q[i].type = "DATA" /\ n <= q[i].hi
<1>1. p \in Ends /\ Peer(p) = d
  BY PeerInEnds
<1>2. /\ Acked(d) \in Int /\ Acked(d)' \in Int
      /\ Acked(d)' <= Acked(d) \/ (WriteData(d) /\ Acked(d)' <= held[d].hi)
  BY AckedStep
<1>3. /\ wrote[d] \in Int /\ wrote'[d] \in Int /\ wrote[d] <= wrote'[d]
      /\ buf[p].hi \in Int /\ buf'[p].hi \in Int /\ buf[p].hi <= buf'[p].hi
      /\ held[d] \in Frame /\ held[d].hi \in Int /\ held[d].type = "DATA"
      /\ link[d] \in Seq(Frame) /\ controlQueue[d] \in Seq(Frame)
  BY <1>1, Ints, WroteGrows, BufGrows DEF FlowInv, FlowAt, ChunksAreData
<1>4. /\ Acked(d) <= wrote[d]
      /\ ~PipeDeaf(p) => Acked(d) <= buf[p].hi \/ OnLink(Acked(d), link[d])
      /\ remoteClosed[p] => Acked(d) <= buf[p].hi
  BY DEF PipeInv, PipeAt, AckedSent
<1>5. WriteData(d) => wlPc[d] = "write" /\ held[d].hi <= wrote[d]
                      /\ link'[d] = Append(link[d], held[d])
  BY ChunkPositive DEF WriteData, TypeOK, ConnType
<1>6. Acked(d)' <= wrote'[d]
  BY <1>2, <1>3, <1>4, <1>5
<1>7. ASSUME NEW q \in Seq(Frame), NEW f \in Frame, NEW n \in Int
      PROVE  /\ OnLink(n, q) => OnLink(n, Append(q, f))
             /\ f.type = "DATA" /\ n <= f.hi => OnLink(n, Append(q, f))
  <2>1. ASSUME OnLink(n, q) PROVE OnLink(n, Append(q, f))
    BY <2>1, AppendElems
  <2>2. Len(q) + 1 \in 1..Len(Append(q, f)) /\ Append(q, f)[Len(q) + 1] = f
    OBVIOUS
  <2> QED
    BY <2>1, <2>2
<1>8. ASSUME NEW q \in Seq(Frame), q # <<>>, NEW n \in Int, OnLink(n, q)
      PROVE  OnLink(n, Tail(q)) \/ (Head(q).type = "DATA" /\ n <= Head(q).hi)
  BY <1>8, TailElems
<1>9. ASSUME NEW q \in Seq(Frame), NEW n \in Int, NEW k \in Int, n <= k, OnLink(k, q)
      PROVE  OnLink(n, q)
  <2>1. PICK i \in 1..Len(q) : q[i].type = "DATA" /\ k <= q[i].hi
    BY <1>9
  <2>2. q[i] \in Frame /\ q[i].hi \in Int
    BY FrameType
  <2> QED
    BY <1>9, <2>1, <2>2
<1>10. link'[d] \in Seq(Frame)
  BY TypeStep DEF TypeOK, ConnType
<1> HIDE DEF OnLink
<1>11. ASSUME ~PipeDeaf(p)' PROVE Acked(d)' <= buf'[p].hi \/ OnLink(Acked(d)', link'[d])
  <2>1. ~PipeDeaf(p)
    BY <1>1, <1>11, SideSettles
  <2>2. CASE WriteData(d) /\ Acked(d)' <= held[d].hi
    BY <1>2, <1>3, <1>5, <1>7, <2>2
  <2>3. CASE Acked(d)' <= Acked(d) /\ Acked(d) <= buf[p].hi
    BY <1>2, <1>3, <2>3
  <2>4. CASE Acked(d)' <= Acked(d) /\ OnLink(Acked(d), link[d])
    <3>1. CASE link'[d] = link[d] \/ (wlPc[d] = "write" /\ link'[d] = Append(link[d], held[d]))
      BY <1>2, <1>3, <1>7, <1>9, <1>10, <2>4, <3>1
    <3>2. CASE controlQueue[d] # <<>> /\ link'[d] = Append(link[d], Head(controlQueue[d]))
      <4>1. Head(controlQueue[d]) \in Frame
        BY <1>3, <3>2
      <4> QED
        BY <1>2, <1>3, <1>7, <1>9, <1>10, <2>4, <3>2, <4>1
    <3>3. CASE /\ link[d] # <<>> /\ link'[d] = Tail(link[d])
               /\ Head(link[d]).type = "DATA" => ~live[p] \/ HandleData(p)
      <4>1. CASE OnLink(Acked(d), Tail(link[d]))
        BY <1>2, <1>9, <1>10, <2>4, <3>3, <4>1
      <4>2. CASE Head(link[d]).type = "DATA" /\ Acked(d) <= Head(link[d]).hi
        <5>1. ~live[p] => state[p] = "closed"
          BY <1>1, FinParts DEF FinInv
        <5>2. HandleData(p)
          BY <2>1, <3>3, <4>2, <5>1 DEF PipeDeaf
        <5>3. buf'[p] = [lo |-> buf[p].lo, hi |-> HeadRange(d).hi]
          BY <2>1, <5>2, DataArrives
        <5>4. buf'[p].hi = Head(link[d]).hi
          BY <5>3 DEF HeadRange
        <5> QED
          BY <1>2, <1>3, <2>4, <4>2, <5>4
      <4> QED
        BY <1>2, <1>3, <1>8, <2>4, <3>3, <4>1, <4>2
    <3> QED
      BY <3>1, <3>2, <3>3, LinkSteps
  <2> QED
    BY <1>2, <1>4, <2>1, <2>2, <2>3, <2>4
<1>12. ASSUME remoteClosed'[p] PROVE Acked(d)' <= buf'[p].hi
  <2>1. CASE remoteClosed[p]
    <3>1. wlPc[d] # "write"
      BY <1>1, <2>1 DEF PipeInv, PipeAt, RemoteDone
    <3> QED
      BY <1>2, <1>3, <1>4, <1>5, <2>1, <3>1
  <2>2. CASE HandleClose(p) /\ ~PipeDeaf(p)
    <3>1. link[d] # <<>> /\ Head(link[d]).type = "CLOSE" /\ IsFin(Head(link[d]))
      BY <1>1, <2>2 DEF HandleClose, Dispatching, Incoming, IsFin
    <3>2. FinSent(link[d], SendDone(d) /\ wlPc[d] # "write")
      BY FinParts DEF FinInv
    <3>3. wlPc[d] # "write" /\ NoData(Tail(link[d]))
      BY <1>3, <3>1, <3>2, FinSentTail DEF NoData
    <3>4. ~OnLink(Acked(d), Tail(link[d]))
      BY <3>3 DEF OnLink, NoData
    <3>5. Acked(d) <= buf[p].hi
      BY <1>2, <1>3, <1>4, <1>8, <2>2, <3>1, <3>4
    <3> QED
      BY <1>2, <1>3, <1>5, <3>3, <3>5
  <2> QED
    BY <1>1, <1>12, <2>1, <2>2, RemoteCloses
<1> QED
  BY <1>6, <1>11, <1>12 DEF AckedSent, OnLink
-----------------------------------------------------------------------------
(* The steps of a pipe that a stream takes *)

\* A step of end e.
StepOf(e) ==
  AppReads(e) \/ WriteSteps(e) \/ CloseSteps(e) \/ WriterLoop(e) \/ ReaderLoop(e) \/ AppCalls(e) \/ ConnEnds(e)

\* It leaves alone what the other end has but for its link, which e reads from.
LEMMA OthersKeep ==
  ASSUME TypeOK, NEW e \in Ends, StepOf(e), NEW x \in Ends, x # e
  PROVE  UNCHANGED <<state[x], buf[x], outQueue[x], wlPc[x], held[x], okBytes[x], wrote[x], readResult[x]>>
<1> DEFINE G == UNCHANGED <<state[x], buf[x], outQueue[x], wlPc[x], held[x], okBytes[x], wrote[x], readResult[x]>>
<1> SUFFICES G
  OBVIOUS
<1>1. /\ state \in [Ends -> States] /\ buf \in [Ends -> Positions] /\ outQueue \in [Ends -> Seq(Frame)]
      /\ wlPc \in [Ends -> {"turn", "write", "stopped"}] /\ held \in [Ends -> Frame]
      /\ okBytes \in [Ends -> Int] /\ wrote \in [Ends -> Int]
      /\ readResult \in [Ends -> Codes \cup {"eof", "conn"}]
  BY DEF TypeOK, StreamType, LoopType, WriterType, ReaderType
<1>2. CASE (\E p \in ReadSizes : ReadData(e, p))
  BY <1>1, <1>2 DEF ReadData, streamVars, connVars, writerVars, readerVars, closerVars, loopVars
<1>3. CASE ReadEmpty(e)
  BY <1>1, <1>3 DEF ReadEmpty, streamVars, connVars, writerVars, readerVars, closerVars, loopVars
<1>4. CASE ReadConnClosed(e)
  BY <1>1, <1>4 DEF ReadConnClosed, streamVars, connVars, writerVars, readerVars, closerVars,
     loopVars
<1>5. CASE CreditConsumed(e)
  BY <1>1, <1>5 DEF CreditConsumed, streamVars, connVars, writerVars, readerVars, closerVars,
     loopVars
<1>6. CASE SendWindowFrame(e)
  BY <1>1, <1>6 DEF SendWindowFrame, SendControlFrame, streamVars, connVars, writerVars,
     readerVars, closerVars, loopVars
<1>7. CASE (\E n \in WriteSizes : Write(e, n))
  BY <1>1, <1>7 DEF Write, streamVars, connVars, writerVars, readerVars, closerVars, loopVars
<1>8. CASE ReserveSendCredit(e)
  BY <1>1, <1>8 DEF ReserveSendCredit, WriteReturns, streamVars, connVars, writerVars, readerVars,
     closerVars, loopVars
<1>9. CASE QueueChunk(e)
  BY <1>1, <1>9 DEF QueueChunk, streamVars, connVars, writerVars, readerVars, closerVars, loopVars
<1>10. CASE ChunkDone(e)
  BY <1>1, <1>10 DEF ChunkDone, WriteReturns, streamVars, connVars, writerVars, readerVars,
     closerVars, loopVars
<1>11. CASE WriteConnClosed(e)
  BY <1>1, <1>11 DEF WriteConnClosed, WriteReturns, streamVars, connVars, writerVars, readerVars,
     closerVars, loopVars
<1>12. CASE CancelWrite(e)
  BY <1>1, <1>12 DEF CancelWrite, WriteReturns, streamVars, connVars, writerVars, readerVars,
     closerVars, loopVars
<1>13. CASE CloseWrite(e)
  BY <1>1, <1>13 DEF CloseWrite, CloseWriteLocked, Sendable, NotifyLocked, streamVars, connVars,
     writerVars, readerVars, closerVars, loopVars
<1>14. CASE CloseCloseWrite(e)
  BY <1>1, <1>14 DEF CloseCloseWrite, CloseWriteLocked, Sendable, NotifyLocked, streamVars,
     connVars, writerVars, readerVars, closerVars, loopVars
<1>15. CASE Reset(e)
  BY <1>1, <1>15 DEF Reset, ResetLocked, NotifyLocked, streamVars, connVars, writerVars,
     readerVars, closerVars, loopVars
<1>16. CASE CloseReset(e)
  BY <1>1, <1>16 DEF CloseReset, ResetLocked, NotifyLocked, streamVars, connVars, writerVars,
     readerVars, closerVars, loopVars
<1>17. CASE RetireForClose(e)
  BY <1>1, <1>17 DEF RetireForClose, streamVars, connVars, writerVars, readerVars, closerVars,
     loopVars
<1>18. CASE RetireForReset(e)
  BY <1>1, <1>18 DEF RetireForReset, streamVars, connVars, writerVars, readerVars, closerVars,
     loopVars
<1>19. CASE SendClose(e)
  BY <1>1, <1>19 DEF SendClose, streamVars, connVars, writerVars, readerVars, closerVars, loopVars
<1>20. CASE SendReset(e)
  BY <1>1, <1>20 DEF SendReset, streamVars, connVars, writerVars, readerVars, closerVars, loopVars
<1>21. CASE Close(e)
  BY <1>1, <1>21 DEF Close, streamVars, connVars, writerVars, readerVars, closerVars, loopVars
<1>22. CASE CloseEOF(e)
  BY <1>1, <1>22 DEF CloseEOF, NotifyLocked, streamVars, connVars, writerVars, readerVars,
     closerVars, loopVars
<1>23. CASE WriteControl(e)
  BY <1>1, <1>23 DEF WriteControl, streamVars, connVars, writerVars, readerVars, closerVars,
     loopVars
<1>24. CASE NextChunk(e)
  BY <1>1, <1>24 DEF NextChunk, CompleteChunk, streamVars, connVars, writerVars, readerVars,
     closerVars, loopVars
<1>25. CASE WriteData(e)
  BY <1>1, <1>25 DEF WriteData, CompleteChunk, streamVars, connVars, writerVars, readerVars,
     closerVars, loopVars
<1>26. CASE WriterStops(e)
  BY <1>1, <1>26 DEF WriterStops, CompleteChunk, streamVars, connVars, writerVars, readerVars,
     closerVars, loopVars
<1>27. CASE LookupLiveStream(e)
  BY <1>1, <1>27 DEF LookupLiveStream, Consume, streamVars, connVars, writerVars, readerVars,
     closerVars, loopVars
<1>28. CASE HandleData(e)
  BY <1>1, <1>28 DEF HandleData, Consume, NotifyLocked, FailConn, streamVars, connVars,
     writerVars, readerVars, closerVars, loopVars
<1>29. CASE HandleWindow(e)
  BY <1>1, <1>29 DEF HandleWindow, Consume, NotifyLocked, FailConn, streamVars, connVars,
     writerVars, readerVars, closerVars, loopVars
<1>30. CASE HandleClose(e)
  BY <1>1, <1>30 DEF HandleClose, Consume, NotifyLocked, streamVars, connVars, writerVars,
     readerVars, closerVars, loopVars
<1>31. CASE HandleReset(e)
  BY <1>1, <1>31 DEF HandleReset, Consume, ApplyReset, NotifyLocked, streamVars, connVars,
     writerVars, readerVars, closerVars, loopVars
<1>32. CASE ResetStream(e)
  BY <1>1, <1>32 DEF ResetStream, ApplyReset, NotifyLocked, streamVars, connVars, writerVars,
     readerVars, closerVars, loopVars
<1>33. CASE SendResetStream(e)
  BY <1>1, <1>33 DEF SendResetStream, streamVars, connVars, writerVars, readerVars, closerVars,
     loopVars
<1>34. CASE ReaderStops(e)
  BY <1>1, <1>34 DEF ReaderStops, streamVars, connVars, writerVars, readerVars, closerVars,
     loopVars
<1>35. CASE ConnEnds(e)
  BY <1>1, <1>35 DEF ConnEnds, streamVars, connVars, writerVars, readerVars, closerVars, loopVars
<1> QED
  BY <1>2, <1>3, <1>4, <1>5, <1>6, <1>7, <1>8, <1>9, <1>10, <1>11, <1>12, <1>13, <1>14, <1>15,
     <1>16, <1>17, <1>18, <1>19, <1>20, <1>21, <1>22, <1>23, <1>24, <1>25, <1>26, <1>27, <1>28,
     <1>29, <1>30, <1>31, <1>32, <1>33, <1>34, <1>35 DEF StepOf, AppReads, WriteSteps, CloseSteps,
     WriterLoop, ReaderLoop, AppCalls

\* A direction of the stream, with the sender's part of it left alone, and with the receiver's.
SenderKeeps(d) == UNCHANGED <<wrote[d], PipeChan(d), PipeShut(d), okBytes[d]>>
ReceiverKeeps(d) == UNCHANGED <<buf[Peer(d)], PipeDeaf(Peer(d)), PipeEnded(Peer(d))>>

\* What is in an end's pipe after a step.
LEMMA ChanNext ==
  ASSUME NEW d
  PROVE  PipeChan(d)' = Ranges(link'[d])
                          \cup (IF wlPc'[d] = "write" THEN DataOf(held'[d]) ELSE {})
                          \cup (IF PipeShut(d)' THEN {} ELSE Ranges(outQueue'[d]))
  BY DEF PipeChan, Ranges, DataOf

\* What leaves alone the state behind the sender's part.
LEMMA SenderUntouched ==
  ASSUME NEW d, UNCHANGED <<state[d], wrote[d], link[d], wlPc[d], held[d], outQueue[d], okBytes[d]>>
  PROVE  SenderKeeps(d)
<1>1. PipeShut(d)' = PipeShut(d)
  BY DEF PipeShut, SendDone
<1>2. PipeChan(d)' = PipeChan(d)
  BY <1>1, ChanNext DEF PipeChan
<1> QED
  BY <1>1, <1>2 DEF SenderKeeps

\* What leaves alone the state behind the receiver's part.
LEMMA ReceiverUntouched ==
  ASSUME NEW d, UNCHANGED <<state[Peer(d)], buf[Peer(d)], readResult[Peer(d)]>>
  PROVE  ReceiverKeeps(d)
  BY DEF ReceiverKeeps, PipeDeaf, PipeEnded

\* A step that leaves both parts alone is no step of the pipe.
LEMMA Stutters ==
  ASSUME NEW d, SenderKeeps(d), ReceiverKeeps(d)
  PROVE  UNCHANGED Direction(d)!vars
  BY DEF SenderKeeps, ReceiverKeeps, Direction!vars

\* The sender's end of the pipe is shut: what the writer loop did not take is lost, and what
\* it holds too if it stops.
LEMMA ShutSteps ==
  ASSUME TypeOK, FlowInv, NEW d \in Ends, Direction(d)!ChanInv, ReceiverKeeps(d), PipeShut(d)',
         UNCHANGED <<wrote[d], okBytes[d], link[d]>>,
         UNCHANGED <<wlPc[d], held[d]>> \/ wlPc'[d] = "stopped"
  PROVE  Direction(d)!Shut
<1>1. PICK m \in Int : DataPipe(d, m)
  BY DataPick DEF FlowInv, FlowAt
<1>2. /\ link[d] \in Seq(Frame) /\ outQueue[d] \in Seq(Frame) /\ wrote[d] \in Int
      /\ held[d].lo \in Int /\ held[d].hi \in Int /\ buf[Peer(d)].hi \in Int
      /\ \A i \in 1..Len(link[d]) : link[d][i].lo \in Int /\ link[d][i].hi \in Int
      /\ \A i \in 1..Len(outQueue[d]) : outQueue[d][i].lo \in Int /\ outQueue[d][i].hi \in Int
  BY Ints, PeerInEnds, FrameType
<1>3. buf[Peer(d)].hi >= 0 /\ PipeChan(d) \subseteq [lo : Int, hi : Int]
      /\ \A c \in PipeChan(d) : c.lo < c.hi /\ c.hi <= wrote[d]
  BY DEF Direction!ChanInv, Direction!Disjoint, Direction!Chunk
<1> DEFINE n == IF wlPc'[d] = "write" THEN held[d].hi ELSE m
<1>4. /\ buf[Peer(d)].hi <= m /\ (wlPc[d] = "write" => m <= held[d].lo /\ held[d].lo <= held[d].hi)
      /\ (IF wlPc[d] = "write" THEN held[d].hi ELSE m) <= wrote[d]
  BY <1>1 DEF DataPipe, Ordered
<1>5. n \in 0..wrote[d] /\ n \in Int /\ m <= n
  BY <1>2, <1>3, <1>4
<1>6. ASSUME NEW c PROVE c \in PipeChan(d)' <=> c \in PipeChan(d) /\ c.hi <= n
  <2>1. c \in PipeChan(d)' <=> c \in Ranges(link[d]) \/ (wlPc'[d] = "write" /\ c \in DataOf(held[d]))
    BY ChanNext
  <2>2. ASSUME c \in Ranges(link[d]) PROVE c.hi <= m /\ c.hi \in Int
    <3>1. PICK i \in 1..Len(link[d]) : link[d][i].type = "DATA" /\ c = [lo |-> link[d][i].lo, hi |-> link[d][i].hi]
      BY <2>2, RangesElem
    <3> QED
      BY <1>1, <1>2, <3>1 DEF DataPipe, Ordered
  <2>3. ASSUME wlPc[d] = "write", c \in DataOf(held[d]) PROVE c.lo >= m /\ c.hi = held[d].hi /\ c.lo \in Int
    <3>1. c = [lo |-> held[d].lo, hi |-> held[d].hi]
      BY <2>3 DEF DataOf
    <3> QED
      BY <1>2, <1>4, <2>3, <3>1
  <2>4. ASSUME c \in Ranges(outQueue[d])
        PROVE  c.lo \in Int /\ (IF wlPc[d] = "write" THEN held[d].hi ELSE m) <= c.lo
    <3>1. PICK i \in 1..Len(outQueue[d]) :
            outQueue[d][i].type = "DATA" /\ c = [lo |-> outQueue[d][i].lo, hi |-> outQueue[d][i].hi]
      BY <2>4, RangesElem
    <3> QED
      BY <1>1, <1>2, <3>1 DEF DataPipe, Ordered
  <2>5. ASSUME c \in PipeChan(d)' PROVE c \in PipeChan(d) /\ c.hi <= n
    <3>1. CASE c \in Ranges(link[d])
      BY <1>2, <1>5, <2>2, <3>1, ChanElem
    <3>2. CASE wlPc'[d] = "write" /\ c \in DataOf(held[d])
      BY <1>2, <2>3, <3>2, ChanElem
    <3> QED
      BY <2>1, <2>5, <3>1, <3>2
  <2>6. ASSUME c \in PipeChan(d), c.hi <= n PROVE c \in PipeChan(d)'
    <3>1. c.lo < c.hi /\ c.hi \in Int /\ c.lo \in Int
      BY <1>3, <2>6
    <3>2. CASE c \in Ranges(link[d])
      BY <2>1, <3>2
    <3>3. CASE wlPc[d] = "write" /\ c \in DataOf(held[d])
      BY <1>2, <2>1, <2>3, <2>6, <3>1, <3>3
    <3>4. CASE c \in Ranges(outQueue[d])
      BY <1>2, <1>4, <2>4, <2>6, <3>1, <3>4
    <3> QED
      BY <2>6, <3>2, <3>3, <3>4, ChanElem
  <2> QED
    BY <2>5, <2>6
<1>7. PipeChan(d)' = {c \in PipeChan(d) : c.hi <= n}
  BY <1>6
<1> HIDE DEF n
<1>8. PipeShut(d)' = TRUE
  BY DEF PipeShut
<1> QED
  BY <1>5, <1>7, <1>8 DEF Direction!Shut, ReceiverKeeps

\* The peer takes the frame at the head of the link: a chunk leaves the pipe...
LEMMA ArriveSteps ==
  ASSUME TypeOK, FlowInv, NEW d \in Ends, Direction(d)!ChanInv, link[d] # <<>>, link'[d] = Tail(link[d]),
         UNCHANGED <<state[d], wrote[d], wlPc[d], held[d], outQueue[d], okBytes[d]>>
  PROVE  /\ Head(link[d]).type = "DATA" =>
              Direction(d)!Arrives(HeadRange(d)) /\ HeadRange(d) \in PipeChan(d)
              /\ UNCHANGED <<wrote[d], PipeShut(d), okBytes[d]>>
         /\ Head(link[d]).type # "DATA" => SenderKeeps(d)
<1>1. PipeShut(d)' = PipeShut(d)
  BY DEF PipeShut, SendDone
<1>2. PipeChan(d)' = Behind(d)
  BY <1>1, ChanNext DEF Behind
<1>3. ASSUME Head(link[d]).type = "DATA"
      PROVE  Direction(d)!Arrives(HeadRange(d)) /\ HeadRange(d) \in PipeChan(d)
  <2>1. /\ HeadRange(d).lo \in Int /\ HeadRange(d).hi \in Int /\ HeadRange(d).lo < HeadRange(d).hi
        /\ PipeChan(d) = Behind(d) \cup {HeadRange(d)}
        /\ \A x \in Behind(d) : x.lo \in Int /\ HeadRange(d).hi <= x.lo
    BY <1>3, HeadOldest
  <2>2. HeadRange(d) \notin Behind(d)
    BY <2>1
  <2>3. \A x \in PipeChan(d) : HeadRange(d).lo <= x.lo
    BY <2>1
  <2>4. PipeChan(d)' = PipeChan(d) \ {HeadRange(d)}
    BY <1>2, <2>1, <2>2
  <2> QED
    BY <2>1, <2>3, <2>4 DEF Direction!Arrives
\* ...or nothing, if it is no DATA.
<1>4. ASSUME Head(link[d]).type # "DATA" PROVE PipeChan(d)' = PipeChan(d)
  <2>1. link[d] \in Seq(Frame) /\ DataOf(Head(link[d])) = {}
    BY <1>4, QueueTypes DEF DataOf
  <2>2. Ranges(link[d]) = Ranges(Tail(link[d]))
    BY <2>1, RangesTail
  <2> QED
    BY <1>2, <2>2 DEF Behind, PipeChan
<1> QED
  BY <1>1, <1>3, <1>4 DEF SenderKeeps

\* The receiver stops taking bytes, and may drop what it buffered.
LEMMA StopSteps ==
  ASSUME TypeOK, NEW d \in Ends, SenderKeeps(d), PipeDeaf(Peer(d))',
         UNCHANGED readResult[Peer(d)],
         buf'[Peer(d)] = buf[Peer(d)] \/ buf'[Peer(d)] = [lo |-> buf[Peer(d)].hi, hi |-> buf[Peer(d)].hi]
  PROVE  Direction(d)!Stop
<1>1. PipeEnded(Peer(d))' = PipeEnded(Peer(d))
  BY DEF PipeEnded
<1>2. PipeDeaf(Peer(d))' = TRUE
  BY DEF PipeDeaf
<1>3. buf[Peer(d)] \in [lo : Int, hi : Int]
  BY PeerInEnds DEF TypeOK, StreamType, Positions
<1>4. [buf[Peer(d)] EXCEPT !.lo = buf[Peer(d)].hi] = [lo |-> buf[Peer(d)].hi, hi |-> buf[Peer(d)].hi]
  BY <1>3
<1> QED
  BY <1>1, <1>2, <1>4 DEF Direction!Stop, SenderKeeps
-----------------------------------------------------------------------------
(* The sender *)

\* What an end's own steps, seen as the sender, do to a direction of the stream.
LEMMA SenderSimulates ==
  ASSUME TypeOK, FlowInv, PipeInv, NEW d \in Ends, Direction(d)!ChanInv, StepOf(d)
  PROVE  [Direction(d)!Next]_(Direction(d)!vars)
<1> DEFINE G == [Direction(d)!Next]_(Direction(d)!vars)
<1> SUFFICES G
  OBVIOUS
<1>1. /\ state \in [Ends -> States] /\ buf \in [Ends -> Positions] /\ outQueue \in [Ends -> Seq(Frame)]
      /\ wlPc \in [Ends -> {"turn", "write", "stopped"}] /\ held \in [Ends -> Frame]
      /\ link \in [Ends -> Seq(Frame)] /\ controlQueue \in [Ends -> Seq(Frame)]
      /\ okBytes \in [Ends -> Int] /\ wrote \in [Ends -> Int] /\ wrHold \in [Ends -> Int]
      /\ readResult \in [Ends -> Codes \cup {"eof", "conn"}]
  BY DEF TypeOK, StreamType, ConnType, LoopType, WriterType, ReaderType
<1>2. Peer(d) \in Ends /\ Peer(d) # d
  BY PeerInEnds
<1>3. ReceiverKeeps(d)
  BY <1>2, OthersKeep, ReceiverUntouched
<1>4. CASE QueueChunk(d)
  <2> DEFINE f == DataFrame(wrote[d], wrote[d] + wrHold[d])
  <2>1. /\ UNCHANGED <<state, link, wlPc, held, okBytes>> /\ wrHold[d] > 0
        /\ outQueue'[d] = Append(outQueue[d], f) /\ wrote'[d] = wrote[d] + wrHold[d]
    BY <1>1, <1>4 DEF QueueChunk, connVars, loopVars, PipeInv, PipeAt, WaitedFor
  <2>2. f \in Frame /\ DataOf(f) = {[lo |-> wrote[d], hi |-> wrote'[d]]}
    BY <1>1, <2>1, FrameType, FrameFields DEF DataOf
  <2>3. wrote'[d] > wrote[d]
    BY <1>1, <2>1
  <2> HIDE DEF f
  <2>4. PipeShut(d)' = PipeShut(d) /\ okBytes'[d] = okBytes[d]
    BY <2>1 DEF PipeShut, SendDone
  <2>5. Ranges(outQueue'[d]) = Ranges(outQueue[d]) \cup {[lo |-> wrote[d], hi |-> wrote'[d]]}
    BY <1>1, <2>1, <2>2, RangesAppend
  <2>6. PipeChan(d)' = IF PipeShut(d) THEN PipeChan(d)
                       ELSE PipeChan(d) \cup {[lo |-> wrote[d], hi |-> wrote'[d]]}
    BY <2>1, <2>4, <2>5, ChanNext DEF PipeChan
  <2> QED
    BY <1>3, <2>3, <2>4, <2>6 DEF Direction!Next, Direction!Write, ReceiverKeeps
<1>5. CASE ChunkDone(d)
  <2>1. UNCHANGED <<state, wrote, link, wlPc, held, outQueue>> /\ wrPc[d] = "await" /\ wrChunk[d] = 0
    BY <1>5 DEF ChunkDone, streamVars, connVars, loopVars
  <2>2. CASE wrHold[d] = 0
    BY <1>3, <1>5, <2>1, <2>2, SenderUntouched, Stutters DEF ChunkDone
  <2>3. CASE wrHold[d] # 0
    <3>1. okBytes'[d] = okBytes[d] + wrHold[d] /\ wrHold[d] > 0
      BY <1>1, <1>5, <2>1, <2>3 DEF ChunkDone, PipeInv, PipeAt, WaitedFor
    <3>2. Acked(d) = okBytes'[d]
      BY <2>1, <3>1 DEF Acked
    <3>3. okBytes'[d] > okBytes[d] /\ okBytes'[d] <= wrote[d]
      BY <1>1, <3>1, <3>2 DEF PipeInv, PipeAt, AckedSent
    <3>4. PipeEnded(Peer(d)) = "eof" => okBytes'[d] <= buf[Peer(d)].lo
      <4>1. SUFFICES ASSUME readResult[Peer(d)] \in {"eof", "EOF"} PROVE okBytes'[d] <= buf[Peer(d)].lo
        BY <1>1, <1>2 DEF PipeEnded, Codes
      <4>2. remoteClosed[Peer(d)] /\ buf[Peer(d)].lo = buf[Peer(d)].hi
        BY <1>2, <4>1 DEF PipeInv, PipeAt, ReadsEnd
      <4> QED
        BY <3>2, <4>2 DEF PipeInv, PipeAt, AckedSent
    <3>5. PipeShut(d)' = PipeShut(d)
      BY <2>1 DEF PipeShut, SendDone
    <3>6. PipeChan(d)' = PipeChan(d)
      BY <2>1, <3>5, ChanNext DEF PipeChan
    <3> QED
      BY <1>3, <2>1, <3>3, <3>4, <3>5, <3>6 DEF Direction!Next, Direction!Ack, ReceiverKeeps
  <2> QED
    BY <2>2, <2>3
<1>6. CASE CloseWrite(d)
  <2>1. UNCHANGED <<wrote, okBytes, link, wlPc, held, outQueue>>
    BY <1>6 DEF CloseWrite, CloseWriteLocked, connVars, writerVars, loopVars
  <2>2. UNCHANGED state \/ state'[d] \in {"half_closed_local", "closed"}
    BY <1>1, <1>6 DEF CloseWrite, CloseWriteLocked
  <2>3. CASE UNCHANGED state
    BY <1>3, <2>1, <2>3, SenderUntouched, Stutters
  <2>4. CASE state'[d] \in {"half_closed_local", "closed"}
    <3>1. PipeShut(d)'
      BY <2>4 DEF PipeShut, SendDone
    <3> QED
      BY <1>3, <2>1, <3>1, ShutSteps DEF Direction!Next
  <2> QED
    BY <2>2, <2>3, <2>4
<1>7. CASE CloseCloseWrite(d)
  <2>1. UNCHANGED <<wrote, okBytes, link, wlPc, held, outQueue>>
    BY <1>7 DEF CloseCloseWrite, CloseWriteLocked, connVars, writerVars, loopVars
  <2>2. UNCHANGED state \/ state'[d] \in {"half_closed_local", "closed"}
    BY <1>1, <1>7 DEF CloseCloseWrite, CloseWriteLocked
  <2>3. CASE UNCHANGED state
    BY <1>3, <2>1, <2>3, SenderUntouched, Stutters
  <2>4. CASE state'[d] \in {"half_closed_local", "closed"}
    <3>1. PipeShut(d)'
      BY <2>4 DEF PipeShut, SendDone
    <3> QED
      BY <1>3, <2>1, <3>1, ShutSteps DEF Direction!Next
  <2> QED
    BY <2>2, <2>3, <2>4
<1>8. CASE Reset(d)
  <2>1. UNCHANGED <<wrote, okBytes, link[d], wlPc, held, outQueue>>
    BY <1>1, <1>2, <1>8 DEF Reset, ResetLocked, NotifyLocked, streamVars, connVars, writerVars,
       loopVars
  <2>2. UNCHANGED state \/ state'[d] = "closed"
    BY <1>1, <1>8 DEF Reset, ResetLocked, NotifyLocked, streamVars
  <2>3. CASE UNCHANGED state
    BY <1>3, <2>1, <2>3, SenderUntouched, Stutters
  <2>4. CASE state'[d] = "closed"
    <3>1. PipeShut(d)'
      BY <2>4 DEF PipeShut, SendDone
    <3> QED
      BY <1>3, <2>1, <3>1, ShutSteps DEF Direction!Next
  <2> QED
    BY <2>2, <2>3, <2>4
<1>9. CASE CloseReset(d)
  <2>1. UNCHANGED <<wrote, okBytes, link[d], wlPc, held, outQueue>>
    BY <1>1, <1>2, <1>9 DEF CloseReset, ResetLocked, NotifyLocked, streamVars, connVars,
       writerVars, loopVars
  <2>2. UNCHANGED state \/ state'[d] = "closed"
    BY <1>1, <1>9 DEF CloseReset, ResetLocked, NotifyLocked, streamVars
  <2>3. CASE UNCHANGED state
    BY <1>3, <2>1, <2>3, SenderUntouched, Stutters
  <2>4. CASE state'[d] = "closed"
    <3>1. PipeShut(d)'
      BY <2>4 DEF PipeShut, SendDone
    <3> QED
      BY <1>3, <2>1, <3>1, ShutSteps DEF Direction!Next
  <2> QED
    BY <2>2, <2>3, <2>4
<1>10. CASE HandleReset(d)
  <2>1. UNCHANGED <<wrote, okBytes, link[d], wlPc, held, outQueue>>
    BY <1>1, <1>2, <1>10 DEF HandleReset, Consume, ApplyReset, NotifyLocked, streamVars, connVars,
       writerVars, loopVars
  <2>2. UNCHANGED state \/ state'[d] = "closed"
    BY <1>1, <1>10 DEF HandleReset, Consume, ApplyReset, NotifyLocked, streamVars
  <2>3. CASE UNCHANGED state
    BY <1>3, <2>1, <2>3, SenderUntouched, Stutters
  <2>4. CASE state'[d] = "closed"
    <3>1. PipeShut(d)'
      BY <2>4 DEF PipeShut, SendDone
    <3> QED
      BY <1>3, <2>1, <3>1, ShutSteps DEF Direction!Next
  <2> QED
    BY <2>2, <2>3, <2>4
<1>11. CASE ResetStream(d)
  <2>1. UNCHANGED <<wrote, okBytes, link[d], wlPc, held, outQueue>>
    BY <1>1, <1>2, <1>11 DEF ResetStream, ApplyReset, NotifyLocked, streamVars, connVars,
       writerVars, loopVars
  <2>2. UNCHANGED state \/ state'[d] = "closed"
    BY <1>1, <1>11 DEF ResetStream, ApplyReset, NotifyLocked, streamVars
  <2>3. CASE UNCHANGED state
    BY <1>3, <2>1, <2>3, SenderUntouched, Stutters
  <2>4. CASE state'[d] = "closed"
    <3>1. PipeShut(d)'
      BY <2>4 DEF PipeShut, SendDone
    <3> QED
      BY <1>3, <2>1, <3>1, ShutSteps DEF Direction!Next
  <2> QED
    BY <2>2, <2>3, <2>4
<1>12. CASE WriteControl(d)
  <2> DEFINE f == Head(controlQueue[d])
  <2>1. /\ UNCHANGED <<state, wrote, wlPc, held, outQueue, okBytes>>
        /\ controlQueue[d] # <<>> /\ link'[d] = Append(link[d], f)
    BY <1>1, <1>12 DEF WriteControl, streamVars, writerVars, loopVars
  <2>2. f \in Frame /\ f.type # "DATA"
    BY <1>1, <2>1, TailAll DEF FlowInv, FlowAt, ChunksAreData
  <2> HIDE DEF f
  <2>3. Ranges(link'[d]) = Ranges(link[d])
    BY <1>1, <2>1, <2>2, RangesAppend DEF DataOf
  <2>4. PipeShut(d)' = PipeShut(d)
    BY <2>1 DEF PipeShut, SendDone
  <2>5. SenderKeeps(d)
    BY <2>1, <2>3, <2>4, ChanNext DEF PipeChan, SenderKeeps
  <2> QED
    BY <1>3, <2>5, Stutters
<1>13. CASE NextChunk(d)
  <2>1. /\ UNCHANGED <<state, wrote, link, okBytes>> /\ wlPc[d] = "turn" /\ outQueue[d] # <<>>
        /\ outQueue'[d] = Tail(outQueue[d])
        /\ IF SendDone(d) THEN UNCHANGED <<held, wlPc>>
                          ELSE held'[d] = Head(outQueue[d]) /\ wlPc'[d] = "write"
    BY <1>1, <1>13 DEF NextChunk, PopChunk, connVars
  <2>2. PipeShut(d)' = PipeShut(d) /\ PipeShut(d) = SendDone(d)
    BY <2>1 DEF PipeShut, SendDone
  <2>3. Ranges(outQueue[d]) = Ranges(outQueue'[d]) \cup DataOf(Head(outQueue[d]))
    BY <1>1, <2>1, RangesTail
  <2>4. CASE SendDone(d)
    BY <1>3, <2>1, <2>2, <2>4, ChanNext, Stutters DEF PipeChan, SenderKeeps
  <2>5. CASE ~SendDone(d)
    <3>1. PipeChan(d)' = Ranges(link[d]) \cup DataOf(Head(outQueue[d])) \cup Ranges(outQueue'[d])
      BY <2>1, <2>2, <2>5, ChanNext
    <3>2. PipeChan(d) = Ranges(link[d]) \cup Ranges(outQueue[d])
      BY <2>1, <2>2, <2>5 DEF PipeChan
    <3>3. PipeChan(d)' = PipeChan(d)
      BY <2>3, <3>1, <3>2
    <3> QED
      BY <1>3, <2>1, <2>2, <3>3, Stutters DEF SenderKeeps
  <2> QED
    BY <2>4, <2>5
<1>14. CASE WriteData(d)
  <2>1. /\ UNCHANGED <<state, wrote, outQueue, okBytes>> /\ wlPc[d] = "write" /\ wlPc'[d] = "turn"
        /\ link'[d] = Append(link[d], held[d])
    BY <1>1, <1>14 DEF WriteData, streamVars
  <2>2. PipeShut(d)' = PipeShut(d)
    BY <2>1 DEF PipeShut, SendDone
  <2>3. Ranges(link'[d]) = Ranges(link[d]) \cup DataOf(held[d])
    BY <1>1, <2>1, RangesAppend
  <2>4. SenderKeeps(d)
    BY <2>1, <2>2, <2>3, ChanNext DEF PipeChan, SenderKeeps
  <2> QED
    BY <1>3, <2>4, Stutters
<1>15. CASE WriterStops(d)
  <2>1. UNCHANGED <<wrote, okBytes, link>> /\ wlPc'[d] = "stopped"
    BY <1>1, <1>15 DEF WriterStops, connVars
  <2>2. PipeShut(d)'
    BY <2>1 DEF PipeShut
  <2> QED
    BY <1>3, <2>1, <2>2, ShutSteps DEF Direction!Next
<1>16. CASE HandleClose(d)
  <2>1. UNCHANGED <<wrote, link[d], wlPc, held, outQueue, okBytes>>
    BY <1>1, <1>2, <1>16 DEF HandleClose, Consume, writerVars
  <2>2. SendDone(d)' = SendDone(d)
    BY <1>1, <1>16 DEF HandleClose, SendDone, States
  <2>3. PipeShut(d)' = PipeShut(d)
    BY <2>1, <2>2 DEF PipeShut
  <2>4. SenderKeeps(d)
    BY <2>1, <2>3, ChanNext DEF PipeChan, SenderKeeps
  <2> QED
    BY <1>3, <2>4, Stutters
<1>17. CASE (\E p \in ReadSizes : ReadData(d, p)) \/ ReadEmpty(d) \/ ReadConnClosed(d) \/
              CreditConsumed(d) \/ SendWindowFrame(d)
  <2>1. UNCHANGED <<state[d], wrote[d], link[d], wlPc[d], held[d], outQueue[d], okBytes[d]>>
    BY <1>1, <1>2, <1>17 DEF ReadData, ReadEmpty, ReadConnClosed, CreditConsumed, SendWindowFrame,
       SendControlFrame, streamVars, connVars, writerVars, readerVars, closerVars, loopVars
  <2> QED
    BY <1>3, <2>1, SenderUntouched, Stutters
<1>18. CASE (\E n \in WriteSizes : Write(d, n)) \/ ReserveSendCredit(d) \/ WriteConnClosed(d) \/
              CancelWrite(d)
  <2>1. UNCHANGED <<state[d], wrote[d], link[d], wlPc[d], held[d], outQueue[d], okBytes[d]>>
    BY <1>1, <1>2, <1>18 DEF Write, ReserveSendCredit, WriteReturns, WriteConnClosed, CancelWrite,
       streamVars, connVars, writerVars, readerVars, closerVars, loopVars
  <2> QED
    BY <1>3, <2>1, SenderUntouched, Stutters
<1>19. CASE RetireForClose(d) \/ RetireForReset(d) \/ SendClose(d) \/ SendReset(d) \/ Close(d) \/
              CloseEOF(d)
  <2>1. UNCHANGED <<state[d], wrote[d], link[d], wlPc[d], held[d], outQueue[d], okBytes[d]>>
    BY <1>1, <1>2, <1>19 DEF RetireForClose, RetireForReset, SendClose, SendReset, Close,
       CloseEOF, NotifyLocked, streamVars, connVars, writerVars, readerVars, closerVars, loopVars
  <2> QED
    BY <1>3, <2>1, SenderUntouched, Stutters
<1>20. CASE LookupLiveStream(d) \/ HandleData(d) \/ HandleWindow(d) \/ SendResetStream(d) \/
              ReaderStops(d) \/ ConnEnds(d)
  <2>1. UNCHANGED <<state[d], wrote[d], link[d], wlPc[d], held[d], outQueue[d], okBytes[d]>>
    BY <1>1, <1>2, <1>20 DEF LookupLiveStream, Consume, HandleData, NotifyLocked, FailConn,
       HandleWindow, SendResetStream, ReaderStops, ConnEnds, streamVars, connVars, writerVars,
       readerVars, closerVars, loopVars
  <2> QED
    BY <1>3, <2>1, SenderUntouched, Stutters
<1> QED
  BY <1>4, <1>5, <1>6, <1>7, <1>8, <1>9, <1>10, <1>11, <1>12, <1>13, <1>14, <1>15, <1>16, <1>17,
     <1>18, <1>19, <1>20 DEF StepOf, AppReads, WriteSteps, CloseSteps, WriterLoop, ReaderLoop,
     AppCalls
-----------------------------------------------------------------------------
(* The receiver *)

\* What an end's own steps, seen as the receiver, do to the direction its peer writes.
LEMMA ReceiverSimulates ==
  ASSUME TypeOK, FlowInv, FlowInv', FinInv, PipeInv, NEW d \in Ends, Direction(d)!ChanInv, StepOf(Peer(d))
  PROVE  [Direction(d)!Next]_(Direction(d)!vars)
<1> DEFINE e == Peer(d)
           G == [Direction(d)!Next]_(Direction(d)!vars)
<1> SUFFICES G
  OBVIOUS
<1>1. /\ state \in [Ends -> States] /\ buf \in [Ends -> Positions] /\ outQueue \in [Ends -> Seq(Frame)]
      /\ wlPc \in [Ends -> {"turn", "write", "stopped"}] /\ held \in [Ends -> Frame]
      /\ link \in [Ends -> Seq(Frame)] /\ controlQueue \in [Ends -> Seq(Frame)]
      /\ okBytes \in [Ends -> Int] /\ wrote \in [Ends -> Int] /\ wrHold \in [Ends -> Int]
      /\ readResult \in [Ends -> Codes \cup {"eof", "conn"}]
  BY DEF TypeOK, StreamType, ConnType, LoopType, WriterType, ReaderType
<1>2. e \in Ends /\ e # d /\ Peer(e) = d
  BY PeerInEnds
<1>3. UNCHANGED <<state[d], wrote[d], wlPc[d], held[d], outQueue[d], okBytes[d]>>
  BY <1>2, OthersKeep
<1>4. buf[e] \in [lo : Int, hi : Int] /\ buf[e].lo \in Int /\ buf[e].hi \in Int
  BY <1>1, <1>2 DEF Positions
<1>5. CASE (\E p \in ReadSizes : ReadData(e, p))
  <2>1. PICK n \in ReadSizes : ReadData(e, n)
    BY <1>5
  <2>2. n \in Nat /\ n > 0
    BY StreamAssumption
  <2> DEFINE k == buf[e].lo + Min2(n, buf[e].hi - buf[e].lo)
  <2>3. /\ UNCHANGED <<link, state, readResult>> /\ rdPc[e] = "read" /\ buf[e].hi - buf[e].lo > 0
        /\ buf'[e] = [lo |-> k, hi |-> buf[e].hi]
    BY <1>1, <1>2, <2>1 DEF ReadData, BufLen, connVars
  <2>4. k \in buf[e].lo + 1..buf[e].hi
    BY <1>4, <2>2, <2>3 DEF Min2
  <2>5. buf'[e] = [buf[e] EXCEPT !.lo = k]
    BY <1>4, <2>3
  <2> HIDE DEF k
  <2>6. readResult[e] = "none"
    BY <1>2, <2>3 DEF PipeInv, PipeAt, ReadsEnd
  <2>7. PipeEnded(e) = "none" /\ PipeEnded(e)' = "none" /\ PipeDeaf(e)' = PipeDeaf(e)
    BY <2>3, <2>6 DEF PipeEnded, PipeDeaf
  <2>8. SenderKeeps(d)
    BY <1>3, <2>3, SenderUntouched
  <2> QED
    BY <2>4, <2>5, <2>7, <2>8 DEF Direction!Next, Direction!Read, SenderKeeps
<1>6. CASE ReadEmpty(e)
  <2>1. /\ UNCHANGED <<buf, link, state>> /\ rdPc[e] = "read"
        /\ \/ UNCHANGED readResult
           \/ /\ readResult'[e] = (IF err[e] # "none" THEN err[e] ELSE "eof") /\ (err[e] # "none" \/ eof[e])
              /\ buf[e].hi - buf[e].lo = 0
    BY <1>1, <1>2, <1>6 DEF ReadEmpty, BufLen, connVars
  <2>2. SenderKeeps(d)
    BY <1>3, <2>1, SenderUntouched
  <2>3. CASE UNCHANGED readResult
    BY <2>1, <2>2, <2>3, ReceiverUntouched, Stutters
  <2>4. CASE /\ readResult'[e] = (IF err[e] # "none" THEN err[e] ELSE "eof") /\ (err[e] # "none" \/ eof[e])
             /\ buf[e].hi - buf[e].lo = 0
    <3>1. readResult[e] = "none" /\ buf[e].lo = buf[e].hi
      BY <1>2, <1>4, <2>1, <2>4 DEF PipeInv, PipeAt, ReadsEnd
    <3>2. err[e] \in Codes
      BY <1>2 DEF TypeOK, StreamType
    <3>3. PipeEnded(e) = "none" /\ PipeEnded(e)' \in {"eof", "error"} /\ PipeDeaf(e)' = PipeDeaf(e)
      BY <2>1, <2>4, <3>1, <3>2 DEF PipeEnded, PipeDeaf, Codes
    <3>4. ASSUME PipeEnded(e)' = "eof" PROVE PipeShut(d) /\ PipeChan(d) = {} /\ okBytes[d] <= buf[e].lo
      <4>1. eof[e] \/ err[e] = "EOF"
        BY <2>4, <3>2, <3>4 DEF PipeEnded, Codes
      <4>2. remoteClosed[e]
        BY <1>2, <4>1 DEF PipeInv, PipeAt, ReadsEnd, EofIsRemote
      <4>3. SendDone(d) /\ wlPc[d] # "write" /\ NoData(link[d])
        BY <1>2, <4>2 DEF PipeInv, PipeAt, RemoteDone, NoData
      <4>4. \A c : c \notin Ranges(link[d])
        BY <4>3, RangesElem DEF NoData
      <4>5. PipeShut(d) /\ PipeChan(d) = {}
        BY <4>3, <4>4 DEF PipeChan, PipeShut
      <4>6. Acked(d) <= buf[e].hi
        BY <4>2 DEF PipeInv, PipeAt, AckedSent
      <4>7. okBytes[d] \in Int /\ wrHold[d] \in Int /\ (wrPc[d] = "await" => wrHold[d] >= 0)
        BY <1>1 DEF PipeInv, PipeAt, WaitedFor
      <4> QED
        BY <1>4, <3>1, <4>5, <4>6, <4>7 DEF Acked
    <3> QED
      BY <2>1, <2>2, <3>1, <3>3, <3>4 DEF Direction!Next, Direction!End, SenderKeeps
  <2> QED
    BY <2>1, <2>3, <2>4
<1>7. CASE ReadConnClosed(e)
  <2>1. /\ UNCHANGED <<buf, link, state>> /\ rdPc[e] = "read"
        /\ \/ UNCHANGED readResult
           \/ readResult'[e] = "conn" /\ buf[e].hi - buf[e].lo = 0
    BY <1>1, <1>2, <1>7 DEF ReadConnClosed, BufLen, connVars
  <2>2. SenderKeeps(d)
    BY <1>3, <2>1, SenderUntouched
  <2>3. CASE UNCHANGED readResult
    BY <2>1, <2>2, <2>3, ReceiverUntouched, Stutters
  <2>4. CASE readResult'[e] = "conn" /\ buf[e].hi - buf[e].lo = 0
    <3>1. readResult[e] = "none" /\ buf[e].lo = buf[e].hi
      BY <1>2, <1>4, <2>1, <2>4 DEF PipeInv, PipeAt, ReadsEnd
    <3>2. PipeEnded(e) = "none" /\ PipeEnded(e)' = "error" /\ PipeDeaf(e)' = PipeDeaf(e)
      BY <2>1, <2>4, <3>1 DEF PipeEnded, PipeDeaf
    <3> QED
      BY <2>1, <2>2, <3>1, <3>2 DEF Direction!Next, Direction!End, SenderKeeps
  <2> QED
    BY <2>1, <2>3, <2>4
<1>8. CASE CloseWrite(e)
  <2>1. UNCHANGED <<link, buf, readResult>>
    BY <1>8 DEF CloseWrite, CloseWriteLocked, connVars, readerVars
  <2>2. PipeDeaf(e)' = PipeDeaf(e)
    BY <1>1, <1>2, <1>8 DEF CloseWrite, CloseWriteLocked, Sendable, PipeDeaf, States
  <2>3. SenderKeeps(d) /\ ReceiverKeeps(d)
    BY <1>3, <2>1, <2>2, SenderUntouched DEF ReceiverKeeps, PipeEnded
  <2> QED
    BY <2>3, Stutters
<1>9. CASE CloseCloseWrite(e)
  <2>1. UNCHANGED <<link, buf, readResult>>
    BY <1>9 DEF CloseCloseWrite, CloseWriteLocked, connVars, readerVars
  <2>2. PipeDeaf(e)' = PipeDeaf(e)
    BY <1>1, <1>2, <1>9 DEF CloseCloseWrite, CloseWriteLocked, Sendable, PipeDeaf, States
  <2>3. SenderKeeps(d) /\ ReceiverKeeps(d)
    BY <1>3, <2>1, <2>2, SenderUntouched DEF ReceiverKeeps, PipeEnded
  <2> QED
    BY <2>3, Stutters
<1>10. CASE Reset(e)
  <2>1. UNCHANGED <<link, readResult>>
    BY <1>10 DEF Reset, ResetLocked, NotifyLocked, streamVars, connVars, readerVars
  <2>2. SenderKeeps(d)
    BY <1>3, <2>1, SenderUntouched
  <2>3. \/ UNCHANGED <<state, buf>>
        \/ state'[e] = "closed" /\ buf'[e] = [lo |-> buf[e].hi, hi |-> buf[e].hi]
    BY <1>1, <1>2, <1>10 DEF Reset, ResetLocked, NotifyLocked, streamVars
  <2>4. CASE UNCHANGED <<state, buf>>
    BY <2>1, <2>2, <2>4, ReceiverUntouched, Stutters
  <2>5. CASE state'[e] = "closed" /\ buf'[e] = [lo |-> buf[e].hi, hi |-> buf[e].hi]
    <3>1. PipeDeaf(e)'
      BY <2>5 DEF PipeDeaf
    <3> QED
      BY <2>1, <2>2, <2>5, <3>1, StopSteps DEF Direction!Next
  <2> QED
    BY <2>3, <2>4, <2>5
<1>11. CASE CloseReset(e)
  <2>1. UNCHANGED <<link, readResult>>
    BY <1>11 DEF CloseReset, ResetLocked, NotifyLocked, streamVars, connVars, readerVars
  <2>2. SenderKeeps(d)
    BY <1>3, <2>1, SenderUntouched
  <2>3. \/ UNCHANGED <<state, buf>>
        \/ state'[e] = "closed" /\ buf'[e] = [lo |-> buf[e].hi, hi |-> buf[e].hi]
    BY <1>1, <1>2, <1>11 DEF CloseReset, ResetLocked, NotifyLocked, streamVars
  <2>4. CASE UNCHANGED <<state, buf>>
    BY <2>1, <2>2, <2>4, ReceiverUntouched, Stutters
  <2>5. CASE state'[e] = "closed" /\ buf'[e] = [lo |-> buf[e].hi, hi |-> buf[e].hi]
    <3>1. PipeDeaf(e)'
      BY <2>5 DEF PipeDeaf
    <3> QED
      BY <2>1, <2>2, <2>5, <3>1, StopSteps DEF Direction!Next
  <2> QED
    BY <2>3, <2>4, <2>5
<1>12. CASE ResetStream(e)
  <2>1. UNCHANGED <<link, readResult>>
    BY <1>12 DEF ResetStream, ApplyReset, NotifyLocked, streamVars, connVars, readerVars
  <2>2. SenderKeeps(d)
    BY <1>3, <2>1, SenderUntouched
  <2>3. \/ UNCHANGED <<state, buf>>
        \/ state'[e] = "closed" /\ buf'[e] = [lo |-> buf[e].hi, hi |-> buf[e].hi]
    BY <1>1, <1>2, <1>12 DEF ResetStream, ApplyReset, NotifyLocked, streamVars
  <2>4. CASE UNCHANGED <<state, buf>>
    BY <2>1, <2>2, <2>4, ReceiverUntouched, Stutters
  <2>5. CASE state'[e] = "closed" /\ buf'[e] = [lo |-> buf[e].hi, hi |-> buf[e].hi]
    <3>1. PipeDeaf(e)'
      BY <2>5 DEF PipeDeaf
    <3> QED
      BY <2>1, <2>2, <2>5, <3>1, StopSteps DEF Direction!Next
  <2> QED
    BY <2>3, <2>4, <2>5
<1>13. CASE HandleReset(e)
  <2>1. link[d] # <<>> /\ Head(link[d]).type = "RESET" /\ link'[d] = Tail(link[d])
    BY <1>1, <1>2, <1>13 DEF HandleReset, Dispatching, Incoming, Consume
  <2>2. SenderKeeps(d)
    BY <1>3, <2>1, ArriveSteps
  <2>3. UNCHANGED readResult /\ state'[e] = "closed" /\ buf'[e] = [lo |-> buf[e].hi, hi |-> buf[e].hi]
    BY <1>1, <1>2, <1>13 DEF HandleReset, ApplyReset, readerVars
  <2>4. PipeDeaf(e)'
    BY <2>3 DEF PipeDeaf
  <2> QED
    BY <2>2, <2>3, <2>4, StopSteps DEF Direction!Next
<1>14. CASE HandleClose(e)
  <2>1. link[d] # <<>> /\ Head(link[d]).type = "CLOSE" /\ link'[d] = Tail(link[d])
    BY <1>1, <1>2, <1>14 DEF HandleClose, Dispatching, Incoming, Consume
  <2>2. SenderKeeps(d)
    BY <1>3, <2>1, ArriveSteps
  <2>3. UNCHANGED <<buf, readResult>>
    BY <1>14 DEF HandleClose, readerVars
  <2>4. PipeDeaf(e)'
    BY <1>1, <1>2, <1>14 DEF HandleClose, PipeDeaf, States
  <2> QED
    BY <2>2, <2>3, <2>4, StopSteps DEF Direction!Next
<1>15. CASE HandleWindow(e)
  <2>1. link[d] # <<>> /\ Head(link[d]).type = "WINDOW" /\ link'[d] = Tail(link[d])
    BY <1>1, <1>2, <1>15 DEF HandleWindow, Dispatching, Incoming, Consume
  <2>2. SenderKeeps(d)
    BY <1>3, <2>1, ArriveSteps
  <2>3. UNCHANGED <<state, buf, readResult>>
    BY <1>15 DEF HandleWindow, readerVars
  <2> QED
    BY <2>2, <2>3, ReceiverUntouched, Stutters
<1>16. CASE LookupLiveStream(e)
  <2>1. UNCHANGED <<state, buf, readResult>>
    BY <1>16 DEF LookupLiveStream, streamVars, readerVars
  <2>2. ReceiverKeeps(d)
    BY <2>1, ReceiverUntouched
  <2>3. UNCHANGED link \/ (~live[e] /\ link[d] # <<>> /\ link'[d] = Tail(link[d]))
    BY <1>1, <1>2, <1>16 DEF LookupLiveStream, Incoming, Consume
  <2>4. CASE UNCHANGED link
    BY <1>3, <2>2, <2>4, SenderUntouched, Stutters
  <2>5. CASE ~live[e] /\ link[d] # <<>> /\ link'[d] = Tail(link[d])
    <3>1. PipeDeaf(e)
      BY <1>2, <2>5, FinParts DEF FinInv, PipeDeaf
    <3>2. CASE Head(link[d]).type # "DATA"
      BY <1>3, <2>2, <2>5, <3>2, ArriveSteps, Stutters
    <3>3. CASE Head(link[d]).type = "DATA"
      <4>1. /\ Direction(d)!Arrives(HeadRange(d)) /\ HeadRange(d) \in PipeChan(d)
            /\ UNCHANGED <<wrote[d], PipeShut(d), okBytes[d]>>
        BY <1>3, <2>5, <3>3, ArriveSteps
      <4> QED
        BY <2>2, <3>1, <4>1 DEF Direction!Next, Direction!Discard, ReceiverKeeps
    <3> QED
      BY <3>2, <3>3
  <2> QED
    BY <2>3, <2>4, <2>5
<1>17. CASE HandleData(e)
  <2>1. link[d] # <<>> /\ Head(link[d]).type = "DATA" /\ link'[d] = Tail(link[d])
    BY <1>1, <1>2, <1>17 DEF HandleData, Dispatching, Incoming, Consume
  <2>2. /\ Direction(d)!Arrives(HeadRange(d)) /\ HeadRange(d) \in PipeChan(d)
        /\ UNCHANGED <<wrote[d], PipeShut(d), okBytes[d]>>
    BY <1>3, <2>1, ArriveSteps
  <2>3. UNCHANGED <<state, readResult>>
    BY <1>17 DEF HandleData, readerVars
  <2>4. PipeDeaf(e)' = PipeDeaf(e) /\ PipeEnded(e)' = PipeEnded(e)
    BY <2>3 DEF PipeDeaf, PipeEnded
  <2>5. CASE PipeDeaf(e)
    <3>1. buf' = buf
      BY <1>17, <2>5 DEF HandleData, PipeDeaf
    <3> QED
      BY <2>2, <2>4, <2>5, <3>1 DEF Direction!Next, Direction!Discard
  <2>6. CASE ~PipeDeaf(e)
    <3>1. buf'[e] = [lo |-> buf[e].lo, hi |-> HeadRange(d).hi]
      BY <1>17, <2>6, DataArrives
    <3>2. buf'[e] = [buf[e] EXCEPT !.hi = HeadRange(d).hi]
      BY <1>4, <3>1
    <3>3. HeadRange(d).lo = buf[e].hi
      BY <2>1, <2>6, HeadOldest
    <3> QED
      BY <2>2, <2>4, <2>6, <3>2, <3>3 DEF Direction!Next, Direction!Deliver
  <2> QED
    BY <2>5, <2>6
<1>18. CASE CreditConsumed(e) \/ SendWindowFrame(e)
  <2>1. UNCHANGED <<link[d], state[e], buf[e], readResult[e]>>
    BY <1>1, <1>2, <1>18 DEF CreditConsumed, SendWindowFrame, SendControlFrame, streamVars,
       connVars, writerVars, readerVars, closerVars, loopVars
  <2> QED
    BY <1>3, <2>1, SenderUntouched, ReceiverUntouched, Stutters
<1>19. CASE (\E n \in WriteSizes : Write(e, n)) \/ ReserveSendCredit(e) \/ QueueChunk(e) \/
              ChunkDone(e) \/ WriteConnClosed(e) \/ CancelWrite(e)
  <2>1. UNCHANGED <<link[d], state[e], buf[e], readResult[e]>>
    BY <1>1, <1>2, <1>19 DEF Write, ReserveSendCredit, WriteReturns, QueueChunk, ChunkDone,
       WriteConnClosed, CancelWrite, streamVars, connVars, writerVars, readerVars, closerVars,
       loopVars
  <2> QED
    BY <1>3, <2>1, SenderUntouched, ReceiverUntouched, Stutters
<1>20. CASE RetireForClose(e) \/ RetireForReset(e) \/ SendClose(e) \/ SendReset(e) \/ Close(e) \/
              CloseEOF(e)
  <2>1. UNCHANGED <<link[d], state[e], buf[e], readResult[e]>>
    BY <1>1, <1>2, <1>20 DEF RetireForClose, RetireForReset, SendClose, SendReset, Close,
       CloseEOF, NotifyLocked, streamVars, connVars, writerVars, readerVars, closerVars, loopVars
  <2> QED
    BY <1>3, <2>1, SenderUntouched, ReceiverUntouched, Stutters
<1>21. CASE WriteControl(e) \/ NextChunk(e) \/ WriteData(e) \/ WriterStops(e)
  <2>1. UNCHANGED <<link[d], state[e], buf[e], readResult[e]>>
    BY <1>1, <1>2, <1>21 DEF WriteControl, NextChunk, CompleteChunk, WriteData, WriterStops,
       streamVars, connVars, writerVars, readerVars, closerVars, loopVars
  <2> QED
    BY <1>3, <2>1, SenderUntouched, ReceiverUntouched, Stutters
<1>22. CASE SendResetStream(e) \/ ReaderStops(e) \/ ConnEnds(e)
  <2>1. UNCHANGED <<link[d], state[e], buf[e], readResult[e]>>
    BY <1>1, <1>2, <1>22 DEF SendResetStream, ReaderStops, ConnEnds, streamVars, connVars,
       writerVars, readerVars, closerVars, loopVars
  <2> QED
    BY <1>3, <2>1, SenderUntouched, ReceiverUntouched, Stutters
<1> QED
  BY <1>5, <1>6, <1>7, <1>8, <1>9, <1>10, <1>11, <1>12, <1>13, <1>14, <1>15, <1>16, <1>17, <1>18,
     <1>19, <1>20, <1>21, <1>22 DEF StepOf, AppReads, WriteSteps, CloseSteps, WriterLoop,
     ReaderLoop, AppCalls
-----------------------------------------------------------------------------
(* The refinement *)

\* Every step of a stream is a step of both pipes, or leaves them alone.
LEMMA Simulates ==
  ASSUME TypeOK, FlowInv, FlowInv', FinInv, PipeInv, [Next]_vars, NEW d \in Ends, Direction(d)!ChanInv
  PROVE  [Direction(d)!Next]_(Direction(d)!vars)
<1>1. ASSUME NEW e \in Ends, StepOf(e) PROVE [Direction(d)!Next]_(Direction(d)!vars)
  <2>1. CASE e = d
    BY <1>1, <2>1, SenderSimulates
  <2>2. CASE e = Peer(d)
    BY <1>1, <2>2, ReceiverSimulates
  <2> QED
    BY <2>1, <2>2 DEF Ends, Peer
<1>2. CASE UNCHANGED vars
  <2>1. UNCHANGED <<state, buf, outQueue, link, wlPc, held, okBytes, wrote, readResult>>
    BY <1>2 DEF vars, streamVars, connVars, writerVars, readerVars, loopVars
  <2> QED
    BY <2>1, SenderUntouched, ReceiverUntouched, Stutters
<1> QED
  BY <1>1, <1>2 DEF Next, StepOf

\* What the server writes.
LEMMA DownIsDirection ==
  /\ Down!ChanInv <=> Direction("server")!ChanInv
  /\ Down!ChanInv' <=> Direction("server")!ChanInv'
  /\ Down!Init <=> Direction("server")!Init
  /\ [Down!Next]_(Down!vars) <=> [Direction("server")!Next]_(Direction("server")!vars)
<1>1. Peer("server") = "client"
  BY DEF Peer
<1>2. (Down!ChanInv <=> Direction("server")!ChanInv) /\ (Down!ChanInv' <=> Direction("server")!ChanInv')
  BY <1>1 DEF Down!ChanInv, Down!Disjoint, Down!Gapless, Down!Chunk,
     Direction!ChanInv, Direction!Disjoint, Direction!Gapless, Direction!Chunk
<1>3. Down!Init <=> Direction("server")!Init
  BY <1>1 DEF Down!Init, Direction!Init
<1>4. Down!vars = Direction("server")!vars /\ (Down!vars)' = (Direction("server")!vars)'
  BY <1>1 DEF Down!vars, Direction!vars
<1>5. Down!Next <=> Direction("server")!Next
  BY <1>1 DEF Down!Next, Down!Write, Down!Ack, Down!Shut, Down!Arrives, Down!Deliver, Down!Discard,
     Down!Read, Down!Stop, Down!End, Direction!Next, Direction!Write, Direction!Ack, Direction!Shut,
     Direction!Arrives, Direction!Deliver, Direction!Discard, Direction!Read, Direction!Stop,
     Direction!End
<1> QED
  BY <1>2, <1>3, <1>4, <1>5

\* What the client writes.
LEMMA UpIsDirection ==
  /\ Up!ChanInv <=> Direction("client")!ChanInv
  /\ Up!ChanInv' <=> Direction("client")!ChanInv'
  /\ Up!Init <=> Direction("client")!Init
  /\ [Up!Next]_(Up!vars) <=> [Direction("client")!Next]_(Direction("client")!vars)
<1>1. Peer("client") = "server"
  BY DEF Peer
<1>2. (Up!ChanInv <=> Direction("client")!ChanInv) /\ (Up!ChanInv' <=> Direction("client")!ChanInv')
  BY <1>1 DEF Up!ChanInv, Up!Disjoint, Up!Gapless, Up!Chunk,
     Direction!ChanInv, Direction!Disjoint, Direction!Gapless, Direction!Chunk
<1>3. Up!Init <=> Direction("client")!Init
  BY <1>1 DEF Up!Init, Direction!Init
<1>4. Up!vars = Direction("client")!vars /\ (Up!vars)' = (Direction("client")!vars)'
  BY <1>1 DEF Up!vars, Direction!vars
<1>5. Up!Next <=> Direction("client")!Next
  BY <1>1 DEF Up!Next, Up!Write, Up!Ack, Up!Shut, Up!Arrives, Up!Deliver, Up!Discard,
     Up!Read, Up!Stop, Up!End, Direction!Next, Direction!Write, Direction!Ack, Direction!Shut,
     Direction!Arrives, Direction!Deliver, Direction!Discard, Direction!Read, Direction!Stop,
     Direction!End
<1> QED
  BY <1>2, <1>3, <1>4, <1>5

\* The chunks of both directions.
LEMMA ChansAreDirections ==
  /\ ChansInv <=> \A d \in Ends : Direction(d)!ChanInv
  /\ ChansInv' <=> \A d \in Ends : Direction(d)!ChanInv'
  BY DownIsDirection, UpIsDirection DEF ChansInv, Ends

\* A new stream is a pair of empty pipes.
LEMMA PipesStart ==
  ASSUME Init, NEW d \in Ends
  PROVE  PipeAt(d) /\ Direction(d)!Init /\ Direction(d)!ChanInv
<1>1. Peer(d) \in Ends
  BY PeerInEnds
<1>2. \A x \in Ends : /\ state[x] = "open" /\ buf[x] = [lo |-> 0, hi |-> 0] /\ ~eof[x] /\ err[x] = "none"
                      /\ ~remoteClosed[x] /\ outQueue[x] = <<>> /\ controlQueue[x] = <<>> /\ link[x] = <<>>
                      /\ wrPc[x] = "idle" /\ wrHold[x] = 0 /\ wrChunk[x] = 0 /\ clPc[x] = "idle"
                      /\ clNext[x] = "idle" /\ wlPc[x] = "turn" /\ readResult[x] = "none"
                      /\ okBytes[x] = 0 /\ wrote[x] = 0
  BY DEF Init
<1>3. Len(<<>>) = 0 /\ 1..0 = {}
  OBVIOUS
<1>4. Ranges(<<>>) = {}
  BY <1>3 DEF Ranges
<1>5. PipeChan(d) = {} /\ ~PipeShut(d) /\ ~PipeDeaf(Peer(d)) /\ PipeEnded(Peer(d)) = "none"
  BY <1>1, <1>2, <1>4 DEF PipeChan, PipeShut, SendDone, PipeDeaf, PipeEnded
<1>6. Direction(d)!Init
  BY <1>1, <1>2, <1>5 DEF Direction!Init
<1>7. Direction(d)!ChanInv
  BY <1>1, <1>2, <1>5 DEF Direction!ChanInv, Direction!Disjoint, Direction!Gapless, Direction!Chunk
<1>8. RemoteDone(d) /\ EofIsRemote(d) /\ ReadsEnd(d)
  BY <1>2 DEF RemoteDone, EofIsRemote, ReadsEnd
<1>9. CodesAt(d) /\ WaitedFor(d)
  BY <1>2, <1>3 DEF CodesAt, NotEof, WaitedFor
<1>10. AckedSent(d)
  BY <1>1, <1>2 DEF AckedSent, Acked
<1> QED
  BY <1>6, <1>7, <1>8, <1>9, <1>10 DEF PipeAt

\* The inductive invariant behind the refinement, of every instance of a stream.
THEOREM PipeInvariant == Spec => [](PipeInv /\ ChansInv)
<1>1. Init => PipeInv /\ ChansInv
  BY PipesStart, ChansAreDirections DEF PipeInv
<1>2. ASSUME TypeOK, FlowInv, FlowInv', FinInv, PipeInv, ChansInv, [Next]_vars
      PROVE  PipeInv' /\ ChansInv'
  <2>1. \A d \in Ends : Direction(d)!ChanInv
    BY <1>2, ChansAreDirections
  <2>2. ASSUME NEW d \in Ends PROVE PipeAt(d)'
    <3>1. RemoteDone(d)' /\ EofIsRemote(d)' /\ ReadsEnd(d)' /\ CodesAt(d)'
      BY <1>2, RemoteDoneStep, EofIsRemoteStep, ReadsEndStep, CodesStep
    <3>2. WaitedFor(d)' /\ AckedSent(d)'
      BY <1>2, <2>1, WaitedForStep, AckedSentStep
    <3> QED
      BY <3>1, <3>2 DEF PipeAt
  <2>3. ASSUME NEW d \in Ends PROVE Direction(d)!ChanInv'
    <3>1. [Direction(d)!Next]_(Direction(d)!vars)
      BY <1>2, <2>1, Simulates
    <3>2. wrote'[d] \in Int
      BY <1>2, WroteGrows
    <3> QED
      BY <2>1, <3>1, <3>2, ChanStep
  <2> QED
    BY <2>2, <2>3, ChansAreDirections DEF PipeInv
<1> QED
  BY <1>1, <1>2, TypeCorrect, FlowInvariant, FinInvariant, PTL DEF Spec

\* Stream implements Pipe in both directions, for every window, chunk size, queue capacity and
\* set of calls: what WriteContext, ReadContext, CloseWrite, Reset, Close and the two loops do
\* to the bytes of a stream, in whatever order they interleave, a reliable byte pipe could have
\* done.
THEOREM ImplementsPipe == Spec => BytePipe
<1>1. Init => Down!Init /\ Up!Init
  BY PipesStart, DownIsDirection, UpIsDirection DEF Ends
<1>2. ASSUME TypeOK, FlowInv, FlowInv', FinInv, PipeInv, ChansInv, [Next]_vars
      PROVE  [Down!Next]_(Down!vars) /\ [Up!Next]_(Up!vars)
  <2>1. \A d \in Ends : Direction(d)!ChanInv
    BY <1>2, ChansAreDirections
  <2>2. "server" \in Ends /\ "client" \in Ends
    BY DEF Ends
  <2>3. [Direction("server")!Next]_(Direction("server")!vars)
    BY <1>2, <2>1, <2>2, Simulates
  <2>4. [Direction("client")!Next]_(Direction("client")!vars)
    BY <1>2, <2>1, <2>2, Simulates
  <2> QED
    BY <2>3, <2>4, DownIsDirection, UpIsDirection
<1> QED
  BY <1>1, <1>2, TypeCorrect, FlowInvariant, FinInvariant, PipeInvariant, PTL
     DEF Spec, BytePipe, Down!Spec, Up!Spec
=============================================================================
