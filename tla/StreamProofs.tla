---------------------------- MODULE StreamProofs ----------------------------
(***************************************************************************)
(* Proofs about Stream, for every value of the constants that satisfies    *)
(* StreamAssumption: type correctness; FlowInv is inductive, and with it   *)
(* NoFlowControlError, WindowsAgree and CreditConserved hold; FinInv is    *)
(* inductive, and with it NoDataAfterClose holds.                          *)
(***************************************************************************)
EXTENDS Stream, TLAPS

\* A stream has two ends, each the peer of the other.
LEMMA PeerInEnds == \A e \in Ends : Peer(e) \in Ends /\ Peer(Peer(e)) = e /\ Peer(e) # e
  BY DEF Peer, Ends

\* The frame constructors build frames; a frame's fields have their types.
LEMMA FrameType ==
  /\ \A a, b \in Int : DataFrame(a, b) \in Frame /\ WindowFrame(a, b) \in Frame
  /\ CloseFrame \in Frame /\ NoChunk \in Frame
  /\ \A c \in Codes : ResetFrame(c) \in Frame
  /\ \A f \in Frame : f.lo \in Int /\ f.hi \in Int /\ f.code \in Codes
  BY DEF Frame, DataFrame, WindowFrame, CloseFrame, NoChunk, ResetFrame, Codes

\* Appending a frame to one end's queue leaves queues of frames.
LEMMA QueueAppend ==
  ASSUME NEW q, q \in [Ends -> Seq(Frame)], NEW e \in Ends, NEW f \in Frame
  PROVE  [q EXCEPT ![e] = Append(@, f)] \in [Ends -> Seq(Frame)]
  OBVIOUS

\* So does taking the head off a non-empty one, and the head is a frame.
LEMMA QueueTail ==
  ASSUME NEW q, q \in [Ends -> Seq(Frame)], NEW e \in Ends, q[e] # <<>>
  PROVE  [q EXCEPT ![e] = Tail(@)] \in [Ends -> Seq(Frame)] /\ Head(q[e]) \in Frame
  OBVIOUS

\* sendControlFrame keeps the control queues well typed.
LEMMA SendControlFrameType ==
  ASSUME ConnType, NEW e \in Ends, NEW f \in Frame, SendControlFrame(e, f)
  PROVE  controlQueue' \in [Ends -> Seq(Frame)]
<1>1. controlQueue \in [Ends -> Seq(Frame)]
  BY DEF ConnType
<1>2. controlQueue' = controlQueue \/ controlQueue' = [controlQueue EXCEPT ![e] = Append(@, f)]
  BY DEF SendControlFrame
<1> QED
  BY <1>1, <1>2, QueueAppend

\* The minimum of two integers is an integer.
LEMMA MinInt == \A a, b \in Int : Min2(a, b) \in Int
  BY DEF Min2

\* Buffer positions are integers, and any two integers make buffer positions.
LEMMA BufType ==
  ASSUME StreamType, NEW e \in Ends
  PROVE /\ buf[e].lo \in Int /\ buf[e].hi \in Int
        /\ \A a, b \in Int : [buf EXCEPT ![e] = [lo |-> a, hi |-> b]] \in [Ends -> Positions]
  BY DEF StreamType, Positions

\* The initial state is well typed.
LEMMA TypeInit == Init => TypeOK
BY StreamAssumption, FrameType, PeerInEnds
   DEF Init, TypeOK, StreamType, ConnType, WriterType, ReaderType, CloserType, LoopType,
         States, Codes, Positions

\* One step keeps the types: one case per action, one step per variable it changes.
LEMMA TypeStep == TypeOK /\ [Next]_vars => TypeOK'
<1> USE DEF States, Codes, Positions
<1> SUFFICES ASSUME TypeOK, [Next]_vars PROVE TypeOK'
  OBVIOUS
<1>0. StreamType /\ ConnType /\ WriterType /\ ReaderType /\ CloserType /\ LoopType
  BY DEF TypeOK
<1>1. ASSUME NEW e \in Ends, NEW p \in ReadSizes, ReadData(e, p) PROVE TypeOK'
  <2>1. UNCHANGED <<connVars, writerVars, closerVars, loopVars, state, sendWindow, recvWindow,
                    unacked, eof, err, remoteClosed, outQueue, waiting, readResult, credited>>
    BY <1>1 DEF ReadData, BufLen, Min2
  <2>2. buf' \in [Ends -> Positions]
    BY <1>0, <1>1, StreamAssumption DEF ReadData, BufLen, Min2, StreamType
  <2>3. rdPc' \in [Ends -> {"read", "credit", "window", "done"}]
    BY <1>0, <1>1 DEF ReadData, BufLen, Min2, ReaderType
  <2>4. rdHand' \in [Ends -> Int]
    BY <1>0, <1>1, StreamAssumption DEF ReadData, BufLen, Min2, ReaderType, StreamType
  <2> QED
    BY <1>0, <2>1, <2>2, <2>3, <2>4 DEF TypeOK, StreamType, ConnType, WriterType, ReaderType,
       CloserType, LoopType, connVars, writerVars, closerVars, loopVars
<1>2. ASSUME NEW e \in Ends, NEW k \in WriteSizes, Write(e, k) PROVE TypeOK'
  <2>1. UNCHANGED <<streamVars, connVars, readerVars, closerVars, loopVars, wrHold, wrChunk,
                    cancels, okBytes, reserved, wrote>>
    BY <1>2 DEF Write
  <2>2. wrPc' \in [Ends -> {"idle", "reserve", "queue", "await"}]
    BY <1>0, <1>2 DEF Write, WriterType
  <2>3. wrWant' \in [Ends -> Int]
    BY <1>0, <1>2, StreamAssumption DEF Write, WriterType
  <2>4. offered' \in [Ends -> Int]
    BY <1>0, <1>2, StreamAssumption DEF Write, WriterType
  <2> QED
    BY <1>0, <2>1, <2>2, <2>3, <2>4 DEF TypeOK, StreamType, ConnType, WriterType, ReaderType,
       CloserType, LoopType, streamVars, connVars, readerVars, closerVars, loopVars
<1>3. ASSUME NEW e \in Ends, ReadEmpty(e) PROVE TypeOK'
  <2>1. UNCHANGED <<connVars, writerVars, closerVars, loopVars, state, sendWindow, recvWindow,
                    unacked, buf, eof, err, remoteClosed, outQueue, rdHand, credited>>
    BY <1>3 DEF ReadEmpty, BufLen
  <2>2. waiting' \in [Ends -> SUBSET {"reader", "writer"}]
    <3>1. waiting' = waiting \/ waiting' = [waiting EXCEPT ![e] = @ \cup {"reader"}]
      BY <1>3 DEF ReadEmpty
    <3>2. waiting \in [Ends -> SUBSET {"reader", "writer"}]
      BY <1>0 DEF StreamType
    <3> QED
      BY <3>1, <3>2
  <2>3. rdPc' \in [Ends -> {"read", "credit", "window", "done"}]
    BY <1>0, <1>3 DEF ReadEmpty, BufLen, ReaderType
  <2>4. readResult' \in [Ends -> Codes \cup {"eof", "conn"}]
    BY <1>0, <1>3 DEF ReadEmpty, BufLen, ReaderType, StreamType
  <2> QED
    BY <1>0, <2>1, <2>2, <2>3, <2>4 DEF TypeOK, StreamType, ConnType, WriterType, ReaderType,
       CloserType, LoopType, connVars, writerVars, closerVars, loopVars
<1>4. ASSUME NEW e \in Ends, ReadConnClosed(e) PROVE TypeOK'
  <2>1. UNCHANGED <<connVars, writerVars, closerVars, loopVars, state, sendWindow, recvWindow,
                    unacked, buf, eof, err, remoteClosed, outQueue, rdHand, credited>>
    BY <1>4 DEF ReadConnClosed, BufLen
  <2>2. waiting' \in [Ends -> SUBSET {"reader", "writer"}]
    BY <1>0, <1>4 DEF ReadConnClosed, BufLen, StreamType
  <2>3. rdPc' \in [Ends -> {"read", "credit", "window", "done"}]
    BY <1>0, <1>4 DEF ReadConnClosed, BufLen, ReaderType
  <2>4. readResult' \in [Ends -> Codes \cup {"eof", "conn"}]
    BY <1>0, <1>4 DEF ReadConnClosed, BufLen, ReaderType
  <2> QED
    BY <1>0, <2>1, <2>2, <2>3, <2>4 DEF TypeOK, StreamType, ConnType, WriterType, ReaderType,
       CloserType, LoopType, connVars, writerVars, closerVars, loopVars
<1>5. ASSUME NEW e \in Ends, CreditConsumed(e) PROVE TypeOK'
  <2>1. UNCHANGED <<connVars, writerVars, closerVars, loopVars, state, sendWindow, buf, err,
                    remoteClosed, outQueue, waiting, readResult>>
    BY <1>5 DEF CreditConsumed, Owed, PayNow, Drained, BufLen
  <2>2. recvWindow' \in [Ends -> Int]
    BY <1>0, <1>5 DEF CreditConsumed, Owed, PayNow, Drained, BufLen, StreamType, ReaderType
  <2>3. unacked' \in [Ends -> Int]
    BY <1>0, <1>5 DEF CreditConsumed, Owed, PayNow, Drained, BufLen, StreamType, ReaderType
  <2>4. eof' \in [Ends -> BOOLEAN]
    BY <1>0, <1>5 DEF CreditConsumed, Owed, PayNow, Drained, BufLen, StreamType
  <2>5. rdPc' \in [Ends -> {"read", "credit", "window", "done"}]
    BY <1>0, <1>5 DEF CreditConsumed, Owed, PayNow, Drained, BufLen, ReaderType
  <2>6. rdHand' \in [Ends -> Int]
    BY <1>0, <1>5 DEF CreditConsumed, Owed, PayNow, Drained, BufLen, ReaderType, StreamType
  <2>7. credited' \in [Ends -> Int]
    BY <1>0, <1>5 DEF CreditConsumed, Owed, PayNow, Drained, BufLen, ReaderType, StreamType
  <2> QED
    BY <1>0, <2>1, <2>2, <2>3, <2>4, <2>5, <2>6, <2>7 DEF TypeOK, StreamType, ConnType, WriterType,
       ReaderType, CloserType, LoopType, connVars, writerVars, closerVars, loopVars
<1>6. ASSUME NEW e \in Ends, SendWindowFrame(e) PROVE TypeOK'
  <2>1. UNCHANGED <<streamVars, writerVars, closerVars, loopVars, live, connClosed, connErr, link,
                    readResult, credited>>
    BY <1>6 DEF SendWindowFrame, SendControlFrame
  <2>2. controlQueue' \in [Ends -> Seq(Frame)]
    <3>1. WindowFrame(credited[e] - rdHand[e], credited[e]) \in Frame
      BY <1>0, FrameType DEF ReaderType
    <3> QED
      BY <1>0, <1>6, <3>1, SendControlFrameType DEF SendWindowFrame
  <2>3. rdPc' \in [Ends -> {"read", "credit", "window", "done"}]
    BY <1>0, <1>6 DEF SendWindowFrame, SendControlFrame, ReaderType
  <2>4. rdHand' \in [Ends -> Int]
    BY <1>0, <1>6 DEF SendWindowFrame, SendControlFrame, ReaderType
  <2> QED
    BY <1>0, <2>1, <2>2, <2>3, <2>4 DEF TypeOK, StreamType, ConnType, WriterType, ReaderType,
       CloserType, LoopType, streamVars, writerVars, closerVars, loopVars
<1>7. ASSUME NEW e \in Ends, ReserveSendCredit(e) PROVE TypeOK'
  <2>1. UNCHANGED <<connVars, readerVars, closerVars, loopVars, state, recvWindow, unacked, buf,
                    eof, err, remoteClosed, outQueue, offered, cancels, okBytes, wrote>>
    BY <1>7 DEF ReserveSendCredit, ChunkLen, WriteReturns, Sendable, Min2
  <2>2. sendWindow' \in [Ends -> Int]
    <3>1. wrWant[e] \in Int /\ sendWindow[e] \in Int /\ MaxChunk \in Int
      BY <1>0, StreamAssumption DEF StreamType, WriterType
    <3>2. Min2(Min2(wrWant[e], sendWindow[e]), MaxChunk) \in Int
      BY <3>1, MinInt
    <3> QED
      BY <1>0, <1>7, <3>2 DEF StreamType, ReserveSendCredit, ChunkLen, WriteReturns
  <2>3. waiting' \in [Ends -> SUBSET {"reader", "writer"}]
    BY <1>0, <1>7 DEF ReserveSendCredit, ChunkLen, WriteReturns, Sendable, Min2, StreamType
  <2>4. wrPc' \in [Ends -> {"idle", "reserve", "queue", "await"}]
    BY <1>0, <1>7 DEF ReserveSendCredit, ChunkLen, WriteReturns, Sendable, Min2, WriterType
  <2>5. wrWant' \in [Ends -> Int]
    BY <1>0, <1>7 DEF ReserveSendCredit, ChunkLen, WriteReturns, Sendable, Min2, WriterType
  <2>6. wrHold' \in [Ends -> Int]
    <3>1. wrWant[e] \in Int /\ sendWindow[e] \in Int /\ MaxChunk \in Int
      BY <1>0, StreamAssumption DEF StreamType, WriterType
    <3>2. Min2(Min2(wrWant[e], sendWindow[e]), MaxChunk) \in Int
      BY <3>1, MinInt
    <3> QED
      BY <1>0, <1>7, <3>2 DEF WriterType, ReserveSendCredit, ChunkLen, WriteReturns
  <2>7. wrChunk' \in [Ends -> Int]
    BY <1>0, <1>7 DEF ReserveSendCredit, ChunkLen, WriteReturns, Sendable, Min2, WriterType
  <2>8. reserved' \in [Ends -> Int]
    <3>1. wrWant[e] \in Int /\ sendWindow[e] \in Int /\ MaxChunk \in Int
      BY <1>0, StreamAssumption DEF StreamType, WriterType
    <3>2. Min2(Min2(wrWant[e], sendWindow[e]), MaxChunk) \in Int
      BY <3>1, MinInt
    <3> QED
      BY <1>0, <1>7, <3>2 DEF WriterType, ReserveSendCredit, ChunkLen, WriteReturns
  <2> QED
    BY <1>0, <2>1, <2>2, <2>3, <2>4, <2>5, <2>6, <2>7, <2>8 DEF TypeOK, StreamType, ConnType,
       WriterType, ReaderType, CloserType, LoopType, connVars, readerVars, closerVars, loopVars
<1>8. ASSUME NEW e \in Ends, QueueChunk(e) PROVE TypeOK'
  <2>1. UNCHANGED <<connVars, readerVars, closerVars, loopVars, state, sendWindow, recvWindow,
                    unacked, buf, eof, err, remoteClosed, waiting, wrWant, wrHold, offered,
                    cancels, okBytes, reserved>>
    BY <1>8 DEF QueueChunk
  <2>2. outQueue' \in [Ends -> Seq(Frame)]
    <3>1. DataFrame(wrote[e], wrote[e] + wrHold[e]) \in Frame
      BY <1>0, FrameType DEF WriterType
    <3> QED
      BY <1>0, <1>8, <3>1, QueueAppend DEF StreamType, QueueChunk
  <2>3. wrPc' \in [Ends -> {"idle", "reserve", "queue", "await"}]
    BY <1>0, <1>8 DEF QueueChunk, WriterType
  <2>4. wrChunk' \in [Ends -> Int]
    BY <1>0, <1>8 DEF QueueChunk, WriterType
  <2>5. wrote' \in [Ends -> Int]
    BY <1>0, <1>8 DEF QueueChunk, WriterType
  <2> QED
    BY <1>0, <2>1, <2>2, <2>3, <2>4, <2>5 DEF TypeOK, StreamType, ConnType, WriterType, ReaderType,
       CloserType, LoopType, connVars, readerVars, closerVars, loopVars
<1>9. ASSUME NEW e \in Ends, ChunkDone(e) PROVE TypeOK'
  <2>1. UNCHANGED <<streamVars, connVars, readerVars, closerVars, loopVars, offered, cancels,
                    reserved, wrote>>
    BY <1>9 DEF ChunkDone, WriteReturns
  <2>2. wrPc' \in [Ends -> {"idle", "reserve", "queue", "await"}]
    BY <1>0, <1>9 DEF ChunkDone, WriteReturns, WriterType
  <2>3. wrWant' \in [Ends -> Int]
    BY <1>0, <1>9 DEF ChunkDone, WriteReturns, WriterType
  <2>4. wrHold' \in [Ends -> Int]
    BY <1>0, <1>9 DEF ChunkDone, WriteReturns, WriterType
  <2>5. wrChunk' \in [Ends -> Int]
    BY <1>0, <1>9 DEF ChunkDone, WriteReturns, WriterType
  <2>6. okBytes' \in [Ends -> Int]
    BY <1>0, <1>9 DEF ChunkDone, WriteReturns, WriterType
  <2> QED
    BY <1>0, <2>1, <2>2, <2>3, <2>4, <2>5, <2>6 DEF TypeOK, StreamType, ConnType, WriterType,
       ReaderType, CloserType, LoopType, streamVars, connVars, readerVars, closerVars, loopVars
<1>10. ASSUME NEW e \in Ends, WriteConnClosed(e) PROVE TypeOK'
  <2>1. UNCHANGED <<connVars, readerVars, closerVars, loopVars, state, sendWindow, recvWindow,
                    unacked, buf, eof, err, remoteClosed, outQueue, offered, cancels, okBytes,
                    reserved, wrote>>
    BY <1>10 DEF WriteConnClosed, WriteWaits, WriteReturns
  <2>2. waiting' \in [Ends -> SUBSET {"reader", "writer"}]
    BY <1>0, <1>10 DEF WriteConnClosed, WriteWaits, WriteReturns, StreamType
  <2>3. wrPc' \in [Ends -> {"idle", "reserve", "queue", "await"}]
    BY <1>0, <1>10 DEF WriteConnClosed, WriteWaits, WriteReturns, WriterType
  <2>4. wrWant' \in [Ends -> Int]
    BY <1>0, <1>10 DEF WriteConnClosed, WriteWaits, WriteReturns, WriterType
  <2>5. wrHold' \in [Ends -> Int]
    BY <1>0, <1>10 DEF WriteConnClosed, WriteWaits, WriteReturns, WriterType
  <2>6. wrChunk' \in [Ends -> Int]
    BY <1>0, <1>10 DEF WriteConnClosed, WriteWaits, WriteReturns, WriterType
  <2> QED
    BY <1>0, <2>1, <2>2, <2>3, <2>4, <2>5, <2>6 DEF TypeOK, StreamType, ConnType, WriterType,
       ReaderType, CloserType, LoopType, connVars, readerVars, closerVars, loopVars
<1>11. ASSUME NEW e \in Ends, RetireForClose(e) PROVE TypeOK'
  <2>1. UNCHANGED <<streamVars, writerVars, readerVars, loopVars, controlQueue, connClosed,
                    connErr, link, clNext>>
    BY <1>11 DEF RetireForClose
  <2>2. live' \in [Ends -> BOOLEAN]
    BY <1>0, <1>11 DEF RetireForClose, ConnType
  <2>3. clPc' \in [Ends -> {"idle", "close_write", "close_retire", "close_send", "close_reset",
                      "close_eof", "reset_retire", "reset_send"}]
    BY <1>0, <1>11 DEF RetireForClose, CloserType
  <2> QED
    BY <1>0, <2>1, <2>2, <2>3 DEF TypeOK, StreamType, ConnType, WriterType, ReaderType, CloserType,
       LoopType, streamVars, writerVars, readerVars, loopVars
<1>12. ASSUME NEW e \in Ends, SendClose(e) PROVE TypeOK'
  <2>1. UNCHANGED <<streamVars, writerVars, readerVars, loopVars, live, connClosed, connErr, link>>
    BY <1>12 DEF SendClose, SendControlFrame
  <2>2. controlQueue' \in [Ends -> Seq(Frame)]
    <3>1. CloseFrame \in Frame
      BY FrameType
    <3> QED
      BY <1>0, <1>12, <3>1, SendControlFrameType DEF SendClose
  <2>3. clPc' \in [Ends -> {"idle", "close_write", "close_retire", "close_send", "close_reset",
                      "close_eof", "reset_retire", "reset_send"}]
    BY <1>0, <1>12 DEF SendClose, SendControlFrame, CloserType
  <2>4. clNext' \in [Ends -> {"idle", "close_reset", "close_eof"}]
    BY <1>0, <1>12 DEF SendClose, SendControlFrame, CloserType
  <2> QED
    BY <1>0, <2>1, <2>2, <2>3, <2>4 DEF TypeOK, StreamType, ConnType, WriterType, ReaderType,
       CloserType, LoopType, streamVars, writerVars, readerVars, loopVars
<1>13. ASSUME NEW e \in Ends, RetireForReset(e) PROVE TypeOK'
  <2>1. UNCHANGED <<streamVars, writerVars, readerVars, loopVars, controlQueue, connClosed,
                    connErr, link, clNext>>
    BY <1>13 DEF RetireForReset
  <2>2. live' \in [Ends -> BOOLEAN]
    BY <1>0, <1>13 DEF RetireForReset, ConnType
  <2>3. clPc' \in [Ends -> {"idle", "close_write", "close_retire", "close_send", "close_reset",
                      "close_eof", "reset_retire", "reset_send"}]
    BY <1>0, <1>13 DEF RetireForReset, CloserType
  <2> QED
    BY <1>0, <2>1, <2>2, <2>3 DEF TypeOK, StreamType, ConnType, WriterType, ReaderType, CloserType,
       LoopType, streamVars, writerVars, readerVars, loopVars
<1>14. ASSUME NEW e \in Ends, SendReset(e) PROVE TypeOK'
  <2>1. UNCHANGED <<streamVars, writerVars, readerVars, loopVars, live, connClosed, connErr, link,
                    clNext>>
    BY <1>14 DEF SendReset, SendControlFrame
  <2>2. controlQueue' \in [Ends -> Seq(Frame)]
    <3>1. ResetFrame("CANCEL") \in Frame
      BY FrameType
    <3> QED
      BY <1>0, <1>14, <3>1, SendControlFrameType DEF SendReset
  <2>3. clPc' \in [Ends -> {"idle", "close_write", "close_retire", "close_send", "close_reset",
                      "close_eof", "reset_retire", "reset_send"}]
    BY <1>0, <1>14 DEF SendReset, SendControlFrame, CloserType
  <2> QED
    BY <1>0, <2>1, <2>2, <2>3 DEF TypeOK, StreamType, ConnType, WriterType, ReaderType, CloserType,
       LoopType, streamVars, writerVars, readerVars, loopVars
<1>15. ASSUME NEW e \in Ends, CloseCloseWrite(e) PROVE TypeOK'
  <2>1. UNCHANGED <<connVars, writerVars, readerVars, loopVars, sendWindow, recvWindow, unacked,
                    buf, eof, err, remoteClosed, outQueue>>
    BY <1>15 DEF CloseCloseWrite, CloseWriteLocked, Sendable, NotifyLocked
  <2>2. state' \in [Ends -> States]
    BY <1>0, <1>15 DEF CloseCloseWrite, CloseWriteLocked, Sendable, NotifyLocked, StreamType
  <2>3. waiting' \in [Ends -> SUBSET {"reader", "writer"}]
    BY <1>0, <1>15 DEF CloseCloseWrite, CloseWriteLocked, Sendable, NotifyLocked, StreamType
  <2>4. clPc' \in [Ends -> {"idle", "close_write", "close_retire", "close_send", "close_reset",
                      "close_eof", "reset_retire", "reset_send"}]
    BY <1>0, <1>15 DEF CloseCloseWrite, CloseWriteLocked, Sendable, NotifyLocked, CloserType
  <2>5. clNext' \in [Ends -> {"idle", "close_reset", "close_eof"}]
    BY <1>0, <1>15 DEF CloseCloseWrite, CloseWriteLocked, Sendable, NotifyLocked, CloserType
  <2> QED
    BY <1>0, <2>1, <2>2, <2>3, <2>4, <2>5 DEF TypeOK, StreamType, ConnType, WriterType, ReaderType,
       CloserType, LoopType, connVars, writerVars, readerVars, loopVars
<1>16. ASSUME NEW e \in Ends, CloseReset(e) PROVE TypeOK'
  <2>1. UNCHANGED <<connVars, writerVars, readerVars, loopVars, sendWindow, recvWindow, unacked,
                    eof, remoteClosed, outQueue, clNext>>
    BY <1>16 DEF CloseReset, ResetLocked, NotifyLocked, streamVars
  <2>2. state' \in [Ends -> States]
    BY <1>0, <1>16 DEF CloseReset, ResetLocked, NotifyLocked, streamVars, StreamType
  <2>3. buf' \in [Ends -> Positions]
    <3>1. buf' = buf \/ buf' = [buf EXCEPT ![e] = [lo |-> buf[e].hi, hi |-> buf[e].hi]]
      BY <1>16 DEF CloseReset, ResetLocked, streamVars
    <3>2. buf \in [Ends -> Positions]
      BY <1>0 DEF StreamType
    <3> QED
      BY <1>0, <3>1, <3>2, BufType
  <2>4. err' \in [Ends -> Codes]
    BY <1>0, <1>16 DEF CloseReset, ResetLocked, NotifyLocked, streamVars, StreamType
  <2>5. waiting' \in [Ends -> SUBSET {"reader", "writer"}]
    BY <1>0, <1>16 DEF CloseReset, ResetLocked, NotifyLocked, streamVars, StreamType
  <2>6. clPc' \in [Ends -> {"idle", "close_write", "close_retire", "close_send", "close_reset",
                      "close_eof", "reset_retire", "reset_send"}]
    BY <1>0, <1>16 DEF CloseReset, ResetLocked, NotifyLocked, streamVars, CloserType
  <2> QED
    BY <1>0, <2>1, <2>2, <2>3, <2>4, <2>5, <2>6 DEF TypeOK, StreamType, ConnType, WriterType,
       ReaderType, CloserType, LoopType, connVars, writerVars, readerVars, loopVars
<1>17. ASSUME NEW e \in Ends, CloseEOF(e) PROVE TypeOK'
  <2>1. UNCHANGED <<connVars, writerVars, readerVars, loopVars, state, sendWindow, recvWindow,
                    unacked, buf, eof, remoteClosed, outQueue, clNext>>
    BY <1>17 DEF CloseEOF, NotifyLocked
  <2>2. err' \in [Ends -> Codes]
    BY <1>0, <1>17 DEF CloseEOF, NotifyLocked, StreamType
  <2>3. waiting' \in [Ends -> SUBSET {"reader", "writer"}]
    BY <1>0, <1>17 DEF CloseEOF, NotifyLocked, StreamType
  <2>4. clPc' \in [Ends -> {"idle", "close_write", "close_retire", "close_send", "close_reset",
                      "close_eof", "reset_retire", "reset_send"}]
    BY <1>0, <1>17 DEF CloseEOF, NotifyLocked, CloserType
  <2> QED
    BY <1>0, <2>1, <2>2, <2>3, <2>4 DEF TypeOK, StreamType, ConnType, WriterType, ReaderType,
       CloserType, LoopType, connVars, writerVars, readerVars, loopVars
<1>18. ASSUME NEW e \in Ends, WriteControl(e) PROVE TypeOK'
  <2>1. UNCHANGED <<streamVars, writerVars, readerVars, closerVars, loopVars, live, connClosed,
                    connErr>>
    BY <1>18 DEF WriteControl
  <2>2. controlQueue' \in [Ends -> Seq(Frame)]
    BY <1>0, <1>18, QueueTail DEF WriteControl, ConnType
  <2>3. link' \in [Ends -> Seq(Frame)]
    BY <1>0, <1>18, QueueAppend, QueueTail DEF WriteControl, ConnType
  <2> QED
    BY <1>0, <2>1, <2>2, <2>3 DEF TypeOK, StreamType, ConnType, WriterType, ReaderType, CloserType,
       LoopType, streamVars, writerVars, readerVars, closerVars, loopVars
<1>19. ASSUME NEW e \in Ends, NextChunk(e) PROVE TypeOK'
  <2>1. UNCHANGED <<connVars, readerVars, closerVars, state, sendWindow, recvWindow, unacked, buf,
                    eof, err, remoteClosed, waiting, wrPc, wrWant, offered, cancels, okBytes,
                    reserved, wrote, rlPc, granted>>
    BY <1>19 DEF NextChunk, PopChunk, SendDone, CompleteChunk
  <2>2. outQueue' \in [Ends -> Seq(Frame)]
    BY <1>0, <1>19, QueueTail DEF NextChunk, PopChunk, SendDone, CompleteChunk, StreamType
  <2>3. wrHold' \in [Ends -> Int]
    BY <1>0, <1>19 DEF NextChunk, PopChunk, SendDone, CompleteChunk, WriterType
  <2>4. wrChunk' \in [Ends -> Int]
    BY <1>0, <1>19 DEF NextChunk, PopChunk, SendDone, CompleteChunk, WriterType
  <2>5. wlPc' \in [Ends -> {"turn", "write", "stopped"}]
    BY <1>0, <1>19 DEF NextChunk, PopChunk, SendDone, CompleteChunk, LoopType
  <2>6. held' \in [Ends -> Frame]
    <3>1. Head(outQueue[e]) \in Frame
      BY <1>0, <1>19, QueueTail DEF StreamType, NextChunk, PopChunk, SendDone
    <3>2. held' = held \/ held' = [held EXCEPT ![e] = Head(outQueue[e])]
      BY <1>19 DEF NextChunk, PopChunk, SendDone
    <3> QED
      BY <1>0, <3>1, <3>2 DEF LoopType
  <2> QED
    BY <1>0, <2>1, <2>2, <2>3, <2>4, <2>5, <2>6 DEF TypeOK, StreamType, ConnType, WriterType,
       ReaderType, CloserType, LoopType, connVars, readerVars, closerVars
<1>20. ASSUME NEW e \in Ends, WriteData(e) PROVE TypeOK'
  <2>1. UNCHANGED <<streamVars, readerVars, closerVars, live, controlQueue, connClosed, connErr,
                    wrPc, wrWant, offered, cancels, okBytes, reserved, wrote, rlPc, granted>>
    BY <1>20 DEF WriteData, CompleteChunk
  <2>2. link' \in [Ends -> Seq(Frame)]
    BY <1>0, <1>20, QueueAppend DEF WriteData, CompleteChunk, ConnType, LoopType
  <2>3. wrHold' \in [Ends -> Int]
    BY <1>0, <1>20 DEF WriteData, CompleteChunk, WriterType
  <2>4. wrChunk' \in [Ends -> Int]
    BY <1>0, <1>20 DEF WriteData, CompleteChunk, WriterType
  <2>5. wlPc' \in [Ends -> {"turn", "write", "stopped"}]
    BY <1>0, <1>20 DEF WriteData, CompleteChunk, LoopType
  <2>6. held' \in [Ends -> Frame]
    BY <1>0, <1>20, FrameType DEF WriteData, CompleteChunk, LoopType
  <2> QED
    BY <1>0, <2>1, <2>2, <2>3, <2>4, <2>5, <2>6 DEF TypeOK, StreamType, ConnType, WriterType,
       ReaderType, CloserType, LoopType, streamVars, readerVars, closerVars
<1>21. ASSUME NEW e \in Ends, WriterStops(e) PROVE TypeOK'
  <2>1. UNCHANGED <<streamVars, connVars, readerVars, closerVars, wrPc, wrWant, offered, cancels,
                    okBytes, reserved, wrote, rlPc, granted>>
    BY <1>21 DEF WriterStops, CompleteChunk
  <2>2. wrHold' \in [Ends -> Int]
    BY <1>0, <1>21 DEF WriterStops, CompleteChunk, WriterType
  <2>3. wrChunk' \in [Ends -> Int]
    BY <1>0, <1>21 DEF WriterStops, CompleteChunk, WriterType
  <2>4. wlPc' \in [Ends -> {"turn", "write", "stopped"}]
    BY <1>0, <1>21 DEF WriterStops, CompleteChunk, LoopType
  <2>5. held' \in [Ends -> Frame]
    BY <1>0, <1>21, FrameType DEF WriterStops, CompleteChunk, LoopType
  <2> QED
    BY <1>0, <2>1, <2>2, <2>3, <2>4, <2>5 DEF TypeOK, StreamType, ConnType, WriterType, ReaderType,
       CloserType, LoopType, streamVars, connVars, readerVars, closerVars
<1>22. ASSUME NEW e \in Ends, LookupLiveStream(e) PROVE TypeOK'
  <2>1. UNCHANGED <<streamVars, writerVars, readerVars, closerVars, live, controlQueue, connClosed,
                    connErr, wlPc, held, granted>>
    BY <1>22 DEF LookupLiveStream, Incoming, Consume
  <2>2. link' \in [Ends -> Seq(Frame)]
    <3>1. link \in [Ends -> Seq(Frame)] /\ Peer(e) \in Ends
      BY <1>0, PeerInEnds DEF ConnType
    <3>2. link' = link \/ (link[Peer(e)] # <<>> /\ link' = [link EXCEPT ![Peer(e)] = Tail(@)])
      BY <1>22 DEF LookupLiveStream, Incoming, Consume
    <3>3. CASE link' = link
      BY <3>1, <3>3
    <3>4. CASE link[Peer(e)] # <<>> /\ link' = [link EXCEPT ![Peer(e)] = Tail(@)]
      BY <3>1, <3>4, QueueTail
    <3> QED
      BY <3>2, <3>3, <3>4
  <2>3. rlPc' \in [Ends -> {"read", "apply", "reset", "reset_send", "stopped"}]
    BY <1>0, <1>22 DEF LookupLiveStream, Incoming, Consume, LoopType
  <2> QED
    BY <1>0, <2>1, <2>2, <2>3 DEF TypeOK, StreamType, ConnType, WriterType, ReaderType, CloserType,
       LoopType, streamVars, writerVars, readerVars, closerVars
<1>23. ASSUME NEW e \in Ends, HandleData(e) PROVE TypeOK'
  <2>1. UNCHANGED <<writerVars, readerVars, closerVars, state, sendWindow, unacked, eof, err,
                    remoteClosed, outQueue, live, controlQueue, connClosed, wlPc, held, granted>>
    BY <1>23 DEF HandleData, Incoming, Consume, FailConn, NotifyLocked, Dispatching
  <2>2. recvWindow' \in [Ends -> Int]
    <3> DEFINE k == Head(Incoming(e)).hi - Head(Incoming(e)).lo
    <3>1. k \in Int
      BY <1>0, <1>23, PeerInEnds, QueueTail, FrameType DEF ConnType, HandleData, Dispatching,
         Incoming
    <3>2. recvWindow' = recvWindow \/ recvWindow' = [recvWindow EXCEPT ![e] = @ - k]
      BY <1>23 DEF HandleData
    <3> HIDE DEF k
    <3> QED
      BY <1>0, <3>1, <3>2 DEF StreamType
  <2>3. buf' \in [Ends -> Positions]
    <3> DEFINE k == Head(Incoming(e)).hi - Head(Incoming(e)).lo
    <3>1. k \in Int
      BY <1>0, <1>23, PeerInEnds, QueueTail, FrameType DEF ConnType, HandleData, Dispatching,
         Incoming
    <3>2. buf' = buf \/ buf' = [buf EXCEPT ![e] = [lo |-> buf[e].lo, hi |-> buf[e].hi + k]]
      BY <1>23 DEF HandleData
    <3>3. buf \in [Ends -> Positions]
      BY <1>0 DEF StreamType
    <3> HIDE DEF k
    <3>4. buf[e].lo \in Int /\ buf[e].hi + k \in Int
      BY <1>0, <3>1, BufType
    <3> QED
      BY <1>0, <3>2, <3>3, <3>4, BufType
  <2>4. waiting' \in [Ends -> SUBSET {"reader", "writer"}]
    BY <1>0, <1>23 DEF HandleData, Incoming, Consume, FailConn, NotifyLocked, Dispatching,
       StreamType
  <2>5. connErr' \in [Ends -> {"none", "FLOW_CONTROL_ERROR"}]
    BY <1>0, <1>23 DEF HandleData, Incoming, Consume, FailConn, NotifyLocked, Dispatching, ConnType
  <2>6. link' \in [Ends -> Seq(Frame)]
    <3>1. link \in [Ends -> Seq(Frame)] /\ Peer(e) \in Ends
      BY <1>0, PeerInEnds DEF ConnType
    <3>2. link[Peer(e)] # <<>> /\ link' = [link EXCEPT ![Peer(e)] = Tail(@)]
      BY <1>23 DEF HandleData, Dispatching, Incoming, Consume
    <3> QED
      BY <3>1, <3>2, QueueTail
  <2>7. rlPc' \in [Ends -> {"read", "apply", "reset", "reset_send", "stopped"}]
    BY <1>0, <1>23 DEF HandleData, Incoming, Consume, FailConn, NotifyLocked, Dispatching, LoopType
  <2> QED
    BY <1>0, <2>1, <2>2, <2>3, <2>4, <2>5, <2>6, <2>7 DEF TypeOK, StreamType, ConnType, WriterType,
       ReaderType, CloserType, LoopType, writerVars, readerVars, closerVars
<1>24. ASSUME NEW e \in Ends, HandleWindow(e) PROVE TypeOK'
  <2>1. UNCHANGED <<writerVars, readerVars, closerVars, state, recvWindow, unacked, buf, eof, err,
                    remoteClosed, outQueue, live, controlQueue, connClosed, wlPc, held>>
    BY <1>24 DEF HandleWindow, Incoming, Consume, FailConn, NotifyLocked, Dispatching
  <2>2. sendWindow' \in [Ends -> Int]
    <3> DEFINE k == Head(Incoming(e)).hi - Head(Incoming(e)).lo
    <3>1. k \in Int
      BY <1>0, <1>24, PeerInEnds, QueueTail, FrameType DEF ConnType, HandleWindow, Dispatching,
         Incoming
    <3>2. sendWindow' = sendWindow \/ sendWindow' = [sendWindow EXCEPT ![e] = @ + k]
      BY <1>24 DEF HandleWindow
    <3> HIDE DEF k
    <3> QED
      BY <1>0, <3>1, <3>2 DEF StreamType
  <2>3. waiting' \in [Ends -> SUBSET {"reader", "writer"}]
    BY <1>0, <1>24 DEF HandleWindow, Incoming, Consume, FailConn, NotifyLocked, Dispatching,
       StreamType
  <2>4. connErr' \in [Ends -> {"none", "FLOW_CONTROL_ERROR"}]
    BY <1>0, <1>24 DEF HandleWindow, Incoming, Consume, FailConn, NotifyLocked, Dispatching,
       ConnType
  <2>5. link' \in [Ends -> Seq(Frame)]
    <3>1. link \in [Ends -> Seq(Frame)] /\ Peer(e) \in Ends
      BY <1>0, PeerInEnds DEF ConnType
    <3>2. link[Peer(e)] # <<>> /\ link' = [link EXCEPT ![Peer(e)] = Tail(@)]
      BY <1>24 DEF HandleWindow, Dispatching, Incoming, Consume
    <3> QED
      BY <3>1, <3>2, QueueTail
  <2>6. rlPc' \in [Ends -> {"read", "apply", "reset", "reset_send", "stopped"}]
    BY <1>0, <1>24 DEF HandleWindow, Incoming, Consume, FailConn, NotifyLocked, Dispatching,
       LoopType
  <2>7. granted' \in [Ends -> Int]
    <3> DEFINE k == Head(Incoming(e)).hi - Head(Incoming(e)).lo
    <3>1. k \in Int
      BY <1>0, <1>24, PeerInEnds, QueueTail, FrameType DEF ConnType, HandleWindow, Dispatching,
         Incoming
    <3>2. granted' = granted \/ granted' = [granted EXCEPT ![e] = @ + k]
      BY <1>24 DEF HandleWindow
    <3> HIDE DEF k
    <3> QED
      BY <1>0, <3>1, <3>2 DEF LoopType
  <2> QED
    BY <1>0, <2>1, <2>2, <2>3, <2>4, <2>5, <2>6, <2>7 DEF TypeOK, StreamType, ConnType, WriterType,
       ReaderType, CloserType, LoopType, writerVars, readerVars, closerVars
<1>25. ASSUME NEW e \in Ends, HandleClose(e) PROVE TypeOK'
  <2>1. UNCHANGED <<writerVars, readerVars, closerVars, sendWindow, recvWindow, unacked, buf, err,
                    outQueue, controlQueue, connClosed, connErr, wlPc, held, granted>>
    BY <1>25 DEF HandleClose, Incoming, Consume, NotifyLocked, BufLen, Dispatching
  <2>2. state' \in [Ends -> States]
    BY <1>0, <1>25 DEF HandleClose, Incoming, Consume, NotifyLocked, BufLen, Dispatching, StreamType
  <2>3. eof' \in [Ends -> BOOLEAN]
    BY <1>0, <1>25 DEF HandleClose, Incoming, Consume, NotifyLocked, BufLen, Dispatching, StreamType
  <2>4. remoteClosed' \in [Ends -> BOOLEAN]
    BY <1>0, <1>25 DEF HandleClose, Incoming, Consume, NotifyLocked, BufLen, Dispatching, StreamType
  <2>5. waiting' \in [Ends -> SUBSET {"reader", "writer"}]
    BY <1>0, <1>25 DEF HandleClose, Incoming, Consume, NotifyLocked, BufLen, Dispatching, StreamType
  <2>6. live' \in [Ends -> BOOLEAN]
    BY <1>0, <1>25 DEF HandleClose, Incoming, Consume, NotifyLocked, BufLen, Dispatching, ConnType
  <2>7. link' \in [Ends -> Seq(Frame)]
    <3>1. link \in [Ends -> Seq(Frame)] /\ Peer(e) \in Ends
      BY <1>0, PeerInEnds DEF ConnType
    <3>2. link[Peer(e)] # <<>> /\ link' = [link EXCEPT ![Peer(e)] = Tail(@)]
      BY <1>25 DEF HandleClose, Dispatching, Incoming, Consume
    <3> QED
      BY <3>1, <3>2, QueueTail
  <2>8. rlPc' \in [Ends -> {"read", "apply", "reset", "reset_send", "stopped"}]
    BY <1>0, <1>25 DEF HandleClose, Incoming, Consume, NotifyLocked, BufLen, Dispatching, LoopType
  <2> QED
    BY <1>0, <2>1, <2>2, <2>3, <2>4, <2>5, <2>6, <2>7, <2>8 DEF TypeOK, StreamType, ConnType,
       WriterType, ReaderType, CloserType, LoopType, writerVars, readerVars, closerVars
<1>26. ASSUME NEW e \in Ends, HandleReset(e) PROVE TypeOK'
  <2>1. UNCHANGED <<writerVars, readerVars, closerVars, sendWindow, recvWindow, unacked, eof,
                    remoteClosed, outQueue, controlQueue, connClosed, connErr, wlPc, held, granted>>
    BY <1>26 DEF HandleReset, Incoming, Consume, ApplyReset, NotifyLocked, Dispatching
  <2>2. state' \in [Ends -> States]
    BY <1>0, <1>26 DEF HandleReset, Incoming, Consume, ApplyReset, NotifyLocked, Dispatching,
       StreamType
  <2>3. buf' \in [Ends -> Positions]
    <3>1. buf' = buf \/ buf' = [buf EXCEPT ![e] = [lo |-> buf[e].hi, hi |-> buf[e].hi]]
      BY <1>26 DEF HandleReset, ApplyReset
    <3>2. buf \in [Ends -> Positions]
      BY <1>0 DEF StreamType
    <3> QED
      BY <1>0, <3>1, <3>2, BufType
  <2>4. err' \in [Ends -> Codes]
    BY <1>0, <1>26, PeerInEnds, QueueAppend, QueueTail, FrameType DEF HandleReset, Incoming,
       Consume, ApplyReset, NotifyLocked, Dispatching, StreamType, ConnType
  <2>5. waiting' \in [Ends -> SUBSET {"reader", "writer"}]
    BY <1>0, <1>26 DEF HandleReset, Incoming, Consume, ApplyReset, NotifyLocked, Dispatching,
       StreamType
  <2>6. live' \in [Ends -> BOOLEAN]
    BY <1>0, <1>26 DEF HandleReset, Incoming, Consume, ApplyReset, NotifyLocked, Dispatching,
       ConnType
  <2>7. link' \in [Ends -> Seq(Frame)]
    <3>1. link \in [Ends -> Seq(Frame)] /\ Peer(e) \in Ends
      BY <1>0, PeerInEnds DEF ConnType
    <3>2. link[Peer(e)] # <<>> /\ link' = [link EXCEPT ![Peer(e)] = Tail(@)]
      BY <1>26 DEF HandleReset, Dispatching, Incoming, Consume
    <3> QED
      BY <3>1, <3>2, QueueTail
  <2>8. rlPc' \in [Ends -> {"read", "apply", "reset", "reset_send", "stopped"}]
    BY <1>0, <1>26 DEF HandleReset, Incoming, Consume, ApplyReset, NotifyLocked, Dispatching,
       LoopType
  <2> QED
    BY <1>0, <2>1, <2>2, <2>3, <2>4, <2>5, <2>6, <2>7, <2>8 DEF TypeOK, StreamType, ConnType,
       WriterType, ReaderType, CloserType, LoopType, writerVars, readerVars, closerVars
<1>27. ASSUME NEW e \in Ends, ResetStream(e) PROVE TypeOK'
  <2>1. UNCHANGED <<writerVars, readerVars, closerVars, sendWindow, recvWindow, unacked, eof,
                    remoteClosed, outQueue, controlQueue, connClosed, connErr, link, wlPc, held,
                    granted>>
    BY <1>27 DEF ResetStream, ApplyReset, NotifyLocked
  <2>2. state' \in [Ends -> States]
    BY <1>0, <1>27 DEF ResetStream, ApplyReset, NotifyLocked, StreamType
  <2>3. buf' \in [Ends -> Positions]
    <3>1. buf' = buf \/ buf' = [buf EXCEPT ![e] = [lo |-> buf[e].hi, hi |-> buf[e].hi]]
      BY <1>27 DEF ResetStream, ApplyReset
    <3>2. buf \in [Ends -> Positions]
      BY <1>0 DEF StreamType
    <3> QED
      BY <1>0, <3>1, <3>2, BufType
  <2>4. err' \in [Ends -> Codes]
    BY <1>0, <1>27 DEF ResetStream, ApplyReset, NotifyLocked, StreamType
  <2>5. waiting' \in [Ends -> SUBSET {"reader", "writer"}]
    BY <1>0, <1>27 DEF ResetStream, ApplyReset, NotifyLocked, StreamType
  <2>6. live' \in [Ends -> BOOLEAN]
    BY <1>0, <1>27 DEF ResetStream, ApplyReset, NotifyLocked, ConnType
  <2>7. rlPc' \in [Ends -> {"read", "apply", "reset", "reset_send", "stopped"}]
    BY <1>0, <1>27 DEF ResetStream, ApplyReset, NotifyLocked, LoopType
  <2> QED
    BY <1>0, <2>1, <2>2, <2>3, <2>4, <2>5, <2>6, <2>7 DEF TypeOK, StreamType, ConnType, WriterType,
       ReaderType, CloserType, LoopType, writerVars, readerVars, closerVars
<1>28. ASSUME NEW e \in Ends, SendResetStream(e) PROVE TypeOK'
  <2>1. UNCHANGED <<streamVars, writerVars, readerVars, closerVars, live, connClosed, connErr,
                    link, wlPc, held, granted>>
    BY <1>28 DEF SendResetStream, SendControlFrame
  <2>2. controlQueue' \in [Ends -> Seq(Frame)]
    <3>1. ResetFrame("STREAM_CLOSED") \in Frame
      BY FrameType
    <3> QED
      BY <1>0, <1>28, <3>1, SendControlFrameType DEF SendResetStream
  <2>3. rlPc' \in [Ends -> {"read", "apply", "reset", "reset_send", "stopped"}]
    BY <1>0, <1>28 DEF SendResetStream, SendControlFrame, LoopType
  <2> QED
    BY <1>0, <2>1, <2>2, <2>3 DEF TypeOK, StreamType, ConnType, WriterType, ReaderType, CloserType,
       LoopType, streamVars, writerVars, readerVars, closerVars
<1>29. ASSUME NEW e \in Ends, ReaderStops(e) PROVE TypeOK'
  <2>1. UNCHANGED <<streamVars, connVars, writerVars, readerVars, closerVars, wlPc, held, granted>>
    BY <1>29 DEF ReaderStops
  <2>2. rlPc' \in [Ends -> {"read", "apply", "reset", "reset_send", "stopped"}]
    BY <1>0, <1>29 DEF ReaderStops, LoopType
  <2> QED
    BY <1>0, <2>1, <2>2 DEF TypeOK, StreamType, ConnType, WriterType, ReaderType, CloserType,
       LoopType, streamVars, connVars, writerVars, readerVars, closerVars
<1>30. ASSUME NEW e \in Ends, CancelWrite(e) PROVE TypeOK'
  <2>1. UNCHANGED <<connVars, readerVars, closerVars, loopVars, state, sendWindow, recvWindow,
                    unacked, buf, eof, err, remoteClosed, outQueue, offered, okBytes, reserved,
                    wrote>>
    BY <1>30 DEF CancelWrite, WriteReturns
  <2>2. waiting' \in [Ends -> SUBSET {"reader", "writer"}]
    BY <1>0, <1>30 DEF CancelWrite, WriteReturns, StreamType
  <2>3. wrPc' \in [Ends -> {"idle", "reserve", "queue", "await"}]
    BY <1>0, <1>30 DEF CancelWrite, WriteReturns, WriterType
  <2>4. wrWant' \in [Ends -> Int]
    BY <1>0, <1>30 DEF CancelWrite, WriteReturns, WriterType
  <2>5. wrHold' \in [Ends -> Int]
    BY <1>0, <1>30 DEF CancelWrite, WriteReturns, WriterType
  <2>6. wrChunk' \in [Ends -> Int]
    BY <1>0, <1>30 DEF CancelWrite, WriteReturns, WriterType
  <2>7. cancels' \in [Ends -> Int]
    BY <1>0, <1>30 DEF CancelWrite, WriteReturns, WriterType
  <2> QED
    BY <1>0, <2>1, <2>2, <2>3, <2>4, <2>5, <2>6, <2>7 DEF TypeOK, StreamType, ConnType, WriterType,
       ReaderType, CloserType, LoopType, connVars, readerVars, closerVars, loopVars
<1>31. ASSUME NEW e \in Ends, CloseWrite(e) PROVE TypeOK'
  <2>1. UNCHANGED <<connVars, writerVars, readerVars, loopVars, sendWindow, recvWindow, unacked,
                    buf, eof, err, remoteClosed, outQueue>>
    BY <1>31 DEF CloseWrite, CloseWriteLocked, Sendable, NotifyLocked
  <2>2. state' \in [Ends -> States]
    BY <1>0, <1>31 DEF CloseWrite, CloseWriteLocked, Sendable, NotifyLocked, StreamType
  <2>3. waiting' \in [Ends -> SUBSET {"reader", "writer"}]
    BY <1>0, <1>31 DEF CloseWrite, CloseWriteLocked, Sendable, NotifyLocked, StreamType
  <2>4. clPc' \in [Ends -> {"idle", "close_write", "close_retire", "close_send", "close_reset",
                      "close_eof", "reset_retire", "reset_send"}]
    BY <1>0, <1>31 DEF CloseWrite, CloseWriteLocked, Sendable, NotifyLocked, CloserType
  <2>5. clNext' \in [Ends -> {"idle", "close_reset", "close_eof"}]
    BY <1>0, <1>31 DEF CloseWrite, CloseWriteLocked, Sendable, NotifyLocked, CloserType
  <2> QED
    BY <1>0, <2>1, <2>2, <2>3, <2>4, <2>5 DEF TypeOK, StreamType, ConnType, WriterType, ReaderType,
       CloserType, LoopType, connVars, writerVars, readerVars, loopVars
<1>32. ASSUME NEW e \in Ends, Reset(e) PROVE TypeOK'
  <2>1. UNCHANGED <<connVars, writerVars, readerVars, loopVars, sendWindow, recvWindow, unacked,
                    eof, remoteClosed, outQueue, clNext>>
    BY <1>32 DEF Reset, ResetLocked, NotifyLocked, streamVars
  <2>2. state' \in [Ends -> States]
    BY <1>0, <1>32 DEF Reset, ResetLocked, NotifyLocked, streamVars, StreamType
  <2>3. buf' \in [Ends -> Positions]
    <3>1. buf' = buf \/ buf' = [buf EXCEPT ![e] = [lo |-> buf[e].hi, hi |-> buf[e].hi]]
      BY <1>32 DEF Reset, ResetLocked, streamVars
    <3>2. buf \in [Ends -> Positions]
      BY <1>0 DEF StreamType
    <3> QED
      BY <1>0, <3>1, <3>2, BufType
  <2>4. err' \in [Ends -> Codes]
    BY <1>0, <1>32 DEF Reset, ResetLocked, NotifyLocked, streamVars, StreamType
  <2>5. waiting' \in [Ends -> SUBSET {"reader", "writer"}]
    BY <1>0, <1>32 DEF Reset, ResetLocked, NotifyLocked, streamVars, StreamType
  <2>6. clPc' \in [Ends -> {"idle", "close_write", "close_retire", "close_send", "close_reset",
                      "close_eof", "reset_retire", "reset_send"}]
    BY <1>0, <1>32 DEF Reset, ResetLocked, NotifyLocked, streamVars, CloserType
  <2> QED
    BY <1>0, <2>1, <2>2, <2>3, <2>4, <2>5, <2>6 DEF TypeOK, StreamType, ConnType, WriterType,
       ReaderType, CloserType, LoopType, connVars, writerVars, readerVars, loopVars
<1>33. ASSUME NEW e \in Ends, Close(e) PROVE TypeOK'
  <2>1. UNCHANGED <<streamVars, connVars, writerVars, readerVars, loopVars>>
    BY <1>33 DEF Close
  <2>2. clPc' \in [Ends -> {"idle", "close_write", "close_retire", "close_send", "close_reset",
                      "close_eof", "reset_retire", "reset_send"}]
    BY <1>0, <1>33 DEF Close, CloserType
  <2>3. clNext' \in [Ends -> {"idle", "close_reset", "close_eof"}]
    BY <1>0, <1>33 DEF Close, CloserType
  <2> QED
    BY <1>0, <2>1, <2>2, <2>3 DEF TypeOK, StreamType, ConnType, WriterType, ReaderType,
       CloserType, LoopType, streamVars, connVars, writerVars, readerVars, loopVars
<1>34. ASSUME NEW e \in Ends, ConnEnds(e) PROVE TypeOK'
  <2>1. UNCHANGED <<streamVars, writerVars, readerVars, closerVars, loopVars, live, controlQueue,
                    connErr, link>>
    BY <1>34 DEF ConnEnds
  <2>2. connClosed' \in [Ends -> BOOLEAN]
    BY <1>0, <1>34 DEF ConnEnds, ConnType
  <2> QED
    BY <1>0, <2>1, <2>2 DEF TypeOK, StreamType, ConnType, WriterType, ReaderType, CloserType,
       LoopType, streamVars, writerVars, readerVars, closerVars, loopVars
<1>35. CASE UNCHANGED vars
  BY <1>0, <1>35 DEF TypeOK, vars, StreamType, streamVars, ConnType, connVars, WriterType,
     writerVars, ReaderType, readerVars, CloserType, closerVars, LoopType, loopVars
<1> QED
  BY <1>1, <1>2, <1>3, <1>4, <1>5, <1>6, <1>7, <1>8, <1>9, <1>10, <1>11, <1>12, <1>13, <1>14,
     <1>15, <1>16, <1>17, <1>18, <1>19, <1>20, <1>21, <1>22, <1>23, <1>24, <1>25, <1>26, <1>27, <1>28, <1>29, <1>30, <1>31, <1>32, <1>33, <1>34, <1>35
     DEF Next, AppReads, WriteSteps, CloseSteps, WriterLoop, ReaderLoop, AppCalls

\* Type correctness: every variable keeps its type in every behaviour.
THEOREM TypeCorrect == Spec => []TypeOK
  BY TypeInit, TypeStep, PTL DEF Spec
-----------------------------------------------------------------------------
(* Flow control.  One lemma per action shows that a step of end e keeps     *)
(* FlowAt(d) for either end d: first what the action leaves alone and what  *)
(* it changes, then each conjunct of FlowAt.  Bounds is the chain of        *)
(* inequalities the whole argument rests on.                                *)

\* Counters and positions are integers, queues are sequences of frames.
LEMMA Ints ==
  ASSUME TypeOK, NEW d \in Ends
  PROVE  /\ sendWindow[d] \in Int /\ recvWindow[d] \in Int /\ unacked[d] \in Int
         /\ buf[d].lo \in Int /\ buf[d].hi \in Int
         /\ wrWant[d] \in Int /\ wrHold[d] \in Int /\ reserved[d] \in Int /\ wrote[d] \in Int
         /\ rdHand[d] \in Int /\ credited[d] \in Int /\ granted[d] \in Int
         /\ held[d] \in Frame /\ held[d].lo \in Int /\ held[d].hi \in Int
         /\ outQueue[d] \in Seq(Frame) /\ controlQueue[d] \in Seq(Frame) /\ link[d] \in Seq(Frame)
         /\ Window[d] \in Int /\ Window[d] > 0 /\ Window[d] <= MaxSendWindow /\ MaxSendWindow \in Int
<1>1. StreamType /\ ConnType /\ WriterType /\ ReaderType /\ LoopType
  BY DEF TypeOK
<1>2. sendWindow[d] \in Int /\ recvWindow[d] \in Int /\ unacked[d] \in Int /\ outQueue[d] \in Seq(Frame)
  BY <1>1 DEF StreamType
<1>3. buf[d].lo \in Int /\ buf[d].hi \in Int
  BY <1>1, BufType
<1>4. wrWant[d] \in Int /\ wrHold[d] \in Int /\ reserved[d] \in Int /\ wrote[d] \in Int
  BY <1>1 DEF WriterType
<1>5. rdHand[d] \in Int /\ credited[d] \in Int
  BY <1>1 DEF ReaderType
<1>6. granted[d] \in Int /\ held[d] \in Frame
  BY <1>1 DEF LoopType
<1>7. controlQueue[d] \in Seq(Frame) /\ link[d] \in Seq(Frame)
  BY <1>1 DEF ConnType
<1>8. Window[d] \in Int /\ Window[d] > 0 /\ Window[d] <= MaxSendWindow /\ MaxSendWindow \in Int
  BY StreamAssumption
<1> QED
  BY <1>2, <1>3, <1>4, <1>5, <1>6, <1>7, <1>8, FrameType

\* Appending the next range keeps a queue ordered.
LEMMA OrderedAppend ==
  ASSUME NEW q \in Seq(Frame), NEW T, NEW a \in Int, NEW b \in Int, NEW c \in Int, NEW f \in Frame,
         Ordered(q, T, a, b),
         f.type = T, b <= f.lo, f.lo <= f.hi, f.hi <= c
  PROVE  Ordered(Append(q, f), T, a, c)
<1> DEFINE r == Append(q, f)
<1>1. /\ Len(r) = Len(q) + 1 /\ Len(q) \in Nat
      /\ r[Len(q) + 1] = f
      /\ \A i \in 1..Len(q) : r[i] = q[i] /\ q[i] \in Frame
  OBVIOUS
<1>2. \A g \in Frame : g.lo \in Int /\ g.hi \in Int
  BY FrameType
<1> HIDE DEF r
<1>3. \A i \in 1..Len(r) : i \in 1..Len(q) \/ i = Len(q) + 1
  BY <1>1
<1>4. a <= c
  BY <1>2 DEF Ordered
<1>5. \A i \in 1..Len(r) : r[i].type = T => a <= r[i].lo /\ r[i].lo <= r[i].hi /\ r[i].hi <= c
  BY <1>1, <1>2, <1>3 DEF Ordered
<1>6. \A i, j \in 1..Len(r) : i < j /\ r[i].type = T /\ r[j].type = T => r[i].hi <= r[j].lo
  <2> SUFFICES ASSUME NEW i \in 1..Len(r), NEW j \in 1..Len(r), i < j, r[i].type = T, r[j].type = T
               PROVE  r[i].hi <= r[j].lo
    OBVIOUS
  <2>1. i \in 1..Len(q) /\ r[i] = q[i] /\ q[i].hi \in Int /\ q[i].hi <= b
    BY <1>1, <1>2, <1>3 DEF Ordered
  <2>2. CASE j = Len(q) + 1
    BY <1>1, <1>2, <2>1, <2>2
  <2>3. CASE j \in 1..Len(q)
    BY <1>1, <2>1, <2>3 DEF Ordered
  <2> QED
    BY <1>3, <2>2, <2>3
<1> QED
  BY <1>4, <1>5, <1>6 DEF Ordered, r

\* So does appending a frame of another type.
LEMMA OrderedSkip ==
  ASSUME NEW q \in Seq(Frame), NEW T, NEW a \in Int, NEW b \in Int, NEW f \in Frame,
         Ordered(q, T, a, b), f.type # T
  PROVE  Ordered(Append(q, f), T, a, b)
<1> DEFINE r == Append(q, f)
<1>1. /\ Len(r) = Len(q) + 1 /\ Len(q) \in Nat
      /\ r[Len(q) + 1] = f
      /\ \A i \in 1..Len(q) : r[i] = q[i]
  OBVIOUS
<1> HIDE DEF r
<1>3. \A i \in 1..Len(r) : i \in 1..Len(q) \/ i = Len(q) + 1
  BY <1>1
<1> QED
  BY <1>1, <1>3 DEF Ordered, r

\* So does taking the head off, which also moves the lower bound past the head.
LEMMA OrderedTail ==
  ASSUME NEW q \in Seq(Frame), NEW T, NEW a \in Int, NEW b \in Int,
         Ordered(q, T, a, b), q # <<>>
  PROVE  /\ Ordered(Tail(q), T, a, b)
         /\ Head(q).type = T =>
              /\ Ordered(Tail(q), T, Head(q).hi, b)
              /\ a <= Head(q).lo /\ Head(q).lo <= Head(q).hi /\ Head(q).hi <= b
<1> DEFINE r == Tail(q)
<1>1. /\ Len(q) \in Nat /\ Len(q) > 0 /\ Len(r) = Len(q) - 1
      /\ Head(q) = q[1]
      /\ \A i \in 1..Len(r) : r[i] = q[i + 1]
      /\ \A i \in 1..Len(q) : q[i] \in Frame
  OBVIOUS
<1>2. \A g \in Frame : g.lo \in Int /\ g.hi \in Int
  BY FrameType
<1> HIDE DEF r
<1>3. \A i \in 1..Len(r) : i + 1 \in 1..Len(q) /\ 1 \in 1..Len(q) /\ 1 < i + 1
  BY <1>1
<1>4. Ordered(r, T, a, b)
  <2>1. a <= b
    BY DEF Ordered
  <2>2. ASSUME NEW i \in 1..Len(r), r[i].type = T
        PROVE  a <= r[i].lo /\ r[i].lo <= r[i].hi /\ r[i].hi <= b
    <3>1. i + 1 \in 1..Len(q) /\ r[i] = q[i + 1]
      BY <1>1, <1>3
    <3> QED
      BY <2>2, <3>1 DEF Ordered
  <2>3. ASSUME NEW i \in 1..Len(r), NEW j \in 1..Len(r), i < j, r[i].type = T, r[j].type = T
        PROVE  r[i].hi <= r[j].lo
    <3>1. /\ i + 1 \in 1..Len(q) /\ r[i] = q[i + 1]
          /\ j + 1 \in 1..Len(q) /\ r[j] = q[j + 1]
          /\ i + 1 < j + 1
      BY <1>1, <1>3, <2>3
    <3> QED
      BY <2>3, <3>1 DEF Ordered
  <2> QED
    BY <2>1, <2>2, <2>3 DEF Ordered
<1>5. ASSUME Head(q).type = T
      PROVE  a <= Head(q).lo /\ Head(q).lo <= Head(q).hi /\ Head(q).hi <= b
  BY <1>1, <1>5 DEF Ordered
<1>6. ASSUME Head(q).type = T
      PROVE  Ordered(r, T, Head(q).hi, b)
  <2>1. \A i \in 1..Len(r) : r[i].type = T => Head(q).hi <= r[i].lo
    BY <1>1, <1>3, <1>6 DEF Ordered
  <2> QED
    BY <1>4, <1>5, <1>6, <2>1 DEF Ordered
<1> QED
  BY <1>4, <1>5, <1>6 DEF r

\* The bounds of an ordered queue may be widened.
LEMMA OrderedWiden ==
  ASSUME NEW q \in Seq(Frame), NEW T, NEW a \in Int, NEW b \in Int, NEW c \in Int, NEW d \in Int,
         Ordered(q, T, a, b), c <= a, b <= d
  PROVE  Ordered(q, T, c, d)
<1>1. \A i \in 1..Len(q) : q[i] \in Frame
  OBVIOUS
<1>2. \A g \in Frame : g.lo \in Int /\ g.hi \in Int
  BY FrameType
<1> QED
  BY <1>1, <1>2 DEF Ordered

\* A queue of DATA frames, or of none, stays one when such a frame is appended.
LEMMA AppendAll ==
  ASSUME NEW q \in Seq(Frame), NEW f \in Frame
  PROVE  /\ (\A i \in 1..Len(q) : q[i].type # "DATA") /\ f.type # "DATA"
              => \A i \in 1..Len(Append(q, f)) : Append(q, f)[i].type # "DATA"
         /\ (\A i \in 1..Len(q) : q[i].type = "DATA") /\ f.type = "DATA"
              => \A i \in 1..Len(Append(q, f)) : Append(q, f)[i].type = "DATA"
<1> DEFINE r == Append(q, f)
<1>1. /\ Len(r) = Len(q) + 1 /\ Len(q) \in Nat
      /\ r[Len(q) + 1] = f
      /\ \A i \in 1..Len(q) : r[i] = q[i]
  OBVIOUS
<1> HIDE DEF r
<1>2. \A i \in 1..Len(r) : i \in 1..Len(q) \/ i = Len(q) + 1
  BY <1>1
<1> QED
  BY <1>1, <1>2 DEF r

\* And when its head is taken off.
LEMMA TailAll ==
  ASSUME NEW q \in Seq(Frame), q # <<>>
  PROVE  /\ (\A i \in 1..Len(q) : q[i].type # "DATA")
              => Head(q).type # "DATA" /\ \A i \in 1..Len(Tail(q)) : Tail(q)[i].type # "DATA"
         /\ (\A i \in 1..Len(q) : q[i].type = "DATA")
              => Head(q).type = "DATA" /\ \A i \in 1..Len(Tail(q)) : Tail(q)[i].type = "DATA"
<1> DEFINE r == Tail(q)
<1>1. /\ Len(q) \in Nat /\ Len(q) > 0 /\ Len(r) = Len(q) - 1
      /\ Head(q) = q[1]
      /\ \A i \in 1..Len(r) : r[i] = q[i + 1]
  OBVIOUS
<1> HIDE DEF r
<1>2. 1 \in 1..Len(q) /\ \A i \in 1..Len(r) : i + 1 \in 1..Len(q)
  BY <1>1
<1> QED
  BY <1>1, <1>2 DEF r

\* What the frame constructors put in a frame.
LEMMA FrameFields ==
  /\ \A a, b \in Int :
       /\ DataFrame(a, b).type = "DATA" /\ DataFrame(a, b).lo = a /\ DataFrame(a, b).hi = b
       /\ WindowFrame(a, b).type = "WINDOW" /\ WindowFrame(a, b).lo = a /\ WindowFrame(a, b).hi = b
  /\ NoChunk.type = "DATA"
  BY DEF DataFrame, WindowFrame, NoChunk

\* What min(a, b) is bounded by.
LEMMA MinBounds ==
  ASSUME NEW a \in Int, NEW b \in Int
  PROVE  Min2(a, b) \in Int /\ Min2(a, b) <= a /\ Min2(a, b) <= b /\ (a >= 0 /\ b >= 0 => Min2(a, b) >= 0)
  BY DEF Min2

\* The positions that bound the data pipe and the credit pipe.
PipeEnds == \A d \in Ends :
  /\ buf[d].hi \in Int /\ wrote[d] \in Int /\ credited[d] \in Int /\ granted[d] \in Int
  /\ held[d].lo \in Int /\ held[d].hi \in Int /\ rdHand[d] \in Int

\* The positions that bound the two pipes are integers, now and after a step.
LEMMA PipeEndsInt == TypeOK => PipeEnds
  BY Ints DEF PipeEnds

\* The same after a step.
LEMMA PipeEndsIntNext == TypeOK' => PipeEnds'
  BY PipeEndsInt, PTL

\* The data pipe's boundary is an integer...
LEMMA DataPick ==
  ASSUME TypeOK, NEW d \in Ends, DataInOrder(d)
  PROVE  \E m \in Int : DataPipe(d, m)
<1>1. buf[Peer(d)].hi \in Int /\ wrote[d] \in Int
  BY PipeEndsInt, PeerInEnds DEF PipeEnds
<1> QED
  BY <1>1 DEF DataInOrder

\* ...and any integer boundary will do.
LEMMA DataWitness ==
  ASSUME TypeOK', NEW d \in Ends, NEW m \in Int, DataPipe(d, m)'
  PROVE  DataInOrder(d)'
<1>1. buf'[Peer(d)].hi \in Int /\ wrote'[d] \in Int /\ held'[d].lo \in Int /\ held'[d].hi \in Int
  BY PipeEndsIntNext, PeerInEnds DEF PipeEnds
<1>2. buf'[Peer(d)].hi <= m
  BY DEF DataPipe, Ordered
<1>3. m <= wrote'[d]
  BY <1>1 DEF DataPipe, Ordered
<1> QED
  BY <1>1, <1>2, <1>3 DEF DataInOrder

\* The same for the credit pipe.
LEMMA CreditPick ==
  ASSUME TypeOK, NEW d \in Ends, CreditInOrder(d)
  PROVE  \E m \in Int : CreditPipe(d, m)
<1>1. granted[Peer(d)] \in Int /\ credited[d] \in Int
  BY PipeEndsInt, PeerInEnds DEF PipeEnds
<1> QED
  BY <1>1 DEF CreditInOrder

\* An integer boundary of the credit pipe after a step shows it to be in order.
LEMMA CreditWitness ==
  ASSUME TypeOK', NEW d \in Ends, NEW m \in Int, CreditPipe(d, m)', ReadAccounts(d)'
  PROVE  CreditInOrder(d)'
<1>1. granted'[Peer(d)] \in Int /\ credited'[d] \in Int /\ rdHand'[d] \in Int
  BY PipeEndsIntNext, PeerInEnds DEF PipeEnds
<1>2. granted'[Peer(d)] <= m
  BY DEF CreditPipe, Ordered
<1>3. rdHand'[d] >= 0
  BY DEF ReadAccounts
<1>4. m <= credited'[d]
  BY <1>1, <1>3 DEF CreditPipe, Ordered, Unsent
<1> QED
  BY <1>1, <1>2, <1>4 DEF CreditInOrder

\* A step that leaves an end's data pipe alone keeps it in order.
LEMMA DataSame ==
  ASSUME TypeOK, TypeOK', NEW d \in Ends, DataInOrder(d),
         link'[d] = link[d], buf'[Peer(d)].hi = buf[Peer(d)].hi, wlPc'[d] = wlPc[d],
         held'[d] = held[d], outQueue'[d] = outQueue[d], wrote'[d] = wrote[d]
  PROVE  DataInOrder(d)'
<1>1. PICK m \in Int : DataPipe(d, m)
  BY DataPick
<1>2. DataPipe(d, m)'
  BY <1>1 DEF DataPipe, Ordered
<1> QED
  BY <1>2, DataWitness

\* A step that leaves an end's credit pipe alone keeps it in order.
LEMMA CreditSame ==
  ASSUME TypeOK, TypeOK', NEW d \in Ends, CreditInOrder(d), ReadAccounts(d)',
         link'[d] = link[d], granted'[Peer(d)] = granted[Peer(d)],
         controlQueue'[d] = controlQueue[d],
         credited'[d] - Unsent(d)' = credited[d] - Unsent(d)
  PROVE  CreditInOrder(d)'
<1>1. PICK m \in Int : CreditPipe(d, m)
  BY CreditPick
<1>2. CreditPipe(d, m)'
  BY <1>1 DEF CreditPipe, Ordered
<1> QED
  BY <1>2, CreditWitness

\* A Read takes bytes out of the buffer: they are accounted for later, by creditConsumed.
LEMMA ReadDataFlow ==
  ASSUME TypeOK, TypeOK', FlowInv, NEW e \in Ends, NEW p \in ReadSizes, ReadData(e, p), NEW d \in Ends
  PROVE  FlowAt(d)'
<1>1. FlowAt(d) /\ FlowAt(e) /\ FlowAt(Peer(d))
  BY PeerInEnds DEF FlowInv
<1>2. StreamType /\ ConnType /\ WriterType /\ ReaderType /\ LoopType
  BY DEF TypeOK
<1>3. UNCHANGED <<connErr, controlQueue, credited, granted, held, link, outQueue, recvWindow,
                  reserved, sendWindow, state, unacked, wlPc, wrHold, wrPc, wrWant, wrote>>
  BY DEF ReadData, BufLen, Min2, streamVars, connVars, writerVars, readerVars, loopVars
<1>4. \A x \in {d, e} :
           /\ buf[x].lo \in Int /\ buf[x].hi \in Int /\ credited[x] \in Int
           /\ unacked[x] \in Int /\ rdHand[x] \in Int
  BY Ints
<1> DEFINE n == Min2(p, BufLen(e))
<1>5. n \in Int /\ n >= 0 /\ n <= buf[e].hi - buf[e].lo
  BY <1>4, StreamAssumption, MinBounds DEF BufLen, ReadData
<1>6. \A x \in Ends : buf'[x] = IF x = e THEN [lo |-> buf[e].lo + n, hi |-> buf[e].hi] ELSE buf[x]
  BY <1>2 DEF ReadData, StreamType
<1>7. rdHand'[d] = (IF d = e THEN n ELSE rdHand[d])
  BY <1>2 DEF ReadData, ReaderType
<1>8. rdPc'[d] = (IF d = e THEN "credit" ELSE rdPc[d]) /\ rdPc[e] = "read"
  BY <1>2 DEF ReadData, ReaderType
<1> HIDE DEF n
<1>9. Peer(d) \in Ends /\ buf'[Peer(d)].hi = buf[Peer(d)].hi /\ buf'[d].hi = buf[d].hi
  BY <1>6, PeerInEnds
<1>10. ReservedFirst(d)' /\ ChunksAreData(d)' /\ connErr'[d] = "none"
  BY <1>1, <1>3 DEF FlowAt, ReservedFirst, ChunksAreData
<1>11. WindowAccounts(d)'
  BY <1>1, <1>3, <1>9 DEF FlowAt, WindowAccounts
<1>12. DataInOrder(d)'
  BY <1>1, <1>3, <1>9, DataSame DEF FlowAt
<1>13. ReadAccounts(d)'
  BY <1>1, <1>3, <1>5, <1>6, <1>7, <1>8, <1>4 DEF FlowAt, ReadAccounts, Unaccounted
<1>14. CreditInOrder(d)'
  BY <1>1, <1>3, <1>8, <1>7, <1>13, CreditSame DEF FlowAt, Unsent
<1> QED
  BY <1>10, <1>11, <1>12, <1>13, <1>14 DEF FlowAt

\* A Read that finds the buffer empty moves no bytes.
LEMMA ReadEmptyFlow ==
  ASSUME TypeOK, TypeOK', FlowInv, NEW e \in Ends, ReadEmpty(e), NEW d \in Ends
  PROVE  FlowAt(d)'
<1>1. FlowAt(d) /\ FlowAt(e) /\ FlowAt(Peer(d))
  BY PeerInEnds DEF FlowInv
<1>2. StreamType /\ ConnType /\ WriterType /\ ReaderType /\ LoopType
  BY DEF TypeOK
<1>3. UNCHANGED <<buf, connErr, controlQueue, credited, granted, held, link, outQueue, rdHand,
                  recvWindow, reserved, sendWindow, state, unacked, wlPc, wrHold, wrPc, wrWant,
                  wrote>>
  BY DEF ReadEmpty, BufLen, streamVars, connVars, writerVars, readerVars, loopVars
<1>4. rdPc'[d] = rdPc[d] \/ (rdPc[d] = "read" /\ rdPc'[d] = "done")
  BY <1>2 DEF ReadEmpty, ReaderType
<1>5. WindowAccounts(d)' /\ ReservedFirst(d)' /\ ChunksAreData(d)' /\ connErr'[d] = "none"
  BY <1>1, <1>3 DEF FlowAt, WindowAccounts, ReservedFirst, ChunksAreData
<1>6. DataInOrder(d)'
  BY <1>1, <1>3, DataSame DEF FlowAt
<1>7. ReadAccounts(d)'
  BY <1>1, <1>3, <1>4 DEF FlowAt, ReadAccounts, Unaccounted
<1>8. CreditInOrder(d)'
  BY <1>1, <1>3, <1>4, <1>7, CreditSame DEF FlowAt, Unsent
<1> QED
  BY <1>5, <1>6, <1>7, <1>8 DEF FlowAt

\* Nor does one that the end of the connection wakes.
LEMMA ReadConnClosedFlow ==
  ASSUME TypeOK, TypeOK', FlowInv, NEW e \in Ends, ReadConnClosed(e), NEW d \in Ends
  PROVE  FlowAt(d)'
<1>1. FlowAt(d) /\ FlowAt(e) /\ FlowAt(Peer(d))
  BY PeerInEnds DEF FlowInv
<1>2. StreamType /\ ConnType /\ WriterType /\ ReaderType /\ LoopType
  BY DEF TypeOK
<1>3. UNCHANGED <<buf, connErr, controlQueue, credited, granted, held, link, outQueue, rdHand,
                  recvWindow, reserved, sendWindow, state, unacked, wlPc, wrHold, wrPc, wrWant,
                  wrote>>
  BY DEF ReadConnClosed, BufLen, streamVars, connVars, writerVars, readerVars, loopVars
<1>4. rdPc'[d] = rdPc[d] \/ (rdPc[d] = "read" /\ rdPc'[d] = "done")
  BY <1>2 DEF ReadConnClosed, ReaderType
<1>5. WindowAccounts(d)' /\ ReservedFirst(d)' /\ ChunksAreData(d)' /\ connErr'[d] = "none"
  BY <1>1, <1>3 DEF FlowAt, WindowAccounts, ReservedFirst, ChunksAreData
<1>6. DataInOrder(d)'
  BY <1>1, <1>3, DataSame DEF FlowAt
<1>7. ReadAccounts(d)'
  BY <1>1, <1>3, <1>4 DEF FlowAt, ReadAccounts, Unaccounted
<1>8. CreditInOrder(d)'
  BY <1>1, <1>3, <1>4, <1>7, CreditSame DEF FlowAt, Unsent
<1> QED
  BY <1>5, <1>6, <1>7, <1>8 DEF FlowAt

\* creditConsumed moves what was read from unacked to the receive window.
LEMMA CreditConsumedFlow ==
  ASSUME TypeOK, TypeOK', FlowInv, NEW e \in Ends, CreditConsumed(e), NEW d \in Ends
  PROVE  FlowAt(d)'
<1>1. FlowAt(d) /\ FlowAt(e) /\ FlowAt(Peer(d))
  BY PeerInEnds DEF FlowInv
<1>2. StreamType /\ ConnType /\ WriterType /\ ReaderType /\ LoopType
  BY DEF TypeOK
<1>3. UNCHANGED <<buf, connErr, controlQueue, granted, held, link, outQueue, reserved, sendWindow,
                  state, wlPc, wrHold, wrPc, wrWant, wrote>>
  BY DEF CreditConsumed, Owed, PayNow, Drained, BufLen, streamVars, connVars, writerVars, readerVars, loopVars
<1>4. /\ \A x \in {d, e} :
           /\ buf[x].lo \in Int /\ buf[x].hi \in Int /\ credited[x] \in Int
           /\ unacked[x] \in Int /\ rdHand[x] \in Int /\ recvWindow[x] \in Int
           /\ sendWindow[x] \in Int /\ granted[x] \in Int /\ reserved[x] \in Int
      /\ Window[d] \in Int /\ Window[Peer(d)] \in Int
  BY Ints, PeerInEnds
<1> DEFINE owed == unacked[e] + rdHand[e]
<1> DEFINE pay == owed >= Window[e] \div 2 /\ state[e] # "closed"
<1>5. owed \in Int /\ owed >= 0 /\ owed = unacked[e] + rdHand[e] /\ rdPc[e] = "credit"
  BY <1>1, Ints DEF FlowAt, ReadAccounts, CreditConsumed, Owed, PayNow, Drained
<1>6. recvWindow'[d] = (IF d = e THEN (IF pay THEN recvWindow[e] + owed ELSE recvWindow[e]) ELSE recvWindow[d])
  BY <1>2 DEF CreditConsumed, Owed, PayNow, Drained, StreamType
<1>7. unacked'[d] = (IF d = e THEN (IF pay THEN 0 ELSE owed) ELSE unacked[d])
  BY <1>2 DEF CreditConsumed, Owed, PayNow, Drained, StreamType
<1>8. credited'[d] = (IF d = e THEN (IF pay THEN credited[e] + owed ELSE credited[e]) ELSE credited[d])
  BY <1>2 DEF CreditConsumed, Owed, PayNow, Drained, ReaderType
<1>9. rdHand'[d] = (IF d = e THEN (IF pay THEN owed ELSE 0) ELSE rdHand[d])
  BY <1>2 DEF CreditConsumed, Owed, PayNow, Drained, ReaderType
<1>10. rdPc'[d] = (IF d = e THEN (IF pay /\ owed > 0 THEN "window" ELSE "read") ELSE rdPc[d])
  BY <1>2 DEF CreditConsumed, Owed, PayNow, Drained, ReaderType
<1> HIDE DEF owed, pay
<1>11. ReservedFirst(d)' /\ ChunksAreData(d)' /\ connErr'[d] = "none"
  BY <1>1, <1>3 DEF FlowAt, ReservedFirst, ChunksAreData
<1>12. WindowAccounts(d)'
  BY <1>1, <1>3, <1>5, <1>6, <1>8, <1>4 DEF FlowAt, WindowAccounts
<1>13. DataInOrder(d)'
  BY <1>1, <1>3, DataSame DEF FlowAt
<1>14. ReadAccounts(d)'
  BY <1>1, <1>3, <1>5, <1>7, <1>8, <1>9, <1>10, <1>4 DEF FlowAt, ReadAccounts, Unaccounted
<1>15. CreditInOrder(d)'
  <2>1. credited'[d] - Unsent(d)' = credited[d] - Unsent(d)
    BY <1>5, <1>8, <1>9, <1>10, <1>4 DEF Unsent
  <2> QED
    BY <1>1, <1>3, <2>1, <1>14, CreditSame DEF FlowAt
<1> QED
  BY <1>11, <1>12, <1>13, <1>14, <1>15 DEF FlowAt

\* A new Write holds no credit.
LEMMA WriteFlow ==
  ASSUME TypeOK, TypeOK', FlowInv, NEW e \in Ends, NEW k \in WriteSizes, Write(e, k), NEW d \in Ends
  PROVE  FlowAt(d)'
<1>1. FlowAt(d) /\ FlowAt(e) /\ FlowAt(Peer(d))
  BY PeerInEnds DEF FlowInv
<1>2. StreamType /\ ConnType /\ WriterType /\ ReaderType /\ LoopType
  BY DEF TypeOK
<1>3. UNCHANGED <<buf, connErr, controlQueue, credited, granted, held, link, outQueue, rdHand,
                  rdPc, recvWindow, reserved, sendWindow, state, unacked, wlPc, wrHold, wrote>>
  BY DEF Write, streamVars, connVars, writerVars, readerVars, loopVars
<1>4. wrPc'[d] = (IF d = e THEN "reserve" ELSE wrPc[d]) /\ wrPc[e] = "idle"
  BY <1>2 DEF Write, WriterType
<1>5. wrWant'[d] = (IF d = e THEN k ELSE wrWant[d]) /\ k \in Nat
  BY <1>2, StreamAssumption DEF Write, WriterType
<1>6. WindowAccounts(d)' /\ ChunksAreData(d)' /\ ReadAccounts(d)' /\ connErr'[d] = "none"
  BY <1>1, <1>3 DEF FlowAt, WindowAccounts, ChunksAreData, ReadAccounts, Unaccounted
<1>7. ReservedFirst(d)'
  BY <1>1, <1>3, <1>4, <1>5 DEF FlowAt, ReservedFirst
<1>8. DataInOrder(d)'
  BY <1>1, <1>3, DataSame DEF FlowAt
<1>9. CreditInOrder(d)'
  BY <1>1, <1>3, <1>6, CreditSame DEF FlowAt, Unsent
<1> QED
  BY <1>6, <1>7, <1>8, <1>9 DEF FlowAt

\* reserveSendCredit takes credit only from what the window has left.
LEMMA ReserveSendCreditFlow ==
  ASSUME TypeOK, TypeOK', FlowInv, NEW e \in Ends, ReserveSendCredit(e), NEW d \in Ends
  PROVE  FlowAt(d)'
<1>1. FlowAt(d) /\ FlowAt(e) /\ FlowAt(Peer(d))
  BY PeerInEnds DEF FlowInv
<1>2. StreamType /\ ConnType /\ WriterType /\ ReaderType /\ LoopType
  BY DEF TypeOK
<1>3. UNCHANGED <<buf, connErr, controlQueue, credited, granted, held, link, outQueue, rdHand,
                  rdPc, recvWindow, state, unacked, wlPc, wrote>>
  BY DEF ReserveSendCredit, ChunkLen, WriteReturns, Sendable, Min2, streamVars, connVars, writerVars,
     readerVars, loopVars
<1>4. /\ \A x \in {d, e} :
           /\ buf[x].lo \in Int /\ buf[x].hi \in Int /\ credited[x] \in Int /\ wrWant[x] \in Int
           /\ wrHold[x] \in Int /\ wrote[x] \in Int /\ recvWindow[x] \in Int
           /\ sendWindow[x] \in Int /\ granted[x] \in Int /\ reserved[x] \in Int
      /\ Window[d] \in Int /\ Window[Peer(d)] \in Int
  BY Ints, PeerInEnds
<1> DEFINE n == Min2(Min2(wrWant[e], sendWindow[e]), MaxChunk)
<1>5. wrPc[e] = "reserve" /\ wrWant[e] >= 0
  BY <1>1 DEF ReserveSendCredit, ChunkLen, FlowAt, ReservedFirst
<1>6. sendWindow[e] >= 0 /\ n \in Int /\ n >= 0 /\ n <= sendWindow[e]
  <2>1. sendWindow[e] >= 0
    BY <1>1 DEF FlowAt, WindowAccounts
  <2>2. MaxChunk \in Int /\ MaxChunk >= 0
    BY StreamAssumption
  <2>3. Min2(wrWant[e], sendWindow[e]) \in Int /\ Min2(wrWant[e], sendWindow[e]) >= 0
          /\ Min2(wrWant[e], sendWindow[e]) <= sendWindow[e]
    BY <1>5, <1>4, <2>1, MinBounds
  <2>4. n \in Int /\ n >= 0 /\ n <= Min2(wrWant[e], sendWindow[e])
    BY <2>2, <2>3, MinBounds
  <2> HIDE DEF n
  <2> QED
    BY <1>4, <2>1, <2>3, <2>4
<1>7. \/ /\ sendWindow' = sendWindow /\ reserved' = reserved
         /\ wrPc' = [wrPc EXCEPT ![e] = "idle"]
      \/ /\ sendWindow' = [sendWindow EXCEPT ![e] = @ - n] /\ reserved' = [reserved EXCEPT ![e] = @ + n]
         /\ wrHold' = [wrHold EXCEPT ![e] = n] /\ wrPc' = [wrPc EXCEPT ![e] = "queue"]
      \/ UNCHANGED <<sendWindow, reserved, wrPc, wrWant, wrHold>>
  BY DEF ReserveSendCredit, ChunkLen, WriteReturns
<1> HIDE DEF n
<1>8. /\ sendWindow \in [Ends -> Int] /\ reserved \in [Ends -> Int] /\ wrHold \in [Ends -> Int]
      /\ wrPc \in [Ends -> {"idle", "reserve", "queue", "await"}]
  BY <1>2 DEF StreamType, WriterType
<1>9. ChunksAreData(d)' /\ ReadAccounts(d)' /\ connErr'[d] = "none"
  BY <1>1, <1>3 DEF FlowAt, ChunksAreData, ReadAccounts, Unaccounted
<1>10. WindowAccounts(d)'
  BY <1>1, <1>3, <1>6, <1>7, <1>8, <1>4 DEF FlowAt, WindowAccounts
<1>11. ReservedFirst(d)'
  <2>1. wrote[d] <= reserved[d] \/ d # e
    BY <1>1, <1>3, <1>5, <1>4 DEF FlowAt, ReservedFirst
  <2>2. CASE reserved' = reserved /\ wrPc' = [wrPc EXCEPT ![e] = "idle"]
    <3>1. d # e => wrHold'[d] = wrHold[d] /\ wrWant'[d] = wrWant[d]
      BY <1>2 DEF ReserveSendCredit, ChunkLen, WriteReturns, WriterType
    <3> QED
      BY <1>1, <1>3, <2>1, <2>2, <3>1, <1>8, <1>4 DEF FlowAt, ReservedFirst
  <2>3. CASE /\ reserved' = [reserved EXCEPT ![e] = @ + n] /\ wrHold' = [wrHold EXCEPT ![e] = n]
             /\ wrPc' = [wrPc EXCEPT ![e] = "queue"]
    <3>1. d # e => wrWant'[d] = wrWant[d]
      BY <1>2 DEF ReserveSendCredit, ChunkLen, WriteReturns, WriterType
    <3> QED
      BY <1>1, <1>3, <2>1, <2>3, <3>1, <1>8, <1>6, <1>4 DEF FlowAt, ReservedFirst
  <2>4. CASE UNCHANGED <<reserved, wrPc, wrWant, wrHold>>
    BY <1>1, <1>3, <2>4 DEF FlowAt, ReservedFirst
  <2> QED
    BY <1>7, <2>2, <2>3, <2>4
<1>12. DataInOrder(d)'
  BY <1>1, <1>3, DataSame DEF FlowAt
<1>13. CreditInOrder(d)'
  BY <1>1, <1>3, <1>9, CreditSame DEF FlowAt, Unsent
<1> QED
  BY <1>9, <1>10, <1>11, <1>12, <1>13 DEF FlowAt

\* The queued chunk carries the credit reserved for it and comes after all that was queued before.
LEMMA QueueChunkFlow ==
  ASSUME TypeOK, TypeOK', FlowInv, NEW e \in Ends, QueueChunk(e), NEW d \in Ends
  PROVE  FlowAt(d)'
<1>1. FlowAt(d) /\ FlowAt(e) /\ FlowAt(Peer(d))
  BY PeerInEnds DEF FlowInv
<1>2. StreamType /\ ConnType /\ WriterType /\ ReaderType /\ LoopType
  BY DEF TypeOK
<1>3. UNCHANGED <<buf, connErr, controlQueue, credited, granted, held, link, rdHand, rdPc,
                  recvWindow, reserved, sendWindow, state, unacked, wlPc, wrHold, wrWant>>
  BY DEF QueueChunk, streamVars, connVars, writerVars, readerVars, loopVars
<1>4. \A x \in {d, e} :
           /\ wrHold[x] \in Int /\ wrote[x] \in Int /\ reserved[x] \in Int /\ buf[x].lo \in Int
           /\ buf[x].hi \in Int
  BY Ints
<1>5. wrPc[e] = "queue" /\ wrHold[e] >= 0 /\ wrote[e] + wrHold[e] <= reserved[e]
  BY <1>1 DEF QueueChunk, FlowAt, ReservedFirst
<1>6. wrPc'[d] = (IF d = e THEN "await" ELSE wrPc[d])
  BY <1>2 DEF QueueChunk, WriterType
<1>7. wrote'[d] = (IF d = e THEN wrote[e] + wrHold[e] ELSE wrote[d])
  BY <1>2 DEF QueueChunk, WriterType
<1> DEFINE f == DataFrame(wrote[e], wrote[e] + wrHold[e])
<1>8. f \in Frame /\ f.type = "DATA" /\ f.lo = wrote[e] /\ f.hi = wrote[e] + wrHold[e]
  <2>1. wrote[e] \in Int /\ wrote[e] + wrHold[e] \in Int
    BY <1>4
  <2> QED
    BY <2>1, FrameType, FrameFields
<1>9. outQueue'[d] = (IF d = e THEN Append(outQueue[e], f) ELSE outQueue[d])
  BY <1>2 DEF QueueChunk, StreamType
<1> HIDE DEF f
<1>10. outQueue[e] \in Seq(Frame)
  BY Ints
<1>11. WindowAccounts(d)' /\ ReadAccounts(d)' /\ connErr'[d] = "none"
  BY <1>1, <1>3 DEF FlowAt, WindowAccounts, ReadAccounts, Unaccounted
<1>12. ReservedFirst(d)'
  BY <1>1, <1>3, <1>5, <1>6, <1>7, <1>4 DEF FlowAt, ReservedFirst
<1>13. ChunksAreData(d)'
  BY <1>1, <1>3, <1>8, <1>9, <1>10, AppendAll DEF FlowAt, ChunksAreData
<1>14. DataInOrder(d)'
  <2>1. CASE d # e
    BY <1>1, <1>3, <2>1, <1>7, <1>9, DataSame DEF FlowAt
  <2>2. CASE d = e
    <3>1. PICK m \in Int : DataPipe(e, m)
      BY <1>1, <2>2, DataPick DEF FlowAt
    <3> DEFINE a == IF wlPc[e] = "write" THEN held[e].hi ELSE m
    <3>2. a \in Int
      BY Ints
    <3>3. Ordered(outQueue[e], "DATA", a, wrote[e])
      BY <3>1 DEF DataPipe
    <3> HIDE DEF a
    <3>4. Ordered(Append(outQueue[e], f), "DATA", a, wrote[e] + wrHold[e])
      <4>1. wrote[e] \in Int /\ wrote[e] + wrHold[e] \in Int /\ f.lo <= f.hi /\ wrote[e] <= f.lo
              /\ f.hi <= wrote[e] + wrHold[e]
        BY <1>4, <1>5, <1>8
      <4> QED
        BY <3>2, <3>3, <4>1, <1>8, <1>10, OrderedAppend
    <3>5. DataPipe(d, m)'
      BY <1>3, <2>2, <3>1, <3>4, <1>7, <1>9 DEF DataPipe, a
    <3> QED
      BY <3>5, DataWitness
  <2> QED
    BY <2>1, <2>2
<1>15. CreditInOrder(d)'
  BY <1>1, <1>3, <1>11, CreditSame DEF FlowAt, Unsent
<1> QED
  BY <1>11, <1>12, <1>13, <1>14, <1>15 DEF FlowAt

\* A Write whose chunk is done keeps its credit accounts.
LEMMA ChunkDoneFlow ==
  ASSUME TypeOK, TypeOK', FlowInv, NEW e \in Ends, ChunkDone(e), NEW d \in Ends
  PROVE  FlowAt(d)'
<1>1. FlowAt(d) /\ FlowAt(e) /\ FlowAt(Peer(d))
  BY PeerInEnds DEF FlowInv
<1>2. StreamType /\ ConnType /\ WriterType /\ ReaderType /\ LoopType
  BY DEF TypeOK
<1>3. UNCHANGED <<buf, connErr, controlQueue, credited, granted, held, link, outQueue, rdHand,
                  rdPc, recvWindow, reserved, sendWindow, state, unacked, wlPc, wrote>>
  BY DEF ChunkDone, WriteReturns, streamVars, connVars, writerVars, readerVars, loopVars
<1>4. \A x \in {d, e} :
           /\ wrHold[x] \in Int /\ wrote[x] \in Int /\ reserved[x] \in Int /\ wrWant[x] \in Int
  BY Ints
<1>5. \/ wrPc'[d] = wrPc[d] /\ wrWant'[d] = wrWant[d] /\ wrHold'[d] = wrHold[d]
      \/ wrPc'[d] = "idle"
      \/ wrPc'[d] = "reserve" /\ wrWant'[d] >= 0
  BY <1>2, <1>4 DEF ChunkDone, WriteReturns, WriterType
<1>6. WindowAccounts(d)' /\ ChunksAreData(d)' /\ ReadAccounts(d)' /\ connErr'[d] = "none"
  BY <1>1, <1>3 DEF FlowAt, WindowAccounts, ChunksAreData, ReadAccounts, Unaccounted
<1>7. ReservedFirst(d)'
  BY <1>1, <1>3, <1>5, <1>4 DEF FlowAt, ReservedFirst
<1>8. DataInOrder(d)'
  BY <1>1, <1>3, DataSame DEF FlowAt
<1>9. CreditInOrder(d)'
  BY <1>1, <1>3, <1>6, CreditSame DEF FlowAt, Unsent
<1> QED
  BY <1>6, <1>7, <1>8, <1>9 DEF FlowAt

\* A Write the end of the connection releases queues nothing more.
LEMMA WriteConnClosedFlow ==
  ASSUME TypeOK, TypeOK', FlowInv, NEW e \in Ends, WriteConnClosed(e), NEW d \in Ends
  PROVE  FlowAt(d)'
<1>1. FlowAt(d) /\ FlowAt(e) /\ FlowAt(Peer(d))
  BY PeerInEnds DEF FlowInv
<1>2. StreamType /\ ConnType /\ WriterType /\ ReaderType /\ LoopType
  BY DEF TypeOK
<1>3. UNCHANGED <<buf, connErr, controlQueue, credited, granted, held, link, outQueue, rdHand,
                  rdPc, recvWindow, reserved, sendWindow, state, unacked, wlPc, wrote>>
  BY DEF WriteConnClosed, WriteWaits, WriteReturns, streamVars, connVars, writerVars, readerVars, loopVars
<1>4. \A x \in {d, e} :
           /\ wrHold[x] \in Int /\ wrote[x] \in Int /\ reserved[x] \in Int /\ wrWant[x] \in Int
  BY Ints
<1>5. \/ wrPc'[d] = wrPc[d] /\ wrWant'[d] = wrWant[d] /\ wrHold'[d] = wrHold[d]
      \/ wrPc'[d] = "idle"
  BY <1>2, <1>4 DEF WriteConnClosed, WriteWaits, WriteReturns, WriterType
<1>6. WindowAccounts(d)' /\ ChunksAreData(d)' /\ ReadAccounts(d)' /\ connErr'[d] = "none"
  BY <1>1, <1>3 DEF FlowAt, WindowAccounts, ChunksAreData, ReadAccounts, Unaccounted
<1>7. ReservedFirst(d)'
  BY <1>1, <1>3, <1>5, <1>4 DEF FlowAt, ReservedFirst
<1>8. DataInOrder(d)'
  BY <1>1, <1>3, DataSame DEF FlowAt
<1>9. CreditInOrder(d)'
  BY <1>1, <1>3, <1>6, CreditSame DEF FlowAt, Unsent
<1> QED
  BY <1>6, <1>7, <1>8, <1>9 DEF FlowAt

\* Nor does a cancelled one: its credit stays reserved.
LEMMA CancelWriteFlow ==
  ASSUME TypeOK, TypeOK', FlowInv, NEW e \in Ends, CancelWrite(e), NEW d \in Ends
  PROVE  FlowAt(d)'
<1>1. FlowAt(d) /\ FlowAt(e) /\ FlowAt(Peer(d))
  BY PeerInEnds DEF FlowInv
<1>2. StreamType /\ ConnType /\ WriterType /\ ReaderType /\ LoopType
  BY DEF TypeOK
<1>3. UNCHANGED <<buf, connErr, controlQueue, credited, granted, held, link, outQueue, rdHand,
                  rdPc, recvWindow, reserved, sendWindow, state, unacked, wlPc, wrote>>
  BY DEF CancelWrite, WriteReturns, streamVars, connVars, writerVars, readerVars, loopVars
<1>4. \A x \in {d, e} :
           /\ wrHold[x] \in Int /\ wrote[x] \in Int /\ reserved[x] \in Int /\ wrWant[x] \in Int
  BY Ints
<1>5. \/ wrPc'[d] = wrPc[d] /\ wrWant'[d] = wrWant[d] /\ wrHold'[d] = wrHold[d]
      \/ wrPc'[d] = "idle"
  BY <1>2, <1>4 DEF CancelWrite, WriteReturns, WriterType
<1>6. WindowAccounts(d)' /\ ChunksAreData(d)' /\ ReadAccounts(d)' /\ connErr'[d] = "none"
  BY <1>1, <1>3 DEF FlowAt, WindowAccounts, ChunksAreData, ReadAccounts, Unaccounted
<1>7. ReservedFirst(d)'
  BY <1>1, <1>3, <1>5, <1>4 DEF FlowAt, ReservedFirst
<1>8. DataInOrder(d)'
  BY <1>1, <1>3, DataSame DEF FlowAt
<1>9. CreditInOrder(d)'
  BY <1>1, <1>3, <1>6, CreditSame DEF FlowAt, Unsent
<1> QED
  BY <1>6, <1>7, <1>8, <1>9 DEF FlowAt

\* SendClose queues a frame that carries neither bytes nor credit.
LEMMA SendCloseFlow ==
  ASSUME TypeOK, TypeOK', FlowInv, NEW e \in Ends, SendClose(e), NEW d \in Ends
  PROVE  FlowAt(d)'
<1>1. FlowAt(d) /\ FlowAt(e) /\ FlowAt(Peer(d))
  BY PeerInEnds DEF FlowInv
<1>2. StreamType /\ ConnType /\ WriterType /\ ReaderType /\ LoopType
  BY DEF TypeOK
<1>3. UNCHANGED <<buf, connErr, credited, granted, held, link, outQueue, rdHand, rdPc, recvWindow,
                  reserved, sendWindow, state, unacked, wlPc, wrHold, wrPc, wrWant, wrote>>
  BY DEF SendClose, SendControlFrame, streamVars, connVars, writerVars, readerVars, loopVars
<1> DEFINE f == CloseFrame
<1>4. f \in Frame /\ f.type # "DATA" /\ f.type # "WINDOW"
  BY FrameType DEF CloseFrame, ResetFrame, Codes
<1>5. controlQueue'[d] = controlQueue[d] \/ controlQueue'[d] = Append(controlQueue[d], f)
  <2>1. controlQueue \in [Ends -> Seq(Frame)]
    BY <1>2 DEF ConnType
  <2>2. controlQueue' = controlQueue \/ controlQueue' = [controlQueue EXCEPT ![e] = Append(@, f)]
    BY DEF SendClose, SendControlFrame
  <2> QED
    BY <2>1, <2>2
<1> HIDE DEF f
<1>6. controlQueue[d] \in Seq(Frame)
  BY Ints
<1>7. WindowAccounts(d)' /\ ReservedFirst(d)' /\ ReadAccounts(d)' /\ connErr'[d] = "none"
  BY <1>1, <1>3 DEF FlowAt, WindowAccounts, ReservedFirst, ReadAccounts, Unaccounted
<1>8. ChunksAreData(d)'
  BY <1>1, <1>3, <1>4, <1>5, <1>6, AppendAll DEF FlowAt, ChunksAreData
<1>9. DataInOrder(d)'
  BY <1>1, <1>3, DataSame DEF FlowAt
<1>10. CreditInOrder(d)'
  <2>1. CASE controlQueue'[d] = controlQueue[d]
    BY <1>1, <1>3, <2>1, <1>7, CreditSame DEF FlowAt, Unsent
  <2>2. CASE controlQueue'[d] = Append(controlQueue[d], f)
    <3>1. PICK m \in Int : CreditPipe(d, m)
      BY <1>1, CreditPick DEF FlowAt
    <3>2. credited[d] - Unsent(d) \in Int
      BY Ints DEF Unsent
    <3>3. Ordered(Append(controlQueue[d], f), "WINDOW", m, credited[d] - Unsent(d))
      BY <3>1, <3>2, <1>4, <1>6, OrderedSkip DEF CreditPipe
    <3>4. CreditPipe(d, m)'
      BY <1>3, <2>2, <3>1, <3>3 DEF CreditPipe, Unsent
    <3> QED
      BY <3>4, <1>7, CreditWitness
  <2> QED
    BY <1>5, <2>1, <2>2
<1> QED
  BY <1>7, <1>8, <1>9, <1>10 DEF FlowAt

\* SendReset queues a frame that carries neither bytes nor credit.
LEMMA SendResetFlow ==
  ASSUME TypeOK, TypeOK', FlowInv, NEW e \in Ends, SendReset(e), NEW d \in Ends
  PROVE  FlowAt(d)'
<1>1. FlowAt(d) /\ FlowAt(e) /\ FlowAt(Peer(d))
  BY PeerInEnds DEF FlowInv
<1>2. StreamType /\ ConnType /\ WriterType /\ ReaderType /\ LoopType
  BY DEF TypeOK
<1>3. UNCHANGED <<buf, connErr, credited, granted, held, link, outQueue, rdHand, rdPc, recvWindow,
                  reserved, sendWindow, state, unacked, wlPc, wrHold, wrPc, wrWant, wrote>>
  BY DEF SendReset, SendControlFrame, streamVars, connVars, writerVars, readerVars, loopVars
<1> DEFINE f == ResetFrame("CANCEL")
<1>4. f \in Frame /\ f.type # "DATA" /\ f.type # "WINDOW"
  BY FrameType DEF CloseFrame, ResetFrame, Codes
<1>5. controlQueue'[d] = controlQueue[d] \/ controlQueue'[d] = Append(controlQueue[d], f)
  <2>1. controlQueue \in [Ends -> Seq(Frame)]
    BY <1>2 DEF ConnType
  <2>2. controlQueue' = controlQueue \/ controlQueue' = [controlQueue EXCEPT ![e] = Append(@, f)]
    BY DEF SendReset, SendControlFrame
  <2> QED
    BY <2>1, <2>2
<1> HIDE DEF f
<1>6. controlQueue[d] \in Seq(Frame)
  BY Ints
<1>7. WindowAccounts(d)' /\ ReservedFirst(d)' /\ ReadAccounts(d)' /\ connErr'[d] = "none"
  BY <1>1, <1>3 DEF FlowAt, WindowAccounts, ReservedFirst, ReadAccounts, Unaccounted
<1>8. ChunksAreData(d)'
  BY <1>1, <1>3, <1>4, <1>5, <1>6, AppendAll DEF FlowAt, ChunksAreData
<1>9. DataInOrder(d)'
  BY <1>1, <1>3, DataSame DEF FlowAt
<1>10. CreditInOrder(d)'
  <2>1. CASE controlQueue'[d] = controlQueue[d]
    BY <1>1, <1>3, <2>1, <1>7, CreditSame DEF FlowAt, Unsent
  <2>2. CASE controlQueue'[d] = Append(controlQueue[d], f)
    <3>1. PICK m \in Int : CreditPipe(d, m)
      BY <1>1, CreditPick DEF FlowAt
    <3>2. credited[d] - Unsent(d) \in Int
      BY Ints DEF Unsent
    <3>3. Ordered(Append(controlQueue[d], f), "WINDOW", m, credited[d] - Unsent(d))
      BY <3>1, <3>2, <1>4, <1>6, OrderedSkip DEF CreditPipe
    <3>4. CreditPipe(d, m)'
      BY <1>3, <2>2, <3>1, <3>3 DEF CreditPipe, Unsent
    <3> QED
      BY <3>4, <1>7, CreditWitness
  <2> QED
    BY <1>5, <2>1, <2>2
<1> QED
  BY <1>7, <1>8, <1>9, <1>10 DEF FlowAt

\* SendResetStream queues a frame that carries neither bytes nor credit.
LEMMA SendResetStreamFlow ==
  ASSUME TypeOK, TypeOK', FlowInv, NEW e \in Ends, SendResetStream(e), NEW d \in Ends
  PROVE  FlowAt(d)'
<1>1. FlowAt(d) /\ FlowAt(e) /\ FlowAt(Peer(d))
  BY PeerInEnds DEF FlowInv
<1>2. StreamType /\ ConnType /\ WriterType /\ ReaderType /\ LoopType
  BY DEF TypeOK
<1>3. UNCHANGED <<buf, connErr, credited, granted, held, link, outQueue, rdHand, rdPc, recvWindow,
                  reserved, sendWindow, state, unacked, wlPc, wrHold, wrPc, wrWant, wrote>>
  BY DEF SendResetStream, SendControlFrame, streamVars, connVars, writerVars, readerVars, loopVars
<1> DEFINE f == ResetFrame("STREAM_CLOSED")
<1>4. f \in Frame /\ f.type # "DATA" /\ f.type # "WINDOW"
  BY FrameType DEF CloseFrame, ResetFrame, Codes
<1>5. controlQueue'[d] = controlQueue[d] \/ controlQueue'[d] = Append(controlQueue[d], f)
  <2>1. controlQueue \in [Ends -> Seq(Frame)]
    BY <1>2 DEF ConnType
  <2>2. controlQueue' = controlQueue \/ controlQueue' = [controlQueue EXCEPT ![e] = Append(@, f)]
    BY DEF SendResetStream, SendControlFrame
  <2> QED
    BY <2>1, <2>2
<1> HIDE DEF f
<1>6. controlQueue[d] \in Seq(Frame)
  BY Ints
<1>7. WindowAccounts(d)' /\ ReservedFirst(d)' /\ ReadAccounts(d)' /\ connErr'[d] = "none"
  BY <1>1, <1>3 DEF FlowAt, WindowAccounts, ReservedFirst, ReadAccounts, Unaccounted
<1>8. ChunksAreData(d)'
  BY <1>1, <1>3, <1>4, <1>5, <1>6, AppendAll DEF FlowAt, ChunksAreData
<1>9. DataInOrder(d)'
  BY <1>1, <1>3, DataSame DEF FlowAt
<1>10. CreditInOrder(d)'
  <2>1. CASE controlQueue'[d] = controlQueue[d]
    BY <1>1, <1>3, <2>1, <1>7, CreditSame DEF FlowAt, Unsent
  <2>2. CASE controlQueue'[d] = Append(controlQueue[d], f)
    <3>1. PICK m \in Int : CreditPipe(d, m)
      BY <1>1, CreditPick DEF FlowAt
    <3>2. credited[d] - Unsent(d) \in Int
      BY Ints DEF Unsent
    <3>3. Ordered(Append(controlQueue[d], f), "WINDOW", m, credited[d] - Unsent(d))
      BY <3>1, <3>2, <1>4, <1>6, OrderedSkip DEF CreditPipe
    <3>4. CreditPipe(d, m)'
      BY <1>3, <2>2, <3>1, <3>3 DEF CreditPipe, Unsent
    <3> QED
      BY <3>4, <1>7, CreditWitness
  <2> QED
    BY <1>5, <2>1, <2>2
<1> QED
  BY <1>7, <1>8, <1>9, <1>10 DEF FlowAt

\* The WINDOW queued after creditConsumed carries exactly the credit accounted for there.
LEMMA SendWindowFrameFlow ==
  ASSUME TypeOK, TypeOK', FlowInv, NEW e \in Ends, SendWindowFrame(e), NEW d \in Ends
  PROVE  FlowAt(d)'
<1>1. FlowAt(d) /\ FlowAt(e) /\ FlowAt(Peer(d))
  BY PeerInEnds DEF FlowInv
<1>2. StreamType /\ ConnType /\ WriterType /\ ReaderType /\ LoopType
  BY DEF TypeOK
<1>3. UNCHANGED <<buf, connErr, credited, granted, held, link, outQueue, recvWindow, reserved,
                  sendWindow, state, unacked, wlPc, wrHold, wrPc, wrWant, wrote>>
  BY DEF SendWindowFrame, SendControlFrame, streamVars, connVars, writerVars, readerVars, loopVars
<1>4. \A x \in {d, e} :
           /\ credited[x] \in Int /\ rdHand[x] \in Int /\ unacked[x] \in Int
           /\ buf[x].lo \in Int /\ buf[x].hi \in Int
  BY Ints
<1> DEFINE f == WindowFrame(credited[e] - rdHand[e], credited[e])
<1>5. f \in Frame /\ f.type = "WINDOW" /\ f.lo = credited[e] - rdHand[e] /\ f.hi = credited[e]
  <2>1. credited[e] - rdHand[e] \in Int /\ credited[e] \in Int
    BY <1>4
  <2> QED
    BY <2>1, FrameType, FrameFields
<1>6. controlQueue'[d] = controlQueue[d] \/ (d = e /\ controlQueue'[d] = Append(controlQueue[d], f))
  <2>1. controlQueue \in [Ends -> Seq(Frame)]
    BY <1>2 DEF ConnType
  <2>2. controlQueue' = controlQueue \/ controlQueue' = [controlQueue EXCEPT ![e] = Append(@, f)]
    BY DEF SendWindowFrame, SendControlFrame
  <2> QED
    BY <2>1, <2>2
<1> HIDE DEF f
<1>7. controlQueue[d] \in Seq(Frame)
  BY Ints
<1>8. rdHand'[d] = (IF d = e THEN 0 ELSE rdHand[d])
  BY <1>2 DEF SendWindowFrame, ReaderType
<1>9. rdPc'[d] = (IF d = e THEN "read" ELSE rdPc[d]) /\ rdPc[e] = "window"
  BY <1>2 DEF SendWindowFrame, ReaderType
<1>10. WindowAccounts(d)' /\ ReservedFirst(d)' /\ connErr'[d] = "none"
  BY <1>1, <1>3 DEF FlowAt, WindowAccounts, ReservedFirst
<1>11. ChunksAreData(d)'
  BY <1>1, <1>3, <1>5, <1>6, <1>7, AppendAll DEF FlowAt, ChunksAreData
<1>12. DataInOrder(d)'
  BY <1>1, <1>3, DataSame DEF FlowAt
<1>13. ReadAccounts(d)'
  BY <1>1, <1>3, <1>8, <1>9, <1>4 DEF FlowAt, ReadAccounts, Unaccounted
<1>14. CreditInOrder(d)'
  <2>1. CASE d # e
    BY <1>1, <1>3, <2>1, <1>6, <1>8, <1>9, <1>13, CreditSame DEF FlowAt, Unsent
  <2>2. CASE d = e
    <3>1. PICK m \in Int : CreditPipe(e, m)
      BY <1>1, CreditPick DEF FlowAt
    <3>2. Unsent(e) = rdHand[e] /\ Unsent(d)' = 0 /\ rdHand[e] >= 0
      BY <1>1, <2>2, <1>9 DEF Unsent, FlowAt, ReadAccounts
    <3>3. Ordered(controlQueue[e], "WINDOW", m, credited[e] - rdHand[e])
      BY <3>1, <3>2 DEF CreditPipe
    <3>4. Ordered(controlQueue'[e], "WINDOW", m, credited[e])
      <4>1. CASE controlQueue'[d] = controlQueue[d]
        BY <2>2, <3>2, <3>3, <4>1, <1>4, <1>7, OrderedWiden
      <4>2. CASE controlQueue'[d] = Append(controlQueue[d], f)
        <5>1. credited[e] - rdHand[e] \in Int /\ credited[e] \in Int /\ f.lo <= f.hi
                /\ credited[e] - rdHand[e] <= f.lo /\ f.hi <= credited[e]
          BY <3>2, <1>4, <1>5
        <5> QED
          BY <2>2, <3>3, <4>2, <5>1, <1>7, <1>5, OrderedAppend
      <4> QED
        BY <1>6, <4>1, <4>2
    <3>5. credited[e] - 0 = credited[e]
      BY <1>4
    <3>6. CreditPipe(d, m)'
      BY <1>3, <2>2, <3>1, <3>2, <3>4, <3>5 DEF CreditPipe
    <3> QED
      BY <3>6, <1>13, CreditWitness
  <2> QED
    BY <2>1, <2>2
<1> QED
  BY <1>10, <1>11, <1>12, <1>13, <1>14 DEF FlowAt

\* nextChunk takes the first chunk, to write it or to complete it with an error.
LEMMA NextChunkFlow ==
  ASSUME TypeOK, TypeOK', FlowInv, NEW e \in Ends, NextChunk(e), NEW d \in Ends
  PROVE  FlowAt(d)'
<1>1. FlowAt(d) /\ FlowAt(e) /\ FlowAt(Peer(d))
  BY PeerInEnds DEF FlowInv
<1>2. StreamType /\ ConnType /\ WriterType /\ ReaderType /\ LoopType
  BY DEF TypeOK
<1>3. UNCHANGED <<buf, connErr, controlQueue, credited, granted, link, rdHand, rdPc, recvWindow,
                  reserved, sendWindow, state, unacked, wrPc, wrWant, wrote>>
  BY DEF NextChunk, PopChunk, SendDone, CompleteChunk, streamVars, connVars, writerVars, readerVars, loopVars
<1>4. \A x \in {d, e} :
           /\ wrHold[x] \in Int /\ wrote[x] \in Int /\ reserved[x] \in Int
  BY Ints
<1>5. wrHold'[d] = wrHold[d] \/ (wrHold'[d] = 0 /\ wrHold[d] \in Int)
  BY <1>2 DEF NextChunk, PopChunk, SendDone, CompleteChunk, WriterType
<1>6. outQueue[e] \in Seq(Frame) /\ outQueue[e] # <<>> /\ wlPc[e] = "turn"
  BY Ints DEF NextChunk, PopChunk, SendDone
<1>7. outQueue'[d] = (IF d = e THEN Tail(outQueue[e]) ELSE outQueue[d])
  BY <1>2 DEF NextChunk, PopChunk, SendDone, StreamType
<1>8. \/ held'[d] = held[d] /\ wlPc'[d] = wlPc[d]
      \/ d = e /\ held'[d] = Head(outQueue[e]) /\ wlPc'[d] = "write"
  BY <1>2 DEF NextChunk, PopChunk, SendDone, LoopType
<1>9. WindowAccounts(d)' /\ ReadAccounts(d)' /\ connErr'[d] = "none"
  BY <1>1, <1>3 DEF FlowAt, WindowAccounts, ReadAccounts, Unaccounted
<1>10. ReservedFirst(d)'
  BY <1>1, <1>3, <1>5, <1>4 DEF FlowAt, ReservedFirst
<1>11. ChunksAreData(d)'
  BY <1>1, <1>3, <1>7, <1>6, <1>8, TailAll DEF FlowAt, ChunksAreData
<1>12. DataInOrder(d)'
  <2>1. CASE d # e
    BY <1>1, <1>3, <2>1, <1>7, <1>8, DataSame DEF FlowAt
  <2>2. CASE d = e
    <3>1. PICK m \in Int : DataPipe(e, m)
      BY <1>1, DataPick DEF FlowAt
    <3>2. Ordered(outQueue[e], "DATA", m, wrote[e])
      BY <3>1, <1>6 DEF DataPipe
    <3>3. /\ Ordered(Tail(outQueue[e]), "DATA", m, wrote[e])
          /\ Ordered(Tail(outQueue[e]), "DATA", Head(outQueue[e]).hi, wrote[e])
          /\ m <= Head(outQueue[e]).lo /\ Head(outQueue[e]).lo <= Head(outQueue[e]).hi
      <4>1. Head(outQueue[e]).type = "DATA"
        BY <1>1, <1>6, TailAll DEF FlowAt, ChunksAreData
      <4> QED
        BY <3>2, <4>1, <1>4, <1>6, OrderedTail
    <3>4. DataPipe(d, m)'
      BY <1>3, <2>2, <3>1, <3>3, <1>7, <1>6, <1>8 DEF DataPipe
    <3> QED
      BY <3>4, DataWitness
  <2> QED
    BY <2>1, <2>2
<1>13. CreditInOrder(d)'
  BY <1>1, <1>3, <1>9, CreditSame DEF FlowAt, Unsent
<1> QED
  BY <1>9, <1>10, <1>11, <1>12, <1>13 DEF FlowAt

\* Writing the chunk in hand moves the boundary between link and queue past it.
LEMMA WriteDataFlow ==
  ASSUME TypeOK, TypeOK', FlowInv, NEW e \in Ends, WriteData(e), NEW d \in Ends
  PROVE  FlowAt(d)'
<1>1. FlowAt(d) /\ FlowAt(e) /\ FlowAt(Peer(d))
  BY PeerInEnds DEF FlowInv
<1>2. StreamType /\ ConnType /\ WriterType /\ ReaderType /\ LoopType
  BY DEF TypeOK
<1>3. UNCHANGED <<buf, connErr, controlQueue, credited, granted, outQueue, rdHand, rdPc,
                  recvWindow, reserved, sendWindow, state, unacked, wrPc, wrWant, wrote>>
  BY DEF WriteData, CompleteChunk, streamVars, connVars, writerVars, readerVars, loopVars
<1>4. \A x \in {d, e} :
           /\ wrHold[x] \in Int /\ wrote[x] \in Int /\ reserved[x] \in Int
  BY Ints
<1>5. wrHold'[d] = wrHold[d] \/ (wrHold'[d] = 0 /\ wrHold[d] \in Int)
  BY <1>2 DEF WriteData, CompleteChunk, WriterType
<1>6. held[e] \in Frame /\ held[e].lo \in Int /\ held[e].hi \in Int /\ link[e] \in Seq(Frame) /\ wlPc[e] = "write"
  BY Ints DEF WriteData
<1>7. held[e].type = "DATA"
  BY <1>1 DEF FlowAt, ChunksAreData
<1>8. link'[d] = (IF d = e THEN Append(link[e], held[e]) ELSE link[d])
  BY <1>2 DEF WriteData, ConnType
<1>9. held'[d] = (IF d = e THEN NoChunk ELSE held[d]) /\ wlPc'[d] = (IF d = e THEN "turn" ELSE wlPc[d])
  BY <1>2 DEF WriteData, LoopType
<1>10. WindowAccounts(d)' /\ ReadAccounts(d)' /\ connErr'[d] = "none"
  BY <1>1, <1>3 DEF FlowAt, WindowAccounts, ReadAccounts, Unaccounted
<1>11. ReservedFirst(d)'
  BY <1>1, <1>3, <1>5, <1>4 DEF FlowAt, ReservedFirst
<1>12. ChunksAreData(d)'
  BY <1>1, <1>3, <1>9, FrameFields DEF FlowAt, ChunksAreData
<1>13. DataInOrder(d)'
  <2>1. CASE d # e
    BY <1>1, <1>3, <2>1, <1>8, <1>9, DataSame DEF FlowAt
  <2>2. CASE d = e
    <3>1. PICK m \in Int : DataPipe(e, m)
      BY <1>1, DataPick DEF FlowAt
    <3>2. buf[Peer(e)].hi \in Int
      BY Ints, PeerInEnds
    <3>3. PICK k \in Int : k = held[e].hi
      BY <1>6
    <3>4. Ordered(link[e], "DATA", buf[Peer(e)].hi, m) /\ m <= held[e].lo /\ held[e].lo <= k /\ k <= k
      BY <3>1, <3>3, <1>6 DEF DataPipe
    <3>5. Ordered(Append(link[e], held[e]), "DATA", buf[Peer(e)].hi, k)
      BY <3>2, <3>3, <3>4, <1>6, <1>7, OrderedAppend
    <3>6. Ordered(outQueue[e], "DATA", k, wrote[e])
      BY <3>1, <3>3, <1>6 DEF DataPipe
    <3>7. DataPipe(d, k)'
      BY <1>3, <2>2, <3>5, <3>6, <1>8, <1>9 DEF DataPipe
    <3> QED
      BY <3>7, DataWitness
  <2> QED
    BY <2>1, <2>2
<1>14. CreditInOrder(d)'
  <2>1. CASE d # e
    BY <1>1, <1>3, <2>1, <1>8, <1>10, CreditSame DEF FlowAt, Unsent
  <2>2. CASE d = e
    <3>1. PICK m \in Int : CreditPipe(e, m)
      BY <1>1, CreditPick DEF FlowAt
    <3>2. granted[Peer(e)] \in Int
      BY Ints, PeerInEnds
    <3>3. Ordered(Append(link[e], held[e]), "WINDOW", granted[Peer(e)], m)
      BY <3>1, <3>2, <1>6, <1>7, OrderedSkip DEF CreditPipe
    <3>4. CreditPipe(d, m)'
      BY <1>3, <2>2, <3>1, <3>3, <1>8 DEF CreditPipe, Unsent
    <3> QED
      BY <3>4, <1>10, CreditWitness
  <2> QED
    BY <2>1, <2>2
<1> QED
  BY <1>10, <1>11, <1>12, <1>13, <1>14 DEF FlowAt

\* A writer loop that stops drops the chunk in hand.
LEMMA WriterStopsFlow ==
  ASSUME TypeOK, TypeOK', FlowInv, NEW e \in Ends, WriterStops(e), NEW d \in Ends
  PROVE  FlowAt(d)'
<1>1. FlowAt(d) /\ FlowAt(e) /\ FlowAt(Peer(d))
  BY PeerInEnds DEF FlowInv
<1>2. StreamType /\ ConnType /\ WriterType /\ ReaderType /\ LoopType
  BY DEF TypeOK
<1>3. UNCHANGED <<buf, connErr, controlQueue, credited, granted, link, outQueue, rdHand, rdPc,
                  recvWindow, reserved, sendWindow, state, unacked, wrPc, wrWant, wrote>>
  BY DEF WriterStops, CompleteChunk, streamVars, connVars, writerVars, readerVars, loopVars
<1>4. \A x \in {d, e} :
           /\ wrHold[x] \in Int /\ wrote[x] \in Int /\ reserved[x] \in Int
  BY Ints
<1>5. wrHold'[d] = wrHold[d] \/ (wrHold'[d] = 0 /\ wrHold[d] \in Int)
  BY <1>2 DEF WriterStops, CompleteChunk, WriterType
<1>6. held[e].lo \in Int /\ held[e].hi \in Int /\ outQueue[e] \in Seq(Frame)
  BY Ints DEF WriteData
<1>7. held'[d] = (IF d = e THEN NoChunk ELSE held[d]) /\ wlPc'[d] = (IF d = e THEN "stopped" ELSE wlPc[d])
  BY <1>2 DEF WriterStops, LoopType
<1>8. WindowAccounts(d)' /\ ReadAccounts(d)' /\ connErr'[d] = "none"
  BY <1>1, <1>3 DEF FlowAt, WindowAccounts, ReadAccounts, Unaccounted
<1>9. ReservedFirst(d)'
  BY <1>1, <1>3, <1>5, <1>4 DEF FlowAt, ReservedFirst
<1>10. ChunksAreData(d)'
  BY <1>1, <1>3, <1>7, FrameFields DEF FlowAt, ChunksAreData
<1>11. DataInOrder(d)'
  <2>1. CASE d # e
    BY <1>1, <1>3, <2>1, <1>7, DataSame DEF FlowAt
  <2>2. CASE d = e
    <3>1. PICK m \in Int : DataPipe(e, m)
      BY <1>1, DataPick DEF FlowAt
    <3> DEFINE a == IF wlPc[e] = "write" THEN held[e].hi ELSE m
    <3>2. a \in Int /\ m <= a
      BY <3>1, <1>6 DEF DataPipe
    <3>3. Ordered(outQueue[e], "DATA", a, wrote[e])
      BY <3>1 DEF DataPipe
    <3> HIDE DEF a
    <3>4. Ordered(outQueue[e], "DATA", m, wrote[e])
      BY <3>2, <3>3, <1>6, <1>4, OrderedWiden
    <3>5. DataPipe(d, m)'
      BY <1>3, <2>2, <3>1, <3>4, <1>7 DEF DataPipe
    <3> QED
      BY <3>5, DataWitness
  <2> QED
    BY <2>1, <2>2
<1>12. CreditInOrder(d)'
  BY <1>1, <1>3, <1>8, CreditSame DEF FlowAt, Unsent
<1> QED
  BY <1>8, <1>9, <1>10, <1>11, <1>12 DEF FlowAt

\* Writing a control frame moves the boundary between control queue and link past its credit.
LEMMA WriteControlFlow ==
  ASSUME TypeOK, TypeOK', FlowInv, NEW e \in Ends, WriteControl(e), NEW d \in Ends
  PROVE  FlowAt(d)'
<1>1. FlowAt(d) /\ FlowAt(e) /\ FlowAt(Peer(d))
  BY PeerInEnds DEF FlowInv
<1>2. StreamType /\ ConnType /\ WriterType /\ ReaderType /\ LoopType
  BY DEF TypeOK
<1>3. UNCHANGED <<buf, connErr, credited, granted, held, outQueue, rdHand, rdPc, recvWindow,
                  reserved, sendWindow, state, unacked, wlPc, wrHold, wrPc, wrWant, wrote>>
  BY DEF WriteControl, streamVars, connVars, writerVars, readerVars, loopVars
<1> DEFINE f == Head(controlQueue[e])
<1>4. controlQueue[e] \in Seq(Frame) /\ controlQueue[e] # <<>> /\ link[e] \in Seq(Frame)
  BY Ints DEF WriteControl
<1>5. f \in Frame /\ f.lo \in Int /\ f.hi \in Int /\ f.type # "DATA"
  <2>1. f \in Frame
    BY <1>4
  <2> QED
    BY <1>1, <2>1, <1>4, FrameType, TailAll DEF FlowAt, ChunksAreData
<1>6. controlQueue'[d] = (IF d = e THEN Tail(controlQueue[e]) ELSE controlQueue[d])
  BY <1>2 DEF WriteControl, ConnType
<1>7. link'[d] = (IF d = e THEN Append(link[e], f) ELSE link[d])
  BY <1>2 DEF WriteControl, ConnType
<1>8. WindowAccounts(d)' /\ ReservedFirst(d)' /\ ReadAccounts(d)' /\ connErr'[d] = "none"
  BY <1>1, <1>3 DEF FlowAt, WindowAccounts, ReservedFirst, ReadAccounts, Unaccounted
<1>9. ChunksAreData(d)'
  BY <1>1, <1>3, <1>6, <1>4, TailAll DEF FlowAt, ChunksAreData
<1>10. DataInOrder(d)'
  <2>1. CASE d # e
    BY <1>1, <1>3, <2>1, <1>7, DataSame DEF FlowAt
  <2>2. CASE d = e
    <3>1. PICK m \in Int : DataPipe(e, m)
      BY <1>1, DataPick DEF FlowAt
    <3>2. buf[Peer(e)].hi \in Int
      BY Ints, PeerInEnds
    <3> HIDE DEF f
    <3>3. Ordered(Append(link[e], f), "DATA", buf[Peer(e)].hi, m)
      BY <3>1, <3>2, <1>4, <1>5, OrderedSkip DEF DataPipe
    <3>4. DataPipe(d, m)'
      BY <1>3, <2>2, <3>1, <3>3, <1>7 DEF DataPipe
    <3> QED
      BY <3>4, DataWitness
  <2> QED
    BY <2>1, <2>2
<1>11. CreditInOrder(d)'
  <2>1. CASE d # e
    BY <1>1, <1>3, <2>1, <1>7, <1>6, <1>8, CreditSame DEF FlowAt, Unsent
  <2>2. CASE d = e
    <3>1. PICK m \in Int : CreditPipe(e, m)
      BY <1>1, CreditPick DEF FlowAt
    <3> DEFINE c == credited[e] - Unsent(e)
    <3>2. granted[Peer(e)] \in Int /\ c \in Int
      BY Ints, PeerInEnds DEF Unsent
    <3>3. Ordered(controlQueue[e], "WINDOW", m, c) /\ Ordered(link[e], "WINDOW", granted[Peer(e)], m)
      BY <3>1 DEF CreditPipe
    <3>4. c = (credited[d] - Unsent(d))'
      BY <1>3, <2>2 DEF Unsent
    <3> HIDE DEF c
    <3>5. CASE f.type # "WINDOW"
      <4>1. Ordered(Tail(controlQueue[e]), "WINDOW", m, c)
        BY <3>2, <3>3, <1>4, OrderedTail
      <4> HIDE DEF f
      <4>2. Ordered(Append(link[e], f), "WINDOW", granted[Peer(e)], m)
        BY <3>2, <3>3, <3>5, <1>4, <1>5, OrderedSkip
      <4>3. CreditPipe(d, m)'
        BY <1>3, <2>2, <3>4, <4>1, <4>2, <1>6, <1>7 DEF CreditPipe
      <4> QED
        BY <4>3, <1>8, CreditWitness
    <3>6. CASE f.type = "WINDOW"
      <4>1. PICK k \in Int : k = f.hi
        BY <1>5
      <4>2. Ordered(Tail(controlQueue[e]), "WINDOW", k, c) /\ m <= f.lo /\ f.lo <= k /\ k <= k
        BY <3>2, <3>3, <3>6, <4>1, <1>4, OrderedTail
      <4> HIDE DEF f
      <4>3. Ordered(Append(link[e], f), "WINDOW", granted[Peer(e)], k)
        BY <3>2, <3>3, <3>6, <4>1, <4>2, <1>4, <1>5, OrderedAppend
      <4>4. CreditPipe(d, k)'
        BY <1>3, <2>2, <3>4, <4>2, <4>3, <1>6, <1>7 DEF CreditPipe
      <4> QED
        BY <4>4, <1>8, CreditWitness
    <3> QED
      BY <3>5, <3>6
  <2> QED
    BY <2>1, <2>2
<1> QED
  BY <1>8, <1>9, <1>10, <1>11 DEF FlowAt

\* Discarding a frame of a retired stream loses bytes or credit, and never duplicates any.
LEMMA LookupLiveStreamFlow ==
  ASSUME TypeOK, TypeOK', FlowInv, NEW e \in Ends, LookupLiveStream(e), NEW d \in Ends
  PROVE  FlowAt(d)'
<1>1. FlowAt(d) /\ FlowAt(e) /\ FlowAt(Peer(d))
  BY PeerInEnds DEF FlowInv
<1>2. StreamType /\ ConnType /\ WriterType /\ ReaderType /\ LoopType
  BY DEF TypeOK
<1>3. UNCHANGED <<buf, connErr, controlQueue, credited, granted, held, outQueue, rdHand, rdPc,
                  recvWindow, reserved, sendWindow, state, unacked, wlPc, wrHold, wrPc, wrWant,
                  wrote>>
  BY DEF LookupLiveStream, Incoming, Consume, streamVars, connVars, writerVars, readerVars, loopVars
<1>4. link'[d] = link[d] \/ (link'[d] = Tail(link[d]) /\ link[d] # <<>>)
  <2>1. link \in [Ends -> Seq(Frame)] /\ Peer(e) \in Ends
    BY <1>2, PeerInEnds DEF ConnType
  <2>2. link' = link \/ (link[Peer(e)] # <<>> /\ link' = [link EXCEPT ![Peer(e)] = Tail(@)])
    BY DEF LookupLiveStream, Dispatching, Incoming, Consume
  <2> QED
    BY <2>1, <2>2
<1>5. WindowAccounts(d)' /\ ReservedFirst(d)' /\ ChunksAreData(d)' /\ ReadAccounts(d)' /\ connErr'[d] = "none"
  BY <1>1, <1>3 DEF FlowAt, WindowAccounts, ReservedFirst, ChunksAreData, ReadAccounts, Unaccounted
<1>6. DataInOrder(d)'
  <2>1. CASE link'[d] = link[d]
    BY <1>1, <1>3, <2>1, DataSame DEF FlowAt
  <2>2. CASE link'[d] = Tail(link[d]) /\ link[d] # <<>>
    <3>1. PICK m \in Int : DataPipe(d, m)
      BY <1>1, DataPick DEF FlowAt
    <3>2. buf[Peer(d)].hi \in Int /\ link[d] \in Seq(Frame)
      BY Ints, PeerInEnds
    <3>3. Ordered(Tail(link[d]), "DATA", buf[Peer(d)].hi, m)
      BY <2>2, <3>1, <3>2, OrderedTail DEF DataPipe
    <3>4. DataPipe(d, m)'
      BY <1>3, <2>2, <3>1, <3>3 DEF DataPipe
    <3> QED
      BY <3>4, DataWitness
  <2> QED
    BY <1>4, <2>1, <2>2
<1>7. CreditInOrder(d)'
  <2>1. CASE link'[d] = link[d]
    BY <1>1, <1>3, <2>1, <1>5, CreditSame DEF FlowAt, Unsent
  <2>2. CASE link'[d] = Tail(link[d]) /\ link[d] # <<>>
    <3>1. PICK m \in Int : CreditPipe(d, m)
      BY <1>1, CreditPick DEF FlowAt
    <3>2. granted[Peer(d)] \in Int /\ link[d] \in Seq(Frame)
      BY Ints, PeerInEnds
    <3>3. Ordered(Tail(link[d]), "WINDOW", granted[Peer(d)], m)
      BY <2>2, <3>1, <3>2, OrderedTail DEF CreditPipe
    <3>4. CreditPipe(d, m)'
      BY <1>3, <2>2, <3>1, <3>3 DEF CreditPipe, Unsent
    <3> QED
      BY <3>4, <1>5, CreditWitness
  <2> QED
    BY <1>4, <2>1, <2>2
<1> QED
  BY <1>5, <1>6, <1>7 DEF FlowAt

\* A CLOSE carries no bytes and no credit.
LEMMA HandleCloseFlow ==
  ASSUME TypeOK, TypeOK', FlowInv, NEW e \in Ends, HandleClose(e), NEW d \in Ends
  PROVE  FlowAt(d)'
<1>1. FlowAt(d) /\ FlowAt(e) /\ FlowAt(Peer(d))
  BY PeerInEnds DEF FlowInv
<1>2. StreamType /\ ConnType /\ WriterType /\ ReaderType /\ LoopType
  BY DEF TypeOK
<1>3. UNCHANGED <<buf, connErr, controlQueue, credited, granted, held, outQueue, rdHand, rdPc,
                  recvWindow, reserved, sendWindow, unacked, wlPc, wrHold, wrPc, wrWant, wrote>>
  BY DEF HandleClose, Incoming, Consume, NotifyLocked, BufLen, Dispatching, streamVars, connVars,
     writerVars, readerVars, loopVars
<1>4. link'[d] = link[d] \/ (link'[d] = Tail(link[d]) /\ link[d] # <<>>)
  <2>1. link \in [Ends -> Seq(Frame)] /\ Peer(e) \in Ends
    BY <1>2, PeerInEnds DEF ConnType
  <2>2. link' = link \/ (link[Peer(e)] # <<>> /\ link' = [link EXCEPT ![Peer(e)] = Tail(@)])
    BY DEF HandleClose, Dispatching, Incoming, Consume
  <2> QED
    BY <2>1, <2>2
<1>5. state'[d] = state[d] \/ state[d] # "closed"
  BY <1>2 DEF HandleClose, StreamType
<1>6. WindowAccounts(d)' /\ ReservedFirst(d)' /\ ChunksAreData(d)' /\ connErr'[d] = "none"
  BY <1>1, <1>3 DEF FlowAt, WindowAccounts, ReservedFirst, ChunksAreData
<1>7. DataInOrder(d)'
  <2>1. CASE link'[d] = link[d]
    BY <1>1, <1>3, <2>1, DataSame DEF FlowAt
  <2>2. CASE link'[d] = Tail(link[d]) /\ link[d] # <<>>
    <3>1. PICK m \in Int : DataPipe(d, m)
      BY <1>1, DataPick DEF FlowAt
    <3>2. buf[Peer(d)].hi \in Int /\ link[d] \in Seq(Frame)
      BY Ints, PeerInEnds
    <3>3. Ordered(Tail(link[d]), "DATA", buf[Peer(d)].hi, m)
      BY <2>2, <3>1, <3>2, OrderedTail DEF DataPipe
    <3>4. DataPipe(d, m)'
      BY <1>3, <2>2, <3>1, <3>3 DEF DataPipe
    <3> QED
      BY <3>4, DataWitness
  <2> QED
    BY <1>4, <2>1, <2>2
<1>8. ReadAccounts(d)'
  BY <1>1, <1>3, <1>5 DEF FlowAt, ReadAccounts, Unaccounted
<1>9. CreditInOrder(d)'
  <2>1. CASE link'[d] = link[d]
    BY <1>1, <1>3, <2>1, <1>8, CreditSame DEF FlowAt, Unsent
  <2>2. CASE link'[d] = Tail(link[d]) /\ link[d] # <<>>
    <3>1. PICK m \in Int : CreditPipe(d, m)
      BY <1>1, CreditPick DEF FlowAt
    <3>2. granted[Peer(d)] \in Int /\ link[d] \in Seq(Frame)
      BY Ints, PeerInEnds
    <3>3. Ordered(Tail(link[d]), "WINDOW", granted[Peer(d)], m)
      BY <2>2, <3>1, <3>2, OrderedTail DEF CreditPipe
    <3>4. CreditPipe(d, m)'
      BY <1>3, <2>2, <3>1, <3>3 DEF CreditPipe, Unsent
    <3> QED
      BY <3>4, <1>8, CreditWitness
  <2> QED
    BY <1>4, <2>1, <2>2
<1> QED
  BY <1>6, <1>7, <1>8, <1>9 DEF FlowAt

\* CloseWrite changes the state of an open stream only.
LEMMA CloseWriteFlow ==
  ASSUME TypeOK, TypeOK', FlowInv, NEW e \in Ends, CloseWrite(e), NEW d \in Ends
  PROVE  FlowAt(d)'
<1>1. FlowAt(d) /\ FlowAt(e) /\ FlowAt(Peer(d))
  BY PeerInEnds DEF FlowInv
<1>2. StreamType /\ ConnType /\ WriterType /\ ReaderType /\ LoopType
  BY DEF TypeOK
<1>3. UNCHANGED <<buf, connErr, controlQueue, credited, granted, held, link, outQueue, rdHand,
                  rdPc, recvWindow, reserved, sendWindow, unacked, wlPc, wrHold, wrPc, wrWant,
                  wrote>>
  BY DEF CloseWrite, CloseWriteLocked, Sendable, NotifyLocked, streamVars, connVars, writerVars,
     readerVars, loopVars
<1>4. state'[d] = state[d] \/ state[d] # "closed"
  BY <1>2 DEF CloseWrite, CloseWriteLocked, Sendable, StreamType
<1>5. WindowAccounts(d)' /\ ReservedFirst(d)' /\ ChunksAreData(d)' /\ connErr'[d] = "none"
  BY <1>1, <1>3 DEF FlowAt, WindowAccounts, ReservedFirst, ChunksAreData
<1>6. DataInOrder(d)'
  BY <1>1, <1>3, DataSame DEF FlowAt
<1>7. ReadAccounts(d)'
  BY <1>1, <1>3, <1>4 DEF FlowAt, ReadAccounts, Unaccounted
<1>8. CreditInOrder(d)'
  BY <1>1, <1>3, <1>7, CreditSame DEF FlowAt, Unsent
<1> QED
  BY <1>5, <1>6, <1>7, <1>8 DEF FlowAt

\* So does the CloseWrite inside Close.
LEMMA CloseCloseWriteFlow ==
  ASSUME TypeOK, TypeOK', FlowInv, NEW e \in Ends, CloseCloseWrite(e), NEW d \in Ends
  PROVE  FlowAt(d)'
<1>1. FlowAt(d) /\ FlowAt(e) /\ FlowAt(Peer(d))
  BY PeerInEnds DEF FlowInv
<1>2. StreamType /\ ConnType /\ WriterType /\ ReaderType /\ LoopType
  BY DEF TypeOK
<1>3. UNCHANGED <<buf, connErr, controlQueue, credited, granted, held, link, outQueue, rdHand,
                  rdPc, recvWindow, reserved, sendWindow, unacked, wlPc, wrHold, wrPc, wrWant,
                  wrote>>
  BY DEF CloseCloseWrite, CloseWriteLocked, Sendable, NotifyLocked, streamVars, connVars,
     writerVars, readerVars, loopVars
<1>4. state'[d] = state[d] \/ state[d] # "closed"
  BY <1>2 DEF CloseCloseWrite, CloseWriteLocked, Sendable, StreamType
<1>5. WindowAccounts(d)' /\ ReservedFirst(d)' /\ ChunksAreData(d)' /\ connErr'[d] = "none"
  BY <1>1, <1>3 DEF FlowAt, WindowAccounts, ReservedFirst, ChunksAreData
<1>6. DataInOrder(d)'
  BY <1>1, <1>3, DataSame DEF FlowAt
<1>7. ReadAccounts(d)'
  BY <1>1, <1>3, <1>4 DEF FlowAt, ReadAccounts, Unaccounted
<1>8. CreditInOrder(d)'
  BY <1>1, <1>3, <1>7, CreditSame DEF FlowAt, Unsent
<1> QED
  BY <1>5, <1>6, <1>7, <1>8 DEF FlowAt

\* A local Reset drops the buffer and the duty to credit it.
LEMMA ResetFlow ==
  ASSUME TypeOK, TypeOK', FlowInv, NEW e \in Ends, Reset(e), NEW d \in Ends
  PROVE  FlowAt(d)'
<1>1. FlowAt(d) /\ FlowAt(e) /\ FlowAt(Peer(d))
  BY PeerInEnds DEF FlowInv
<1>2. StreamType /\ ConnType /\ WriterType /\ ReaderType /\ LoopType
  BY DEF TypeOK
<1>3. UNCHANGED <<connErr, controlQueue, credited, granted, held, link, outQueue, rdHand, rdPc,
                  recvWindow, reserved, sendWindow, unacked, wlPc, wrHold, wrPc, wrWant, wrote>>
  BY DEF Reset, ResetLocked, NotifyLocked, streamVars, connVars, writerVars, readerVars, loopVars
<1>4. \A x \in {d, e} :
           /\ buf[x].lo \in Int /\ buf[x].hi \in Int /\ credited[x] \in Int
           /\ unacked[x] \in Int /\ rdHand[x] \in Int
  BY Ints
<1>5. \/ buf'[d] = buf[d] /\ state'[d] = state[d]
      \/ buf'[d] = [lo |-> buf[d].hi, hi |-> buf[d].hi] /\ state'[d] = "closed"
  <2>1. \/ buf' = buf /\ state' = state
        \/ buf' = [buf EXCEPT ![e] = [lo |-> buf[e].hi, hi |-> buf[e].hi]] /\ state' = [state EXCEPT ![e] = "closed"]
    BY DEF Reset, ResetLocked, streamVars
  <2>2. buf \in [Ends -> Positions] /\ state \in [Ends -> States]
    BY <1>2 DEF StreamType
  <2> QED
    BY <2>1, <2>2
<1>6. \A x \in Ends : buf'[x].hi = buf[x].hi
  <2>1. \/ buf' = buf
        \/ buf' = [buf EXCEPT ![e] = [lo |-> buf[e].hi, hi |-> buf[e].hi]]
    BY DEF Reset, ResetLocked, streamVars
  <2>2. buf \in [Ends -> Positions]
    BY <1>2 DEF StreamType
  <2> QED
    BY <2>1, <2>2
<1>7. ReservedFirst(d)' /\ ChunksAreData(d)' /\ connErr'[d] = "none"
  BY <1>1, <1>3 DEF FlowAt, ReservedFirst, ChunksAreData
<1>8. WindowAccounts(d)'
  BY <1>1, <1>3, <1>6 DEF FlowAt, WindowAccounts
<1>9. DataInOrder(d)'
  BY <1>1, <1>3, <1>6, PeerInEnds, DataSame DEF FlowAt
<1>10. ReadAccounts(d)'
  BY <1>1, <1>3, <1>5, <1>4 DEF FlowAt, ReadAccounts, Unaccounted
<1>11. CreditInOrder(d)'
  BY <1>1, <1>3, <1>10, CreditSame DEF FlowAt, Unsent
<1> QED
  BY <1>7, <1>8, <1>9, <1>10, <1>11 DEF FlowAt

\* So does the Reset inside Close.
LEMMA CloseResetFlow ==
  ASSUME TypeOK, TypeOK', FlowInv, NEW e \in Ends, CloseReset(e), NEW d \in Ends
  PROVE  FlowAt(d)'
<1>1. FlowAt(d) /\ FlowAt(e) /\ FlowAt(Peer(d))
  BY PeerInEnds DEF FlowInv
<1>2. StreamType /\ ConnType /\ WriterType /\ ReaderType /\ LoopType
  BY DEF TypeOK
<1>3. UNCHANGED <<connErr, controlQueue, credited, granted, held, link, outQueue, rdHand, rdPc,
                  recvWindow, reserved, sendWindow, unacked, wlPc, wrHold, wrPc, wrWant, wrote>>
  BY DEF CloseReset, ResetLocked, NotifyLocked, streamVars, connVars, writerVars, readerVars,
     loopVars
<1>4. \A x \in {d, e} :
           /\ buf[x].lo \in Int /\ buf[x].hi \in Int /\ credited[x] \in Int
           /\ unacked[x] \in Int /\ rdHand[x] \in Int
  BY Ints
<1>5. \/ buf'[d] = buf[d] /\ state'[d] = state[d]
      \/ buf'[d] = [lo |-> buf[d].hi, hi |-> buf[d].hi] /\ state'[d] = "closed"
  <2>1. \/ buf' = buf /\ state' = state
        \/ buf' = [buf EXCEPT ![e] = [lo |-> buf[e].hi, hi |-> buf[e].hi]] /\ state' = [state EXCEPT ![e] = "closed"]
    BY DEF CloseReset, ResetLocked, streamVars
  <2>2. buf \in [Ends -> Positions] /\ state \in [Ends -> States]
    BY <1>2 DEF StreamType
  <2> QED
    BY <2>1, <2>2
<1>6. \A x \in Ends : buf'[x].hi = buf[x].hi
  <2>1. \/ buf' = buf
        \/ buf' = [buf EXCEPT ![e] = [lo |-> buf[e].hi, hi |-> buf[e].hi]]
    BY DEF CloseReset, ResetLocked, streamVars
  <2>2. buf \in [Ends -> Positions]
    BY <1>2 DEF StreamType
  <2> QED
    BY <2>1, <2>2
<1>7. ReservedFirst(d)' /\ ChunksAreData(d)' /\ connErr'[d] = "none"
  BY <1>1, <1>3 DEF FlowAt, ReservedFirst, ChunksAreData
<1>8. WindowAccounts(d)'
  BY <1>1, <1>3, <1>6 DEF FlowAt, WindowAccounts
<1>9. DataInOrder(d)'
  BY <1>1, <1>3, <1>6, PeerInEnds, DataSame DEF FlowAt
<1>10. ReadAccounts(d)'
  BY <1>1, <1>3, <1>5, <1>4 DEF FlowAt, ReadAccounts, Unaccounted
<1>11. CreditInOrder(d)'
  BY <1>1, <1>3, <1>10, CreditSame DEF FlowAt, Unsent
<1> QED
  BY <1>7, <1>8, <1>9, <1>10, <1>11 DEF FlowAt

\* So does the mirrored reset of resetStream.
LEMMA ResetStreamFlow ==
  ASSUME TypeOK, TypeOK', FlowInv, NEW e \in Ends, ResetStream(e), NEW d \in Ends
  PROVE  FlowAt(d)'
<1>1. FlowAt(d) /\ FlowAt(e) /\ FlowAt(Peer(d))
  BY PeerInEnds DEF FlowInv
<1>2. StreamType /\ ConnType /\ WriterType /\ ReaderType /\ LoopType
  BY DEF TypeOK
<1>3. UNCHANGED <<connErr, controlQueue, credited, granted, held, link, outQueue, rdHand, rdPc,
                  recvWindow, reserved, sendWindow, unacked, wlPc, wrHold, wrPc, wrWant, wrote>>
  BY DEF ResetStream, ApplyReset, NotifyLocked, streamVars, connVars, writerVars, readerVars,
     loopVars
<1>4. \A x \in {d, e} :
           /\ buf[x].lo \in Int /\ buf[x].hi \in Int /\ credited[x] \in Int
           /\ unacked[x] \in Int /\ rdHand[x] \in Int
  BY Ints
<1>5. \/ buf'[d] = buf[d] /\ state'[d] = state[d]
      \/ buf'[d] = [lo |-> buf[d].hi, hi |-> buf[d].hi] /\ state'[d] = "closed"
  <2>1. \/ buf' = buf /\ state' = state
        \/ buf' = [buf EXCEPT ![e] = [lo |-> buf[e].hi, hi |-> buf[e].hi]] /\ state' = [state EXCEPT ![e] = "closed"]
    BY DEF ResetStream, ApplyReset
  <2>2. buf \in [Ends -> Positions] /\ state \in [Ends -> States]
    BY <1>2 DEF StreamType
  <2> QED
    BY <2>1, <2>2
<1>6. \A x \in Ends : buf'[x].hi = buf[x].hi
  <2>1. \/ buf' = buf
        \/ buf' = [buf EXCEPT ![e] = [lo |-> buf[e].hi, hi |-> buf[e].hi]]
    BY DEF ResetStream, ApplyReset
  <2>2. buf \in [Ends -> Positions]
    BY <1>2 DEF StreamType
  <2> QED
    BY <2>1, <2>2
<1>7. ReservedFirst(d)' /\ ChunksAreData(d)' /\ connErr'[d] = "none"
  BY <1>1, <1>3 DEF FlowAt, ReservedFirst, ChunksAreData
<1>8. WindowAccounts(d)'
  BY <1>1, <1>3, <1>6 DEF FlowAt, WindowAccounts
<1>9. DataInOrder(d)'
  BY <1>1, <1>3, <1>6, PeerInEnds, DataSame DEF FlowAt
<1>10. ReadAccounts(d)'
  BY <1>1, <1>3, <1>5, <1>4 DEF FlowAt, ReadAccounts, Unaccounted
<1>11. CreditInOrder(d)'
  BY <1>1, <1>3, <1>10, CreditSame DEF FlowAt, Unsent
<1> QED
  BY <1>7, <1>8, <1>9, <1>10, <1>11 DEF FlowAt

\* So does the peer's RESET.
LEMMA HandleResetFlow ==
  ASSUME TypeOK, TypeOK', FlowInv, NEW e \in Ends, HandleReset(e), NEW d \in Ends
  PROVE  FlowAt(d)'
<1>1. FlowAt(d) /\ FlowAt(e) /\ FlowAt(Peer(d))
  BY PeerInEnds DEF FlowInv
<1>2. StreamType /\ ConnType /\ WriterType /\ ReaderType /\ LoopType
  BY DEF TypeOK
<1>3. UNCHANGED <<connErr, controlQueue, credited, granted, held, outQueue, rdHand, rdPc,
                  recvWindow, reserved, sendWindow, unacked, wlPc, wrHold, wrPc, wrWant, wrote>>
  BY DEF HandleReset, Incoming, Consume, ApplyReset, NotifyLocked, Dispatching, streamVars,
     connVars, writerVars, readerVars, loopVars
<1>4. \A x \in {d, e} :
           /\ buf[x].lo \in Int /\ buf[x].hi \in Int /\ credited[x] \in Int
           /\ unacked[x] \in Int /\ rdHand[x] \in Int
  BY Ints
<1>5. \/ buf'[d] = buf[d] /\ state'[d] = state[d]
      \/ buf'[d] = [lo |-> buf[d].hi, hi |-> buf[d].hi] /\ state'[d] = "closed"
  <2>1. \/ buf' = buf /\ state' = state
        \/ buf' = [buf EXCEPT ![e] = [lo |-> buf[e].hi, hi |-> buf[e].hi]] /\ state' = [state EXCEPT ![e] = "closed"]
    BY DEF HandleReset, ApplyReset
  <2>2. buf \in [Ends -> Positions] /\ state \in [Ends -> States]
    BY <1>2 DEF StreamType
  <2> QED
    BY <2>1, <2>2
<1>6. \A x \in Ends : buf'[x].hi = buf[x].hi
  <2>1. \/ buf' = buf
        \/ buf' = [buf EXCEPT ![e] = [lo |-> buf[e].hi, hi |-> buf[e].hi]]
    BY DEF HandleReset, ApplyReset
  <2>2. buf \in [Ends -> Positions]
    BY <1>2 DEF StreamType
  <2> QED
    BY <2>1, <2>2
<1>7. link'[d] = link[d] \/ (link'[d] = Tail(link[d]) /\ link[d] # <<>>)
  <2>1. link \in [Ends -> Seq(Frame)] /\ Peer(e) \in Ends
    BY <1>2, PeerInEnds DEF ConnType
  <2>2. link' = link \/ (link[Peer(e)] # <<>> /\ link' = [link EXCEPT ![Peer(e)] = Tail(@)])
    BY DEF HandleReset, Dispatching, Incoming, Consume
  <2> QED
    BY <2>1, <2>2
<1>8. ReservedFirst(d)' /\ ChunksAreData(d)' /\ connErr'[d] = "none"
  BY <1>1, <1>3 DEF FlowAt, ReservedFirst, ChunksAreData
<1>9. WindowAccounts(d)'
  BY <1>1, <1>3, <1>6 DEF FlowAt, WindowAccounts
<1>10. DataInOrder(d)'
  <2>1. CASE link'[d] = link[d]
    BY <1>1, <1>3, <2>1, <1>6, PeerInEnds, DataSame DEF FlowAt
  <2>2. CASE link'[d] = Tail(link[d]) /\ link[d] # <<>>
    <3>1. PICK m \in Int : DataPipe(d, m)
      BY <1>1, DataPick DEF FlowAt
    <3>2. buf[Peer(d)].hi \in Int /\ link[d] \in Seq(Frame)
      BY Ints, PeerInEnds
    <3>3. Ordered(Tail(link[d]), "DATA", buf[Peer(d)].hi, m)
      BY <2>2, <3>1, <3>2, OrderedTail DEF DataPipe
    <3>4. DataPipe(d, m)'
      BY <1>3, <2>2, <3>1, <3>3, <1>6, PeerInEnds DEF DataPipe
    <3> QED
      BY <3>4, DataWitness
  <2> QED
    BY <1>7, <2>1, <2>2
<1>11. ReadAccounts(d)'
  BY <1>1, <1>3, <1>5, <1>4 DEF FlowAt, ReadAccounts, Unaccounted
<1>12. CreditInOrder(d)'
  <2>1. CASE link'[d] = link[d]
    BY <1>1, <1>3, <2>1, <1>11, CreditSame DEF FlowAt, Unsent
  <2>2. CASE link'[d] = Tail(link[d]) /\ link[d] # <<>>
    <3>1. PICK m \in Int : CreditPipe(d, m)
      BY <1>1, CreditPick DEF FlowAt
    <3>2. granted[Peer(d)] \in Int /\ link[d] \in Seq(Frame)
      BY Ints, PeerInEnds
    <3>3. Ordered(Tail(link[d]), "WINDOW", granted[Peer(d)], m)
      BY <2>2, <3>1, <3>2, OrderedTail DEF CreditPipe
    <3>4. CreditPipe(d, m)'
      BY <1>3, <2>2, <3>1, <3>3 DEF CreditPipe, Unsent
    <3> QED
      BY <3>4, <1>11, CreditWitness
  <2> QED
    BY <1>7, <2>1, <2>2
<1> QED
  BY <1>8, <1>9, <1>10, <1>11, <1>12 DEF FlowAt

\* The chain that bounds what is on its way to e: received, queued, reserved, allowed,
\* where what is allowed goes back to what was credited and so to what was received.
LEMMA Bounds ==
  ASSUME TypeOK, FlowInv, NEW e \in Ends
  PROVE  /\ buf[e].hi <= wrote[Peer(e)]
         /\ wrote[Peer(e)] <= reserved[Peer(e)]
         /\ reserved[Peer(e)] <= Window[e] + granted[Peer(e)]
         /\ granted[Peer(e)] <= credited[e]
         /\ credited[e] <= buf[e].hi
<1> DEFINE p == Peer(e)
<1>1. p \in Ends /\ Peer(p) = e
  BY PeerInEnds
<1>2. FlowAt(e) /\ FlowAt(p)
  BY <1>1 DEF FlowInv
<1> HIDE DEF p
<1>3. /\ buf[e].hi \in Int /\ buf[e].lo \in Int /\ wrote[p] \in Int /\ reserved[p] \in Int
      /\ granted[p] \in Int /\ credited[e] \in Int /\ wrHold[p] \in Int /\ Window[e] \in Int
      /\ sendWindow[p] \in Int /\ rdHand[e] \in Int /\ unacked[e] \in Int
  BY <1>1, Ints
<1>4. buf[e].hi <= wrote[p]
  BY <1>1, <1>2, <1>3 DEF FlowAt, DataInOrder
<1>5. wrote[p] <= reserved[p]
  BY <1>2, <1>3 DEF FlowAt, ReservedFirst
<1>6. reserved[p] <= Window[e] + granted[p]
  BY <1>1, <1>2, <1>3 DEF FlowAt, WindowAccounts
<1>7. granted[p] <= credited[e]
  BY <1>2, <1>3 DEF FlowAt, CreditInOrder, p
<1>8. credited[e] <= buf[e].hi
  BY <1>2, <1>3 DEF FlowAt, ReadAccounts, Unaccounted
<1> QED
  BY <1>4, <1>5, <1>6, <1>7, <1>8 DEF p

\* The DATA at the head of the link continues what e has received and was queued by its peer.
LEMMA HeadData ==
  ASSUME TypeOK, FlowInv, NEW e \in Ends, Incoming(e) # <<>>, Head(Incoming(e)).type = "DATA"
  PROVE  LET f == Head(Incoming(e)) IN
           f.lo \in Int /\ f.hi \in Int /\ buf[e].hi <= f.lo /\ f.lo <= f.hi /\ f.hi <= wrote[Peer(e)]
<1> DEFINE p == Peer(e)
<1>1. p \in Ends /\ Peer(p) = e
  BY PeerInEnds
<1>2. DataInOrder(p)
  BY <1>1 DEF FlowInv, FlowAt
<1> HIDE DEF p
<1>3. buf[e].hi \in Int /\ wrote[p] \in Int /\ link[p] \in Seq(Frame)
  BY <1>1, Ints
<1>4. PICK m \in buf[e].hi..wrote[p] : DataPipe(p, m)
  BY <1>1, <1>2 DEF DataInOrder
<1>5. m \in Int /\ m <= wrote[p]
  BY <1>3, <1>4
<1>6. link[p] # <<>> /\ Head(link[p]).type = "DATA" /\ Ordered(link[p], "DATA", buf[e].hi, m)
  BY <1>1, <1>4 DEF Incoming, DataPipe, p
<1>7. Head(link[p]) \in Frame
  BY <1>3, <1>6
<1>8. Head(link[p]).lo \in Int /\ Head(link[p]).hi \in Int
  BY <1>7, FrameType
<1>9. buf[e].hi <= Head(link[p]).lo /\ Head(link[p]).lo <= Head(link[p]).hi /\ Head(link[p]).hi <= m
  BY <1>3, <1>5, <1>6, OrderedTail
<1>10. Head(link[p]).hi <= wrote[p]
  BY <1>3, <1>5, <1>8, <1>9
<1> QED
  BY <1>8, <1>9, <1>10 DEF Incoming, p

\* The WINDOW at the head of the link grants credit beyond what e was granted, and its
\* peer has accounted for it.
LEMMA HeadWindow ==
  ASSUME TypeOK, FlowInv, NEW e \in Ends, Incoming(e) # <<>>, Head(Incoming(e)).type = "WINDOW"
  PROVE  LET f == Head(Incoming(e)) IN
           f.lo \in Int /\ f.hi \in Int /\ granted[e] <= f.lo /\ f.lo <= f.hi /\ f.hi <= credited[Peer(e)]
<1> DEFINE p == Peer(e)
<1>1. p \in Ends /\ Peer(p) = e
  BY PeerInEnds
<1>2. CreditInOrder(p)
  BY <1>1 DEF FlowInv, FlowAt
<1> HIDE DEF p
<1>3. granted[e] \in Int /\ credited[p] \in Int /\ link[p] \in Seq(Frame)
  BY <1>1, Ints
<1>4. PICK m \in granted[e]..credited[p] : CreditPipe(p, m)
  BY <1>1, <1>2 DEF CreditInOrder
<1>5. m \in Int /\ m <= credited[p]
  BY <1>3, <1>4
<1>6. link[p] # <<>> /\ Head(link[p]).type = "WINDOW" /\ Ordered(link[p], "WINDOW", granted[e], m)
  BY <1>1, <1>4 DEF Incoming, CreditPipe, p
<1>7. Head(link[p]) \in Frame
  BY <1>3, <1>6
<1>8. Head(link[p]).lo \in Int /\ Head(link[p]).hi \in Int
  BY <1>7, FrameType
<1>9. granted[e] <= Head(link[p]).lo /\ Head(link[p]).lo <= Head(link[p]).hi /\ Head(link[p]).hi <= m
  BY <1>3, <1>5, <1>6, OrderedTail
<1>10. Head(link[p]).hi <= credited[p]
  BY <1>3, <1>5, <1>8, <1>9
<1> QED
  BY <1>8, <1>9, <1>10 DEF Incoming, p

\* DATA always fits the receive window, so it is appended or, on a closed side, dropped.
LEMMA HandleDataFlow ==
  ASSUME TypeOK, TypeOK', FlowInv, NEW e \in Ends, HandleData(e), NEW d \in Ends
  PROVE  FlowAt(d)'
<1>1. FlowAt(d) /\ FlowAt(e) /\ FlowAt(Peer(d))
  BY PeerInEnds DEF FlowInv
<1>2. StreamType /\ ConnType /\ WriterType /\ ReaderType /\ LoopType
  BY DEF TypeOK
<1>3. UNCHANGED <<controlQueue, credited, granted, held, outQueue, rdHand, rdPc, reserved,
                  sendWindow, state, unacked, wlPc, wrHold, wrPc, wrWant, wrote>>
  BY DEF HandleData, Incoming, Consume, FailConn, NotifyLocked, Dispatching, streamVars, connVars,
     writerVars, readerVars, loopVars
<1>4. /\ \A x \in {d, e} :
           /\ buf[x].lo \in Int /\ buf[x].hi \in Int /\ credited[x] \in Int
           /\ unacked[x] \in Int /\ rdHand[x] \in Int /\ recvWindow[x] \in Int
           /\ sendWindow[x] \in Int /\ granted[x] \in Int /\ reserved[x] \in Int
      /\ Window[d] \in Int /\ Window[Peer(d)] \in Int
  BY Ints, PeerInEnds
<1>5. wrote[Peer(e)] \in Int /\ reserved[Peer(e)] \in Int /\ granted[Peer(e)] \in Int /\ Window[e] \in Int
  BY Ints, PeerInEnds
<1> DEFINE f == Head(Incoming(e))
<1> DEFINE k == f.hi - f.lo
<1>6. f.lo \in Int /\ f.hi \in Int /\ buf[e].hi <= f.lo /\ f.lo <= f.hi /\ f.hi <= wrote[Peer(e)]
  BY HeadData DEF HandleData, Dispatching
<1>7. recvWindow[e] = Window[e] + credited[e] - buf[e].hi
  BY <1>1 DEF FlowAt, WindowAccounts
<1>8. k \in Int /\ k >= 0 /\ buf[e].hi + k <= f.hi /\ ~(k > recvWindow[e])
  <2>1. k \in Int /\ k = f.hi - f.lo
    BY <1>6
  <2> HIDE DEF f, k
  <2> QED
    BY <1>4, <1>5, <1>6, <1>7, <2>1, Bounds
<1>9. /\ connErr' = connErr
      /\ \/ buf' = buf /\ recvWindow' = recvWindow
         \/ /\ buf' = [buf EXCEPT ![e] = [lo |-> buf[e].lo, hi |-> buf[e].hi + k]]
            /\ recvWindow' = [recvWindow EXCEPT ![e] = @ - k]
  BY <1>8 DEF HandleData
<1>10. link[Peer(e)] # <<>> /\ link'[d] = (IF d = Peer(e) THEN Tail(link[d]) ELSE link[d])
  <2>1. link \in [Ends -> Seq(Frame)] /\ Peer(e) \in Ends
    BY <1>2, PeerInEnds DEF ConnType
  <2>2. link[Peer(e)] # <<>> /\ link' = [link EXCEPT ![Peer(e)] = Tail(@)]
    BY DEF HandleData, Dispatching, Incoming, Consume
  <2> QED
    BY <2>1, <2>2
<1> HIDE DEF f, k
<1>11. \/ buf' = buf /\ recvWindow'[d] = recvWindow[d]
       \/ /\ \A x \in Ends : buf'[x].lo = buf[x].lo /\ buf'[x].hi = (IF x = e THEN buf[e].hi + k ELSE buf[x].hi)
          /\ recvWindow'[d] = (IF d = e THEN recvWindow[e] - k ELSE recvWindow[d])
  <2>1. buf \in [Ends -> Positions] /\ recvWindow \in [Ends -> Int]
    BY <1>2 DEF StreamType
  <2> QED
    BY <2>1, <1>9
<1>12. ReservedFirst(d)' /\ ChunksAreData(d)'
  BY <1>1, <1>3 DEF FlowAt, ReservedFirst, ChunksAreData
<1>13. WindowAccounts(d)'
  BY <1>1, <1>3, <1>4, <1>8, <1>11 DEF FlowAt, WindowAccounts
<1>14. DataInOrder(d)'
  <2>1. CASE d # Peer(e)
    <3>1. d = e /\ Peer(d) # e /\ Peer(d) \in Ends
      BY <2>1, PeerInEnds DEF Ends, Peer
    <3>2. buf'[Peer(d)].hi = buf[Peer(d)].hi
      BY <3>1, <1>11
    <3> QED
      BY <1>1, <1>3, <2>1, <3>2, <1>10, DataSame DEF FlowAt
  <2>2. CASE d = Peer(e)
    <3>1. PICK m \in Int : DataPipe(d, m)
      BY <1>1, DataPick DEF FlowAt
    <3>2. Peer(d) = e /\ link[d] \in Seq(Frame) /\ Head(link[d]) = f /\ f.type = "DATA"
      BY <2>2, PeerInEnds, Ints DEF f, Incoming, HandleData, Dispatching
    <3>3. Ordered(link[d], "DATA", buf[e].hi, m)
      BY <3>1, <3>2 DEF DataPipe
    <3>4. Ordered(Tail(link[d]), "DATA", buf[e].hi, m) /\ Ordered(Tail(link[d]), "DATA", f.hi, m)
      BY <2>2, <3>2, <3>3, <1>4, <1>10, OrderedTail
    <3>5. Tail(link[d]) \in Seq(Frame)
      BY <2>2, <3>2, <1>10
    <3>6. buf'[e].hi = buf[e].hi \/ buf'[e].hi = buf[e].hi + k
      BY <1>11
    <3>7. Ordered(Tail(link[d]), "DATA", buf'[e].hi, m)
      <4>1. CASE buf'[e].hi = buf[e].hi
        BY <3>4, <4>1
      <4>2. CASE buf'[e].hi = buf[e].hi + k
        <5>1. buf[e].hi + k \in Int /\ m <= m
          BY <1>4, <1>8
        <5> QED
          BY <3>4, <3>5, <4>2, <5>1, <1>8, <1>6, OrderedWiden
      <4> QED
        BY <3>6, <4>1, <4>2
    <3>8. DataPipe(d, m)'
      BY <1>3, <2>2, <3>1, <3>2, <3>7, <1>10 DEF DataPipe
    <3> QED
      BY <3>8, DataWitness
  <2> QED
    BY <2>1, <2>2
<1>15. ReadAccounts(d)'
  BY <1>1, <1>3, <1>4, <1>8, <1>11 DEF FlowAt, ReadAccounts, Unaccounted
<1>16. CreditInOrder(d)'
  <2>1. CASE link'[d] = link[d]
    BY <1>1, <1>3, <2>1, <1>15, CreditSame DEF FlowAt, Unsent
  <2>2. CASE link'[d] = Tail(link[d]) /\ link[d] # <<>>
    <3>1. PICK m \in Int : CreditPipe(d, m)
      BY <1>1, CreditPick DEF FlowAt
    <3>2. granted[Peer(d)] \in Int /\ link[d] \in Seq(Frame)
      BY Ints, PeerInEnds
    <3>3. Ordered(Tail(link[d]), "WINDOW", granted[Peer(d)], m)
      BY <2>2, <3>1, <3>2, OrderedTail DEF CreditPipe
    <3>4. CreditPipe(d, m)'
      BY <1>3, <2>2, <3>1, <3>3 DEF CreditPipe, Unsent
    <3> QED
      BY <3>4, <1>15, CreditWitness
  <2> QED
    BY <1>10, <2>1, <2>2
<1>17. connErr'[d] = "none"
  BY <1>1, <1>9 DEF FlowAt
<1> QED
  BY <1>12, <1>13, <1>14, <1>15, <1>16, <1>17 DEF FlowAt

\* The credit of a WINDOW never takes the send window past the initial one.
LEMMA HandleWindowFlow ==
  ASSUME TypeOK, TypeOK', FlowInv, NEW e \in Ends, HandleWindow(e), NEW d \in Ends
  PROVE  FlowAt(d)'
<1>1. FlowAt(d) /\ FlowAt(e) /\ FlowAt(Peer(d))
  BY PeerInEnds DEF FlowInv
<1>2. StreamType /\ ConnType /\ WriterType /\ ReaderType /\ LoopType
  BY DEF TypeOK
<1>3. UNCHANGED <<buf, controlQueue, credited, held, outQueue, rdHand, rdPc, recvWindow, reserved,
                  state, unacked, wlPc, wrHold, wrPc, wrWant, wrote>>
  BY DEF HandleWindow, Incoming, Consume, FailConn, NotifyLocked, Dispatching, streamVars,
     connVars, writerVars, readerVars, loopVars
<1>4. /\ \A x \in {d, e} :
           /\ sendWindow[x] \in Int /\ granted[x] \in Int /\ reserved[x] \in Int
           /\ recvWindow[x] \in Int /\ buf[x].lo \in Int /\ buf[x].hi \in Int
           /\ credited[x] \in Int
      /\ Window[d] \in Int /\ Window[Peer(d)] \in Int
  BY Ints, PeerInEnds
<1>5. /\ wrote[e] \in Int /\ buf[Peer(e)].hi \in Int /\ credited[Peer(e)] \in Int /\ Window[Peer(e)] \in Int
      /\ Window[Peer(e)] <= MaxSendWindow /\ MaxSendWindow \in Int
  BY Ints, PeerInEnds
<1> DEFINE f == Head(Incoming(e))
<1> DEFINE k == f.hi - f.lo
<1>6. f.lo \in Int /\ f.hi \in Int /\ granted[e] <= f.lo /\ f.lo <= f.hi /\ f.hi <= credited[Peer(e)]
  BY HeadWindow DEF HandleWindow, Dispatching
<1>7. sendWindow[e] = Window[Peer(e)] + granted[e] - reserved[e]
  BY <1>1 DEF FlowAt, WindowAccounts
<1>8. credited[Peer(e)] <= buf[Peer(e)].hi /\ buf[Peer(e)].hi <= wrote[e] /\ wrote[e] <= reserved[e]
  BY Bounds, PeerInEnds
<1>9. k \in Int /\ k >= 0 /\ granted[e] + k <= f.hi /\ ~(sendWindow[e] + k > MaxSendWindow)
  <2>1. k \in Int /\ k = f.hi - f.lo
    BY <1>6
  <2> HIDE DEF f, k
  <2> QED
    BY <1>4, <1>5, <1>6, <1>7, <1>8, <2>1
<1>10. /\ connErr' = connErr
       /\ \/ sendWindow' = sendWindow /\ granted' = granted
          \/ /\ sendWindow' = [sendWindow EXCEPT ![e] = @ + k]
             /\ granted' = [granted EXCEPT ![e] = @ + k]
  BY <1>9 DEF HandleWindow
<1>11. link[Peer(e)] # <<>> /\ link'[d] = (IF d = Peer(e) THEN Tail(link[d]) ELSE link[d])
  <2>1. link \in [Ends -> Seq(Frame)] /\ Peer(e) \in Ends
    BY <1>2, PeerInEnds DEF ConnType
  <2>2. link[Peer(e)] # <<>> /\ link' = [link EXCEPT ![Peer(e)] = Tail(@)]
    BY DEF HandleWindow, Dispatching, Incoming, Consume
  <2> QED
    BY <2>1, <2>2
<1> HIDE DEF f, k
<1>12. \/ sendWindow'[d] = sendWindow[d] /\ granted' = granted
       \/ /\ \A x \in Ends : granted'[x] = (IF x = e THEN granted[e] + k ELSE granted[x])
          /\ sendWindow'[d] = (IF d = e THEN sendWindow[e] + k ELSE sendWindow[d])
  <2>1. sendWindow \in [Ends -> Int] /\ granted \in [Ends -> Int]
    BY <1>2 DEF StreamType, LoopType
  <2> QED
    BY <2>1, <1>10
<1>13. ReservedFirst(d)' /\ ChunksAreData(d)' /\ ReadAccounts(d)'
  BY <1>1, <1>3 DEF FlowAt, ReservedFirst, ChunksAreData, ReadAccounts, Unaccounted
<1>14. WindowAccounts(d)'
  BY <1>1, <1>3, <1>4, <1>9, <1>12 DEF FlowAt, WindowAccounts
<1>15. DataInOrder(d)'
  <2>1. CASE link'[d] = link[d]
    BY <1>1, <1>3, <2>1, DataSame DEF FlowAt
  <2>2. CASE link'[d] = Tail(link[d]) /\ link[d] # <<>>
    <3>1. PICK m \in Int : DataPipe(d, m)
      BY <1>1, DataPick DEF FlowAt
    <3>2. buf[Peer(d)].hi \in Int /\ link[d] \in Seq(Frame)
      BY Ints, PeerInEnds
    <3>3. Ordered(Tail(link[d]), "DATA", buf[Peer(d)].hi, m)
      BY <2>2, <3>1, <3>2, OrderedTail DEF DataPipe
    <3>4. DataPipe(d, m)'
      BY <1>3, <2>2, <3>1, <3>3 DEF DataPipe
    <3> QED
      BY <3>4, DataWitness
  <2> QED
    BY <1>11, <2>1, <2>2
<1>16. CreditInOrder(d)'
  <2>1. CASE d # Peer(e)
    <3>1. d = e /\ Peer(d) # e /\ Peer(d) \in Ends
      BY <2>1, PeerInEnds DEF Ends, Peer
    <3>2. granted'[Peer(d)] = granted[Peer(d)]
      BY <3>1, <1>12
    <3> QED
      BY <1>1, <1>3, <2>1, <3>2, <1>11, <1>13, CreditSame DEF FlowAt, Unsent
  <2>2. CASE d = Peer(e)
    <3>1. PICK m \in Int : CreditPipe(d, m)
      BY <1>1, CreditPick DEF FlowAt
    <3>2. Peer(d) = e /\ link[d] \in Seq(Frame) /\ Head(link[d]) = f /\ f.type = "WINDOW"
      BY <2>2, PeerInEnds, Ints DEF f, Incoming, HandleWindow, Dispatching
    <3>3. Ordered(link[d], "WINDOW", granted[e], m)
      BY <3>1, <3>2 DEF CreditPipe
    <3>4. Ordered(Tail(link[d]), "WINDOW", granted[e], m) /\ Ordered(Tail(link[d]), "WINDOW", f.hi, m)
      BY <2>2, <3>2, <3>3, <1>4, <1>11, OrderedTail
    <3>5. Tail(link[d]) \in Seq(Frame)
      BY <2>2, <3>2, <1>11
    <3>6. granted'[e] = granted[e] \/ granted'[e] = granted[e] + k
      BY <1>12
    <3>7. Ordered(Tail(link[d]), "WINDOW", granted'[e], m)
      <4>1. CASE granted'[e] = granted[e]
        BY <3>4, <4>1
      <4>2. CASE granted'[e] = granted[e] + k
        <5>1. granted[e] + k \in Int /\ m <= m
          BY <1>4, <1>9
        <5> QED
          BY <3>4, <3>5, <4>2, <5>1, <1>9, <1>6, OrderedWiden
      <4> QED
        BY <3>6, <4>1, <4>2
    <3>8. CreditPipe(d, m)'
      BY <1>3, <2>2, <3>1, <3>2, <3>7, <1>11 DEF CreditPipe, Unsent
    <3> QED
      BY <3>8, <1>13, CreditWitness
  <2> QED
    BY <2>1, <2>2
<1>17. connErr'[d] = "none"
  BY <1>1, <1>10 DEF FlowAt
<1> QED
  BY <1>13, <1>14, <1>15, <1>16, <1>17 DEF FlowAt

\* The variables FlowInv is about.
flowVars == <<buf, connErr, controlQueue, credited, granted, held, link, outQueue, rdHand, rdPc, recvWindow, reserved, sendWindow, state, unacked, wlPc, wrHold, wrPc, wrWant, wrote>>

\* A step that changes none of them keeps the accounts.
LEMMA Untouched ==
  ASSUME TypeOK, TypeOK', FlowInv, UNCHANGED flowVars, NEW d \in Ends
  PROVE  FlowAt(d)'
<1>1. FlowAt(d)
  BY DEF FlowInv
<1>2. UNCHANGED <<buf, connErr, controlQueue, credited, granted, held, link, outQueue, rdHand,
                  rdPc, recvWindow, reserved, sendWindow, state, unacked, wlPc, wrHold, wrPc,
                  wrWant, wrote>>
  BY DEF flowVars
<1>3. WindowAccounts(d)' /\ ReservedFirst(d)' /\ ChunksAreData(d)' /\ ReadAccounts(d)' /\ connErr'[d] = "none"
  BY <1>1, <1>2 DEF FlowAt, WindowAccounts, ReservedFirst, ChunksAreData, ReadAccounts, Unaccounted
<1>4. DataInOrder(d)'
  BY <1>1, <1>2, DataSame DEF FlowAt
<1>5. CreditInOrder(d)'
  BY <1>1, <1>2, <1>3, CreditSame DEF FlowAt, Unsent
<1> QED
  BY <1>3, <1>4, <1>5 DEF FlowAt

\* Initially nothing was sent or credited, and the windows are the initial ones.
LEMMA FlowInit == Init => FlowInv
<1> SUFFICES ASSUME Init, NEW e \in Ends PROVE FlowAt(e)
  BY DEF FlowInv
<1>1. TypeOK
  BY TypeInit
<1>2. Peer(e) \in Ends /\ Window[e] \in Int /\ Window[Peer(e)] \in Int /\ Window[Peer(e)] > 0
  BY PeerInEnds, StreamAssumption
<1>3. WindowAccounts(e) /\ ReservedFirst(e) /\ ReadAccounts(e) /\ connErr[e] = "none"
  BY <1>2 DEF Init, WindowAccounts, ReservedFirst, ReadAccounts, Unaccounted
<1>4. ChunksAreData(e)
  BY FrameFields DEF Init, ChunksAreData
<1>5. buf[Peer(e)].hi = 0 /\ wrote[e] = 0 /\ DataPipe(e, 0)
  BY <1>2 DEF Init, DataPipe, Ordered
<1>6. granted[Peer(e)] = 0 /\ credited[e] = 0 /\ CreditPipe(e, 0)
  BY <1>2 DEF Init, CreditPipe, Ordered, Unsent
<1>7. DataInOrder(e) /\ CreditInOrder(e)
  BY <1>5, <1>6 DEF DataInOrder, CreditInOrder
<1> QED
  BY <1>3, <1>4, <1>7 DEF FlowAt

\* The inductive invariant: in every reachable state the accounts of bytes and credits at
\* the two ends agree, for every window, chunk and queue size and any number of calls.
THEOREM FlowInvariant == Spec => []FlowInv
<1>1. TypeOK /\ TypeOK' /\ FlowInv /\ [Next]_vars => FlowInv'
  <2> SUFFICES ASSUME TypeOK, TypeOK', FlowInv, [Next]_vars, NEW d \in Ends PROVE FlowAt(d)'
    BY DEF FlowInv
  <2>1. ASSUME NEW e \in Ends, NEW p \in ReadSizes, ReadData(e, p) PROVE FlowAt(d)'
    BY <2>1, ReadDataFlow
  <2>2. ASSUME NEW e \in Ends, NEW k \in WriteSizes, Write(e, k) PROVE FlowAt(d)'
    BY <2>2, WriteFlow
  <2>3. ASSUME NEW e \in Ends, ReadEmpty(e) PROVE FlowAt(d)'
    BY <2>3, ReadEmptyFlow
  <2>4. ASSUME NEW e \in Ends, ReadConnClosed(e) PROVE FlowAt(d)'
    BY <2>4, ReadConnClosedFlow
  <2>5. ASSUME NEW e \in Ends, CreditConsumed(e) PROVE FlowAt(d)'
    BY <2>5, CreditConsumedFlow
  <2>6. ASSUME NEW e \in Ends, SendWindowFrame(e) PROVE FlowAt(d)'
    BY <2>6, SendWindowFrameFlow
  <2>7. ASSUME NEW e \in Ends, ReserveSendCredit(e) PROVE FlowAt(d)'
    BY <2>7, ReserveSendCreditFlow
  <2>8. ASSUME NEW e \in Ends, QueueChunk(e) PROVE FlowAt(d)'
    BY <2>8, QueueChunkFlow
  <2>9. ASSUME NEW e \in Ends, ChunkDone(e) PROVE FlowAt(d)'
    BY <2>9, ChunkDoneFlow
  <2>10. ASSUME NEW e \in Ends, WriteConnClosed(e) PROVE FlowAt(d)'
    BY <2>10, WriteConnClosedFlow
  <2>11. ASSUME NEW e \in Ends, SendClose(e) PROVE FlowAt(d)'
    BY <2>11, SendCloseFlow
  <2>12. ASSUME NEW e \in Ends, SendReset(e) PROVE FlowAt(d)'
    BY <2>12, SendResetFlow
  <2>13. ASSUME NEW e \in Ends, CloseCloseWrite(e) PROVE FlowAt(d)'
    BY <2>13, CloseCloseWriteFlow
  <2>14. ASSUME NEW e \in Ends, CloseReset(e) PROVE FlowAt(d)'
    BY <2>14, CloseResetFlow
  <2>15. ASSUME NEW e \in Ends, WriteControl(e) PROVE FlowAt(d)'
    BY <2>15, WriteControlFlow
  <2>16. ASSUME NEW e \in Ends, NextChunk(e) PROVE FlowAt(d)'
    BY <2>16, NextChunkFlow
  <2>17. ASSUME NEW e \in Ends, WriteData(e) PROVE FlowAt(d)'
    BY <2>17, WriteDataFlow
  <2>18. ASSUME NEW e \in Ends, WriterStops(e) PROVE FlowAt(d)'
    BY <2>18, WriterStopsFlow
  <2>19. ASSUME NEW e \in Ends, LookupLiveStream(e) PROVE FlowAt(d)'
    BY <2>19, LookupLiveStreamFlow
  <2>20. ASSUME NEW e \in Ends, HandleData(e) PROVE FlowAt(d)'
    BY <2>20, HandleDataFlow
  <2>21. ASSUME NEW e \in Ends, HandleWindow(e) PROVE FlowAt(d)'
    BY <2>21, HandleWindowFlow
  <2>22. ASSUME NEW e \in Ends, HandleClose(e) PROVE FlowAt(d)'
    BY <2>22, HandleCloseFlow
  <2>23. ASSUME NEW e \in Ends, HandleReset(e) PROVE FlowAt(d)'
    BY <2>23, HandleResetFlow
  <2>24. ASSUME NEW e \in Ends, ResetStream(e) PROVE FlowAt(d)'
    BY <2>24, ResetStreamFlow
  <2>25. ASSUME NEW e \in Ends, SendResetStream(e) PROVE FlowAt(d)'
    BY <2>25, SendResetStreamFlow
  <2>26. ASSUME NEW e \in Ends, CancelWrite(e) PROVE FlowAt(d)'
    BY <2>26, CancelWriteFlow
  <2>27. ASSUME NEW e \in Ends, CloseWrite(e) PROVE FlowAt(d)'
    BY <2>27, CloseWriteFlow
  <2>28. ASSUME NEW e \in Ends, Reset(e) PROVE FlowAt(d)'
    BY <2>28, ResetFlow
  <2>29. ASSUME NEW e \in Ends,
                RetireForClose(e) \/ RetireForReset(e) \/ CloseEOF(e) \/ Close(e) \/ ConnEnds(e) \/ ReaderStops(e)
         PROVE  FlowAt(d)'
    <3>1. UNCHANGED flowVars
      BY <2>29 DEF flowVars, RetireForClose, RetireForReset, CloseEOF, Close, ConnEnds,
         ReaderStops, streamVars, connVars, writerVars, readerVars, loopVars
    <3> QED
      BY <3>1, Untouched
  <2>30. CASE UNCHANGED vars
    <3>1. UNCHANGED flowVars
      BY <2>30 DEF flowVars, vars, streamVars, connVars, writerVars, readerVars, loopVars
    <3> QED
      BY <3>1, Untouched
  <2> QED
    BY <2>1, <2>2, <2>3, <2>4, <2>5, <2>6, <2>7, <2>8, <2>9, <2>10, <2>11, <2>12, <2>13, <2>14,
       <2>15, <2>16, <2>17, <2>18, <2>19, <2>20, <2>21, <2>22, <2>23, <2>24, <2>25, <2>26, <2>27,
       <2>28, <2>29, <2>30
       DEF Next, AppReads, WriteSteps, CloseSteps, WriterLoop, ReaderLoop, AppCalls
<1> QED
  BY <1>1, FlowInit, TypeCorrect, PTL DEF Spec

\* Two ends that run this code never meet a FLOW_CONTROL_ERROR, whatever the window and
\* chunk sizes and however reads, writes, cancellations, closes and resets interleave.
THEOREM NeverFlowControlError == Spec => []NoFlowControlError
<1>1. FlowInv => NoFlowControlError
  BY DEF FlowInv, FlowAt, NoFlowControlError
<1> QED
  BY <1>1, FlowInvariant, PTL

\* A sender's remaining credit plus what it reserved and its peer has not received never
\* exceeds the peer's receive window.
THEOREM SenderWithinReceiver == Spec => []WindowsAgree
<1>1. TypeOK /\ FlowInv => WindowsAgree
  <2> SUFFICES ASSUME TypeOK, FlowInv, NEW e \in Ends
               PROVE  sendWindow[e] + (reserved[e] - buf[Peer(e)].hi) <= recvWindow[Peer(e)]
    BY DEF WindowsAgree
  <2> DEFINE p == Peer(e)
  <2>1. p \in Ends /\ Peer(p) = e
    BY PeerInEnds
  <2> HIDE DEF p
  <2>2. sendWindow[e] = Window[p] + granted[e] - reserved[e]
    BY DEF FlowInv, FlowAt, WindowAccounts, p
  <2>3. recvWindow[p] = Window[p] + credited[p] - buf[p].hi
    BY <2>1 DEF FlowInv, FlowAt, WindowAccounts
  <2>4. granted[e] <= credited[p]
    BY <2>1, Bounds
  <2>5. /\ Window[p] \in Int /\ granted[e] \in Int /\ reserved[e] \in Int
        /\ credited[p] \in Int /\ buf[p].hi \in Int
    BY <2>1, Ints
  <2> QED
    BY <2>2, <2>3, <2>4, <2>5 DEF p
<1> QED
  BY <1>1, FlowInvariant, TypeCorrect, PTL

\* Receive credit is conserved: what the peer may send, what is buffered and what is owed
\* to the peer add up to the initial window, so the buffer never outgrows it.
THEOREM ReceiveCreditConserved == Spec => []CreditConserved
<1>1. TypeOK /\ FlowInv => CreditConserved
  <2> SUFFICES ASSUME TypeOK, FlowInv, NEW e \in Ends, state[e] # "closed"
               PROVE  recvWindow[e] + BufLen(e) + unacked[e] + Unaccounted(e) = Window[e]
    BY DEF CreditConserved
  <2>1. recvWindow[e] = Window[e] + credited[e] - buf[e].hi
    BY DEF FlowInv, FlowAt, WindowAccounts
  <2>2. credited[e] + unacked[e] + Unaccounted(e) = buf[e].lo
    BY DEF FlowInv, FlowAt, ReadAccounts
  <2>3. /\ Window[e] \in Int /\ credited[e] \in Int /\ unacked[e] \in Int /\ Unaccounted(e) \in Int
        /\ buf[e].lo \in Int /\ buf[e].hi \in Int
    BY Ints DEF Unaccounted
  <2> QED
    BY <2>1, <2>2, <2>3 DEF BufLen
<1> QED
  BY <1>1, FlowInvariant, TypeCorrect, PTL
-----------------------------------------------------------------------------
(* The order of CLOSE and RESET after DATA.  One lemma per action that reads *)
(* or changes what FinLast is about.                                         *)

\* Where the frames of a queue are once one was appended, or its head taken off.
LEMMA AppendElems ==
  ASSUME NEW q \in Seq(Frame), NEW f \in Frame
  PROVE  /\ Append(q, f) \in Seq(Frame) /\ Len(Append(q, f)) = Len(q) + 1 /\ Append(q, f)[Len(q) + 1] = f
         /\ \A i \in 1..Len(q) : i \in 1..Len(Append(q, f)) /\ Append(q, f)[i] = q[i]
         /\ \A i \in 1..Len(Append(q, f)) :
              (i \in 1..Len(q) /\ Append(q, f)[i] = q[i]) \/ (i = Len(q) + 1 /\ Append(q, f)[i] = f)
  OBVIOUS

\* The frames that are left once the head was taken off.
LEMMA TailElems ==
  ASSUME NEW q \in Seq(Frame), q # <<>>
  PROVE  /\ Tail(q) \in Seq(Frame) /\ 1 \in 1..Len(q) /\ Head(q) = q[1] /\ Len(q) \in Nat
         /\ \A i \in 1..Len(Tail(q)) : i + 1 \in 1..Len(q) /\ Tail(q)[i] = q[i + 1]
         /\ \A i \in 1..Len(q) : i = 1 \/ (i - 1 \in 1..Len(Tail(q)) /\ q[i] = Tail(q)[i - 1])
  OBVIOUS

\* The conditions of FinLast that are about one queue: the ones that wait...
FinQueued(q, done) == \A i \in 1..Len(q) : IsFin(q[i]) => done
\* ...and the ones on the link.
FinSent(q, done) == \A i \in 1..Len(q) : IsFin(q[i]) =>
  done /\ \A j \in 1..Len(q) : i < j => q[j].type # "DATA"

\* A control frame may join the queue when, if it ends the stream, that was decided.
LEMMA FinQueuedAppend ==
  ASSUME NEW q \in Seq(Frame), NEW f \in Frame, NEW done, FinQueued(q, done), IsFin(f) => done
  PROVE  FinQueued(Append(q, f), done)
  BY AppendElems DEF FinQueued

\* The queue loses its head.
LEMMA FinQueuedTail ==
  ASSUME NEW q \in Seq(Frame), NEW done, FinQueued(q, done), q # <<>>
  PROVE  FinQueued(Tail(q), done) /\ (IsFin(Head(q)) => done)
  BY TailElems DEF FinQueued

\* A frame that is not DATA may follow anything on the link; DATA only what ends nothing.
LEMMA FinSentAppend ==
  ASSUME NEW q \in Seq(Frame), NEW f \in Frame, NEW done, FinSent(q, done),
         IsFin(f) => done, f.type = "DATA" => ~done
  PROVE  FinSent(Append(q, f), done)
<1> DEFINE r == Append(q, f)
<1>1. /\ Len(q) \in Nat /\ Len(r) = Len(q) + 1
      /\ \A i \in 1..Len(r) : (i \in 1..Len(q) /\ r[i] = q[i]) \/ (i = Len(q) + 1 /\ r[i] = f)
  BY AppendElems
<1> HIDE DEF r
<1> SUFFICES ASSUME NEW i \in 1..Len(r), IsFin(r[i])
             PROVE  done /\ \A j \in 1..Len(r) : i < j => r[j].type # "DATA"
  BY DEF FinSent, r
<1>2. CASE i \in 1..Len(q) /\ r[i] = q[i]
  <2>1. done /\ \A j \in 1..Len(q) : i < j => q[j].type # "DATA"
    BY <1>2 DEF FinSent
  <2> QED
    BY <1>1, <2>1
<1>3. CASE i = Len(q) + 1 /\ r[i] = f
  BY <1>1, <1>3
<1> QED
  BY <1>1, <1>2, <1>3

\* The link loses its head; behind a CLOSE or RESET there was no DATA.
LEMMA FinSentTail ==
  ASSUME NEW q \in Seq(Frame), NEW done, FinSent(q, done), q # <<>>
  PROVE  /\ FinSent(Tail(q), done)
         /\ IsFin(Head(q)) => done /\ \A i \in 1..Len(Tail(q)) : Tail(q)[i].type # "DATA"
<1> DEFINE r == Tail(q)
<1>1. /\ Len(q) \in Nat /\ 1 \in 1..Len(q) /\ Head(q) = q[1] /\ r \in Seq(Frame)
      /\ \A i \in 1..Len(r) : i \in Int /\ i >= 1 /\ i + 1 \in 1..Len(q) /\ r[i] = q[i + 1]
  BY TailElems
<1> HIDE DEF r
<1>2. ASSUME NEW i \in 1..Len(r), IsFin(r[i])
      PROVE  done /\ \A j \in 1..Len(r) : i < j => r[j].type # "DATA"
  <2>1. done /\ \A j \in 1..Len(q) : i + 1 < j => q[j].type # "DATA"
    BY <1>1, <1>2 DEF FinSent
  <2> QED
    BY <1>1, <2>1
<1>3. FinSent(r, done)
  BY <1>2 DEF FinSent
<1>4. IsFin(Head(q)) => done /\ \A i \in 1..Len(r) : r[i].type # "DATA"
  BY <1>1 DEF FinSent
<1> QED
  BY <1>3, <1>4 DEF r

\* FinLast, with its conditions on queues named.
LEMMA FinParts ==
  ASSUME NEW d \in Ends
  PROVE  FinLast(d) <=>
           /\ FinDecided(d) => SendDone(d)
           /\ FinQueued(controlQueue[d], SendDone(d))
           /\ FinSent(link[d], SendDone(d) /\ wlPc[d] # "write")
           /\ ~live[d] \/ clPc[d] \in {"close_retire", "reset_retire"} => state[d] = "closed"
  BY DEF FinLast, FinQueued, FinSent

\* What allows a frame goes on allowing it.
LEMMA FinWeaken ==
  ASSUME NEW q, NEW a, NEW b, a => b
  PROVE  (FinQueued(q, a) => FinQueued(q, b)) /\ (FinSent(q, a) => FinSent(q, b))
  BY DEF FinQueued, FinSent

\* The queues of an end are sequences of frames.
LEMMA QueueTypes ==
  ASSUME TypeOK, NEW d \in Ends
  PROVE  controlQueue[d] \in Seq(Frame) /\ link[d] \in Seq(Frame) /\ outQueue[d] \in Seq(Frame)
  BY DEF TypeOK, ConnType, StreamType

\* The queues of an end allow what is on them while its sending side stays done and its
\* writer loop takes no chunk after that.
LEMMA FinKeep ==
  ASSUME NEW d \in Ends, FinLast(d),
         SendDone(d) => SendDone(d)', state[d] = "closed" => state'[d] = "closed",
         FinDecided(d)' => FinDecided(d) \/ SendDone(d)',
         FinQueued(controlQueue'[d], SendDone(d)),
         FinSent(link'[d], SendDone(d) /\ wlPc[d] # "write"),
         wlPc'[d] = "write" => wlPc[d] = "write" \/ ~SendDone(d),
         ~live'[d] \/ clPc'[d] \in {"close_retire", "reset_retire"} =>
           ~live[d] \/ clPc[d] \in {"close_retire", "reset_retire"} \/ state'[d] = "closed"
  PROVE  FinLast(d)'
<1>1. /\ FinDecided(d) => SendDone(d)
      /\ ~live[d] \/ clPc[d] \in {"close_retire", "reset_retire"} => state[d] = "closed"
  BY FinParts
<1>2. FinQueued(controlQueue'[d], SendDone(d)')
  BY FinWeaken
<1>3. FinSent(link'[d], SendDone(d)' /\ wlPc'[d] # "write")
  BY FinWeaken
<1> QED
  BY <1>1, <1>2, <1>3 DEF FinLast, FinQueued, FinSent

\* sendControlFrame queues one frame, or none, at one end.
LEMMA FinSendControlFrame ==
  ASSUME TypeOK, FinInv, NEW e \in Ends, NEW f \in Frame, SendControlFrame(e, f),
         IsFin(f) => SendDone(e), NEW d \in Ends
  PROVE  FinQueued(controlQueue'[d], SendDone(d))
<1>1. FinQueued(controlQueue[d], SendDone(d)) /\ FinQueued(controlQueue[e], SendDone(e))
  BY FinParts DEF FinInv
<1>2. controlQueue \in [Ends -> Seq(Frame)]
  BY DEF TypeOK, ConnType
<1>3. \/ controlQueue'[d] = controlQueue[d]
      \/ d = e /\ controlQueue'[d] = Append(controlQueue[e], f)
  BY <1>2 DEF SendControlFrame
<1> QED
  BY <1>1, <1>2, <1>3, FinQueuedAppend

\* A read loop that takes the head off its peer's link.
LEMMA FinConsume ==
  ASSUME TypeOK, FinInv, NEW e \in Ends, Consume(e), Incoming(e) # <<>>, NEW d \in Ends
  PROVE  FinSent(link'[d], SendDone(d) /\ wlPc[d] # "write")
<1>1. FinSent(link[d], SendDone(d) /\ wlPc[d] # "write")
  BY FinParts DEF FinInv
<1>2. link \in [Ends -> Seq(Frame)]
  BY DEF TypeOK, ConnType
<1>3. link'[d] = link[d] \/ (link[d] # <<>> /\ link'[d] = Tail(link[d]))
  BY <1>2, PeerInEnds DEF Consume, Incoming
<1> QED
  BY <1>1, <1>2, <1>3, FinSentTail

\* CloseWrite ends the sending side before it queues CLOSE.
LEMMA CloseWriteFin ==
  ASSUME TypeOK, FlowInv, FinInv, NEW e \in Ends, CloseWrite(e), NEW d \in Ends
  PROVE  FinLast(d)'
<1>1. FinLast(d) /\ FinLast(e)
  BY DEF FinInv
<1>2. StreamType /\ ConnType /\ CloserType /\ LoopType
  BY DEF TypeOK
<1>3. FinQueued(controlQueue'[d], SendDone(d))
  BY <1>1, FinParts DEF CloseWrite, CloseWriteLocked, Sendable, NotifyLocked, connVars
<1>4. FinSent(link'[d], SendDone(d) /\ wlPc[d] # "write")
  BY <1>1, FinParts DEF CloseWrite, CloseWriteLocked, Sendable, NotifyLocked, connVars
<1>5. (SendDone(d) => SendDone(d)') /\ (state[d] = "closed" => state'[d] = "closed")
  BY <1>2 DEF CloseWrite, CloseWriteLocked, Sendable, NotifyLocked, SendDone, States, StreamType,
     streamVars
<1>6. \A x \in {d, e} : /\ FinDecided(x) => SendDone(x)
                        /\ ~live[x] \/ clPc[x] \in {"close_retire", "reset_retire"} => state[x] = "closed"
  BY <1>1, FinParts
<1>7. FinDecided(d)' => FinDecided(d) \/ SendDone(d)'
  BY <1>2, <1>6 DEF CloseWrite, CloseWriteLocked, Sendable, NotifyLocked, FinDecided, SendDone,
     States, StreamType, CloserType, LoopType, streamVars, connVars, closerVars, loopVars
<1>8. wlPc'[d] = "write" => wlPc[d] = "write" \/ ~SendDone(d)
  BY <1>2 DEF CloseWrite, CloseWriteLocked, Sendable, NotifyLocked, LoopType, loopVars
<1>9. ~live'[d] \/ clPc'[d] \in {"close_retire", "reset_retire"} =>
        ~live[d] \/ clPc[d] \in {"close_retire", "reset_retire"} \/ state'[d] = "closed"
  BY <1>2, <1>6 DEF CloseWrite, CloseWriteLocked, Sendable, NotifyLocked, FinDecided, SendDone,
     States, StreamType, ConnType, CloserType, streamVars, connVars, closerVars
<1> QED
  BY <1>1, <1>3, <1>4, <1>5, <1>7, <1>8, <1>9, FinKeep

\* So does the CloseWrite inside Close.
LEMMA CloseCloseWriteFin ==
  ASSUME TypeOK, FlowInv, FinInv, NEW e \in Ends, CloseCloseWrite(e), NEW d \in Ends
  PROVE  FinLast(d)'
<1>1. FinLast(d) /\ FinLast(e)
  BY DEF FinInv
<1>2. StreamType /\ ConnType /\ CloserType /\ LoopType
  BY DEF TypeOK
<1>3. FinQueued(controlQueue'[d], SendDone(d))
  BY <1>1, FinParts DEF CloseCloseWrite, CloseWriteLocked, Sendable, NotifyLocked, connVars
<1>4. FinSent(link'[d], SendDone(d) /\ wlPc[d] # "write")
  BY <1>1, FinParts DEF CloseCloseWrite, CloseWriteLocked, Sendable, NotifyLocked, connVars
<1>5. (SendDone(d) => SendDone(d)') /\ (state[d] = "closed" => state'[d] = "closed")
  BY <1>2 DEF CloseCloseWrite, CloseWriteLocked, Sendable, NotifyLocked, SendDone, States,
     StreamType, streamVars
<1>6. \A x \in {d, e} : /\ FinDecided(x) => SendDone(x)
                        /\ ~live[x] \/ clPc[x] \in {"close_retire", "reset_retire"} => state[x] = "closed"
  BY <1>1, FinParts
<1>7. FinDecided(d)' => FinDecided(d) \/ SendDone(d)'
  BY <1>2, <1>6 DEF CloseCloseWrite, CloseWriteLocked, Sendable, NotifyLocked, FinDecided,
     SendDone, States, StreamType, CloserType, LoopType, streamVars, connVars, closerVars,
     loopVars
<1>8. wlPc'[d] = "write" => wlPc[d] = "write" \/ ~SendDone(d)
  BY <1>2 DEF CloseCloseWrite, CloseWriteLocked, Sendable, NotifyLocked, LoopType, loopVars
<1>9. ~live'[d] \/ clPc'[d] \in {"close_retire", "reset_retire"} =>
        ~live[d] \/ clPc[d] \in {"close_retire", "reset_retire"} \/ state'[d] = "closed"
  <2>1. live' = live
    BY DEF CloseCloseWrite, connVars
  <2>2. \/ clPc' = [clPc EXCEPT ![e] = clNext[e]]
        \/ clPc' = [clPc EXCEPT ![e] = "close_send"]
        \/ clPc' = [clPc EXCEPT ![e] = "close_retire"] /\ state' = [state EXCEPT ![e] = "closed"]
    BY DEF CloseCloseWrite, CloseWriteLocked, Sendable
  <2>3. clNext[e] \notin {"close_retire", "reset_retire"}
    BY <1>2 DEF CloserType
  <2> QED
    BY <1>2, <2>1, <2>2, <2>3 DEF StreamType, CloserType
<1> QED
  BY <1>1, <1>3, <1>4, <1>5, <1>7, <1>8, <1>9, FinKeep

\* Reset closes the stream before it queues RESET.
LEMMA ResetFin ==
  ASSUME TypeOK, FlowInv, FinInv, NEW e \in Ends, Reset(e), NEW d \in Ends
  PROVE  FinLast(d)'
<1>1. FinLast(d) /\ FinLast(e)
  BY DEF FinInv
<1>2. StreamType /\ ConnType /\ CloserType /\ LoopType
  BY DEF TypeOK
<1>3. FinQueued(controlQueue'[d], SendDone(d))
  BY <1>1, FinParts DEF Reset, ResetLocked, NotifyLocked, connVars
<1>4. FinSent(link'[d], SendDone(d) /\ wlPc[d] # "write")
  BY <1>1, FinParts DEF Reset, ResetLocked, NotifyLocked, connVars
<1>5. (SendDone(d) => SendDone(d)') /\ (state[d] = "closed" => state'[d] = "closed")
  BY <1>2 DEF Reset, ResetLocked, NotifyLocked, SendDone, States, StreamType, streamVars
<1>6. \A x \in {d, e} : /\ FinDecided(x) => SendDone(x)
                        /\ ~live[x] \/ clPc[x] \in {"close_retire", "reset_retire"} => state[x] = "closed"
  BY <1>1, FinParts
<1>7. FinDecided(d)' => FinDecided(d) \/ SendDone(d)'
  BY <1>2, <1>6 DEF Reset, ResetLocked, NotifyLocked, FinDecided, SendDone, States, StreamType,
     CloserType, LoopType, streamVars, connVars, closerVars, loopVars
<1>8. wlPc'[d] = "write" => wlPc[d] = "write" \/ ~SendDone(d)
  BY <1>2 DEF Reset, ResetLocked, NotifyLocked, LoopType, loopVars
<1>9. ~live'[d] \/ clPc'[d] \in {"close_retire", "reset_retire"} =>
        ~live[d] \/ clPc[d] \in {"close_retire", "reset_retire"} \/ state'[d] = "closed"
  BY <1>2, <1>6 DEF Reset, ResetLocked, NotifyLocked, FinDecided, SendDone, States, StreamType,
     ConnType, CloserType, streamVars, connVars, closerVars
<1> QED
  BY <1>1, <1>3, <1>4, <1>5, <1>7, <1>8, <1>9, FinKeep

\* So does the Reset inside Close.
LEMMA CloseResetFin ==
  ASSUME TypeOK, FlowInv, FinInv, NEW e \in Ends, CloseReset(e), NEW d \in Ends
  PROVE  FinLast(d)'
<1>1. FinLast(d) /\ FinLast(e)
  BY DEF FinInv
<1>2. StreamType /\ ConnType /\ CloserType /\ LoopType
  BY DEF TypeOK
<1>3. FinQueued(controlQueue'[d], SendDone(d))
  BY <1>1, FinParts DEF CloseReset, ResetLocked, NotifyLocked, connVars
<1>4. FinSent(link'[d], SendDone(d) /\ wlPc[d] # "write")
  BY <1>1, FinParts DEF CloseReset, ResetLocked, NotifyLocked, connVars
<1>5. (SendDone(d) => SendDone(d)') /\ (state[d] = "closed" => state'[d] = "closed")
  BY <1>2 DEF CloseReset, ResetLocked, NotifyLocked, SendDone, States, StreamType, streamVars
<1>6. \A x \in {d, e} : /\ FinDecided(x) => SendDone(x)
                        /\ ~live[x] \/ clPc[x] \in {"close_retire", "reset_retire"} => state[x] = "closed"
  BY <1>1, FinParts
<1>7. FinDecided(d)' => FinDecided(d) \/ SendDone(d)'
  BY <1>2, <1>6 DEF CloseReset, ResetLocked, NotifyLocked, FinDecided, SendDone, States,
     StreamType, CloserType, LoopType, streamVars, connVars, closerVars, loopVars
<1>8. wlPc'[d] = "write" => wlPc[d] = "write" \/ ~SendDone(d)
  BY <1>2 DEF CloseReset, ResetLocked, NotifyLocked, LoopType, loopVars
<1>9. ~live'[d] \/ clPc'[d] \in {"close_retire", "reset_retire"} =>
        ~live[d] \/ clPc[d] \in {"close_retire", "reset_retire"} \/ state'[d] = "closed"
  BY <1>2, <1>6 DEF CloseReset, ResetLocked, NotifyLocked, FinDecided, SendDone, States,
     StreamType, ConnType, CloserType, streamVars, connVars, closerVars
<1> QED
  BY <1>1, <1>3, <1>4, <1>5, <1>7, <1>8, <1>9, FinKeep

\* Only a closed stream is retired: here one whose second side CloseWrite closed...
LEMMA RetireForCloseFin ==
  ASSUME TypeOK, FlowInv, FinInv, NEW e \in Ends, RetireForClose(e), NEW d \in Ends
  PROVE  FinLast(d)'
<1>1. FinLast(d) /\ FinLast(e)
  BY DEF FinInv
<1>2. StreamType /\ ConnType /\ CloserType /\ LoopType
  BY DEF TypeOK
<1>3. FinQueued(controlQueue'[d], SendDone(d))
  BY <1>1, FinParts DEF RetireForClose, connVars
<1>4. FinSent(link'[d], SendDone(d) /\ wlPc[d] # "write")
  BY <1>1, FinParts DEF RetireForClose, connVars
<1>5. (SendDone(d) => SendDone(d)') /\ (state[d] = "closed" => state'[d] = "closed")
  BY <1>2 DEF RetireForClose, SendDone, States, StreamType, streamVars
<1>6. \A x \in {d, e} : /\ FinDecided(x) => SendDone(x)
                        /\ ~live[x] \/ clPc[x] \in {"close_retire", "reset_retire"} => state[x] = "closed"
  BY <1>1, FinParts
<1>7. FinDecided(d)' => FinDecided(d) \/ SendDone(d)'
  BY <1>2, <1>6 DEF RetireForClose, FinDecided, SendDone, States, StreamType, CloserType,
     LoopType, streamVars, connVars, closerVars, loopVars
<1>8. wlPc'[d] = "write" => wlPc[d] = "write" \/ ~SendDone(d)
  BY <1>2 DEF RetireForClose, LoopType, loopVars
<1>9. ~live'[d] \/ clPc'[d] \in {"close_retire", "reset_retire"} =>
        ~live[d] \/ clPc[d] \in {"close_retire", "reset_retire"} \/ state'[d] = "closed"
  BY <1>2, <1>6 DEF RetireForClose, FinDecided, SendDone, States, StreamType, ConnType,
     CloserType, streamVars, connVars, closerVars
<1> QED
  BY <1>1, <1>3, <1>4, <1>5, <1>7, <1>8, <1>9, FinKeep

\* ...and here one that was reset.
LEMMA RetireForResetFin ==
  ASSUME TypeOK, FlowInv, FinInv, NEW e \in Ends, RetireForReset(e), NEW d \in Ends
  PROVE  FinLast(d)'
<1>1. FinLast(d) /\ FinLast(e)
  BY DEF FinInv
<1>2. StreamType /\ ConnType /\ CloserType /\ LoopType
  BY DEF TypeOK
<1>3. FinQueued(controlQueue'[d], SendDone(d))
  BY <1>1, FinParts DEF RetireForReset, connVars
<1>4. FinSent(link'[d], SendDone(d) /\ wlPc[d] # "write")
  BY <1>1, FinParts DEF RetireForReset, connVars
<1>5. (SendDone(d) => SendDone(d)') /\ (state[d] = "closed" => state'[d] = "closed")
  BY <1>2 DEF RetireForReset, SendDone, States, StreamType, streamVars
<1>6. \A x \in {d, e} : /\ FinDecided(x) => SendDone(x)
                        /\ ~live[x] \/ clPc[x] \in {"close_retire", "reset_retire"} => state[x] = "closed"
  BY <1>1, FinParts
<1>7. FinDecided(d)' => FinDecided(d) \/ SendDone(d)'
  BY <1>2, <1>6 DEF RetireForReset, FinDecided, SendDone, States, StreamType, CloserType,
     LoopType, streamVars, connVars, closerVars, loopVars
<1>8. wlPc'[d] = "write" => wlPc[d] = "write" \/ ~SendDone(d)
  BY <1>2 DEF RetireForReset, LoopType, loopVars
<1>9. ~live'[d] \/ clPc'[d] \in {"close_retire", "reset_retire"} =>
        ~live[d] \/ clPc[d] \in {"close_retire", "reset_retire"} \/ state'[d] = "closed"
  BY <1>2, <1>6 DEF RetireForReset, FinDecided, SendDone, States, StreamType, ConnType,
     CloserType, streamVars, connVars, closerVars
<1> QED
  BY <1>1, <1>3, <1>4, <1>5, <1>7, <1>8, <1>9, FinKeep

\* Close decides nothing yet.
LEMMA CloseFin ==
  ASSUME TypeOK, FlowInv, FinInv, NEW e \in Ends, Close(e), NEW d \in Ends
  PROVE  FinLast(d)'
<1>1. FinLast(d) /\ FinLast(e)
  BY DEF FinInv
<1>2. StreamType /\ ConnType /\ CloserType /\ LoopType
  BY DEF TypeOK
<1>3. FinQueued(controlQueue'[d], SendDone(d))
  BY <1>1, FinParts DEF Close, connVars
<1>4. FinSent(link'[d], SendDone(d) /\ wlPc[d] # "write")
  BY <1>1, FinParts DEF Close, connVars
<1>5. (SendDone(d) => SendDone(d)') /\ (state[d] = "closed" => state'[d] = "closed")
  BY <1>2 DEF Close, SendDone, States, StreamType, streamVars
<1>6. \A x \in {d, e} : /\ FinDecided(x) => SendDone(x)
                        /\ ~live[x] \/ clPc[x] \in {"close_retire", "reset_retire"} => state[x] = "closed"
  BY <1>1, FinParts
<1>7. FinDecided(d)' => FinDecided(d) \/ SendDone(d)'
  BY <1>2, <1>6 DEF Close, FinDecided, SendDone, States, StreamType, CloserType, LoopType,
     streamVars, connVars, closerVars, loopVars
<1>8. wlPc'[d] = "write" => wlPc[d] = "write" \/ ~SendDone(d)
  BY <1>2 DEF Close, LoopType, loopVars
<1>9. ~live'[d] \/ clPc'[d] \in {"close_retire", "reset_retire"} =>
        ~live[d] \/ clPc[d] \in {"close_retire", "reset_retire"} \/ state'[d] = "closed"
  BY <1>2, <1>6 DEF Close, FinDecided, SendDone, States, StreamType, ConnType, CloserType,
     streamVars, connVars, closerVars
<1> QED
  BY <1>1, <1>3, <1>4, <1>5, <1>7, <1>8, <1>9, FinKeep

\* Nor does its last step.
LEMMA CloseEOFFin ==
  ASSUME TypeOK, FlowInv, FinInv, NEW e \in Ends, CloseEOF(e), NEW d \in Ends
  PROVE  FinLast(d)'
<1>1. FinLast(d) /\ FinLast(e)
  BY DEF FinInv
<1>2. StreamType /\ ConnType /\ CloserType /\ LoopType
  BY DEF TypeOK
<1>3. FinQueued(controlQueue'[d], SendDone(d))
  BY <1>1, FinParts DEF CloseEOF, NotifyLocked, connVars
<1>4. FinSent(link'[d], SendDone(d) /\ wlPc[d] # "write")
  BY <1>1, FinParts DEF CloseEOF, NotifyLocked, connVars
<1>5. (SendDone(d) => SendDone(d)') /\ (state[d] = "closed" => state'[d] = "closed")
  BY <1>2 DEF CloseEOF, NotifyLocked, SendDone, States, StreamType, streamVars
<1>6. \A x \in {d, e} : /\ FinDecided(x) => SendDone(x)
                        /\ ~live[x] \/ clPc[x] \in {"close_retire", "reset_retire"} => state[x] = "closed"
  BY <1>1, FinParts
<1>7. FinDecided(d)' => FinDecided(d) \/ SendDone(d)'
  BY <1>2, <1>6 DEF CloseEOF, NotifyLocked, FinDecided, SendDone, States, StreamType, CloserType,
     LoopType, streamVars, connVars, closerVars, loopVars
<1>8. wlPc'[d] = "write" => wlPc[d] = "write" \/ ~SendDone(d)
  BY <1>2 DEF CloseEOF, NotifyLocked, LoopType, loopVars
<1>9. ~live'[d] \/ clPc'[d] \in {"close_retire", "reset_retire"} =>
        ~live[d] \/ clPc[d] \in {"close_retire", "reset_retire"} \/ state'[d] = "closed"
  BY <1>2, <1>6 DEF CloseEOF, NotifyLocked, FinDecided, SendDone, States, StreamType, ConnType,
     CloserType, streamVars, connVars, closerVars
<1> QED
  BY <1>1, <1>3, <1>4, <1>5, <1>7, <1>8, <1>9, FinKeep

\* CLOSE is queued by a CloseWrite that ended the sending side.
LEMMA SendCloseFin ==
  ASSUME TypeOK, FlowInv, FinInv, NEW e \in Ends, SendClose(e), NEW d \in Ends
  PROVE  FinLast(d)'
<1>1. FinLast(d) /\ FinLast(e)
  BY DEF FinInv
<1>2. StreamType /\ ConnType /\ CloserType /\ LoopType
  BY DEF TypeOK
<1>3. FinQueued(controlQueue'[d], SendDone(d))
  <2>1. CloseFrame \in Frame /\ (IsFin(CloseFrame) => SendDone(e))
    BY <1>1, FrameType, Ints DEF FinLast, FinDecided, IsFin, SendClose, CloseFrame
  <2> QED
    BY <2>1, FinSendControlFrame DEF SendClose
<1>4. FinSent(link'[d], SendDone(d) /\ wlPc[d] # "write")
  BY <1>1, FinParts DEF SendClose, connVars
<1>5. (SendDone(d) => SendDone(d)') /\ (state[d] = "closed" => state'[d] = "closed")
  BY <1>2 DEF SendClose, SendDone, States, StreamType, streamVars
<1>6. \A x \in {d, e} : /\ FinDecided(x) => SendDone(x)
                        /\ ~live[x] \/ clPc[x] \in {"close_retire", "reset_retire"} => state[x] = "closed"
  BY <1>1, FinParts
<1>7. FinDecided(d)' => FinDecided(d) \/ SendDone(d)'
  BY <1>2, <1>6 DEF SendClose, FinDecided, SendDone, States, StreamType, CloserType, LoopType,
     streamVars, connVars, closerVars, loopVars
<1>8. wlPc'[d] = "write" => wlPc[d] = "write" \/ ~SendDone(d)
  BY <1>2 DEF SendClose, LoopType, loopVars
<1>9. ~live'[d] \/ clPc'[d] \in {"close_retire", "reset_retire"} =>
        ~live[d] \/ clPc[d] \in {"close_retire", "reset_retire"} \/ state'[d] = "closed"
  BY <1>2, <1>6 DEF SendClose, FinDecided, SendDone, States, StreamType, ConnType, CloserType,
     streamVars, connVars, closerVars
<1> QED
  BY <1>1, <1>3, <1>4, <1>5, <1>7, <1>8, <1>9, FinKeep

\* RESET is queued by a Reset that closed the stream...
LEMMA SendResetFin ==
  ASSUME TypeOK, FlowInv, FinInv, NEW e \in Ends, SendReset(e), NEW d \in Ends
  PROVE  FinLast(d)'
<1>1. FinLast(d) /\ FinLast(e)
  BY DEF FinInv
<1>2. StreamType /\ ConnType /\ CloserType /\ LoopType
  BY DEF TypeOK
<1>3. FinQueued(controlQueue'[d], SendDone(d))
  <2>1. ResetFrame("CANCEL") \in Frame /\ (IsFin(ResetFrame("CANCEL")) => SendDone(e))
    BY <1>1, FrameType, Ints DEF FinLast, FinDecided, IsFin, SendReset, ResetFrame, Codes
  <2> QED
    BY <2>1, FinSendControlFrame DEF SendReset
<1>4. FinSent(link'[d], SendDone(d) /\ wlPc[d] # "write")
  BY <1>1, FinParts DEF SendReset, connVars
<1>5. (SendDone(d) => SendDone(d)') /\ (state[d] = "closed" => state'[d] = "closed")
  BY <1>2 DEF SendReset, SendDone, States, StreamType, streamVars
<1>6. \A x \in {d, e} : /\ FinDecided(x) => SendDone(x)
                        /\ ~live[x] \/ clPc[x] \in {"close_retire", "reset_retire"} => state[x] = "closed"
  BY <1>1, FinParts
<1>7. FinDecided(d)' => FinDecided(d) \/ SendDone(d)'
  BY <1>2, <1>6 DEF SendReset, FinDecided, SendDone, States, StreamType, CloserType, LoopType,
     streamVars, connVars, closerVars, loopVars
<1>8. wlPc'[d] = "write" => wlPc[d] = "write" \/ ~SendDone(d)
  BY <1>2 DEF SendReset, LoopType, loopVars
<1>9. ~live'[d] \/ clPc'[d] \in {"close_retire", "reset_retire"} =>
        ~live[d] \/ clPc[d] \in {"close_retire", "reset_retire"} \/ state'[d] = "closed"
  BY <1>2, <1>6 DEF SendReset, FinDecided, SendDone, States, StreamType, ConnType, CloserType,
     streamVars, connVars, closerVars
<1> QED
  BY <1>1, <1>3, <1>4, <1>5, <1>7, <1>8, <1>9, FinKeep

\* ...or by the read loop once resetStream has seen to that.
LEMMA SendResetStreamFin ==
  ASSUME TypeOK, FlowInv, FinInv, NEW e \in Ends, SendResetStream(e), NEW d \in Ends
  PROVE  FinLast(d)'
<1>1. FinLast(d) /\ FinLast(e)
  BY DEF FinInv
<1>2. StreamType /\ ConnType /\ CloserType /\ LoopType
  BY DEF TypeOK
<1>3. FinQueued(controlQueue'[d], SendDone(d))
  <2>1. ResetFrame("STREAM_CLOSED") \in Frame /\ (IsFin(ResetFrame("STREAM_CLOSED")) => SendDone(e))
    BY <1>1, FrameType, Ints DEF FinLast, FinDecided, IsFin, SendResetStream, ResetFrame, Codes
  <2> QED
    BY <2>1, FinSendControlFrame DEF SendResetStream
<1>4. FinSent(link'[d], SendDone(d) /\ wlPc[d] # "write")
  BY <1>1, FinParts DEF SendResetStream, connVars
<1>5. (SendDone(d) => SendDone(d)') /\ (state[d] = "closed" => state'[d] = "closed")
  BY <1>2 DEF SendResetStream, SendDone, States, StreamType, streamVars
<1>6. \A x \in {d, e} : /\ FinDecided(x) => SendDone(x)
                        /\ ~live[x] \/ clPc[x] \in {"close_retire", "reset_retire"} => state[x] = "closed"
  BY <1>1, FinParts
<1>7. FinDecided(d)' => FinDecided(d) \/ SendDone(d)'
  BY <1>2, <1>6 DEF SendResetStream, FinDecided, SendDone, States, StreamType, CloserType,
     LoopType, streamVars, connVars, closerVars, loopVars
<1>8. wlPc'[d] = "write" => wlPc[d] = "write" \/ ~SendDone(d)
  BY <1>2 DEF SendResetStream, LoopType, loopVars
<1>9. ~live'[d] \/ clPc'[d] \in {"close_retire", "reset_retire"} =>
        ~live[d] \/ clPc[d] \in {"close_retire", "reset_retire"} \/ state'[d] = "closed"
  BY <1>2, <1>6 DEF SendResetStream, FinDecided, SendDone, States, StreamType, ConnType,
     CloserType, streamVars, connVars, closerVars
<1> QED
  BY <1>1, <1>3, <1>4, <1>5, <1>7, <1>8, <1>9, FinKeep

\* A WINDOW ends nothing.
LEMMA SendWindowFrameFin ==
  ASSUME TypeOK, FlowInv, FinInv, NEW e \in Ends, SendWindowFrame(e), NEW d \in Ends
  PROVE  FinLast(d)'
<1>1. FinLast(d) /\ FinLast(e)
  BY DEF FinInv
<1>2. StreamType /\ ConnType /\ CloserType /\ LoopType
  BY DEF TypeOK
<1>3. FinQueued(controlQueue'[d], SendDone(d))
  <2> DEFINE f == WindowFrame(credited[e] - rdHand[e], credited[e])
  <2>1. credited[e] - rdHand[e] \in Int /\ credited[e] \in Int
    BY Ints
  <2>2. f \in Frame /\ f.type = "WINDOW"
    BY <2>1, FrameType, FrameFields
  <2>3. ~IsFin(f)
    BY <2>2 DEF IsFin
  <2> QED
    BY <2>2, <2>3, FinSendControlFrame DEF SendWindowFrame
<1>4. FinSent(link'[d], SendDone(d) /\ wlPc[d] # "write")
  BY <1>1, FinParts DEF SendWindowFrame, connVars
<1>5. (SendDone(d) => SendDone(d)') /\ (state[d] = "closed" => state'[d] = "closed")
  BY <1>2 DEF SendWindowFrame, SendDone, States, StreamType, streamVars
<1>6. \A x \in {d, e} : /\ FinDecided(x) => SendDone(x)
                        /\ ~live[x] \/ clPc[x] \in {"close_retire", "reset_retire"} => state[x] = "closed"
  BY <1>1, FinParts
<1>7. FinDecided(d)' => FinDecided(d) \/ SendDone(d)'
  BY <1>2, <1>6 DEF SendWindowFrame, FinDecided, SendDone, States, StreamType, CloserType,
     LoopType, streamVars, connVars, closerVars, loopVars
<1>8. wlPc'[d] = "write" => wlPc[d] = "write" \/ ~SendDone(d)
  BY <1>2 DEF SendWindowFrame, LoopType, loopVars
<1>9. ~live'[d] \/ clPc'[d] \in {"close_retire", "reset_retire"} =>
        ~live[d] \/ clPc[d] \in {"close_retire", "reset_retire"} \/ state'[d] = "closed"
  BY <1>2, <1>6 DEF SendWindowFrame, FinDecided, SendDone, States, StreamType, ConnType,
     CloserType, streamVars, connVars, closerVars
<1> QED
  BY <1>1, <1>3, <1>4, <1>5, <1>7, <1>8, <1>9, FinKeep

\* The writer loop moves a control frame to the link when it holds no chunk.
LEMMA WriteControlFin ==
  ASSUME TypeOK, FlowInv, FinInv, NEW e \in Ends, WriteControl(e), NEW d \in Ends
  PROVE  FinLast(d)'
<1>1. FinLast(d) /\ FinLast(e)
  BY DEF FinInv
<1>2. StreamType /\ ConnType /\ CloserType /\ LoopType
  BY DEF TypeOK
<1>3. FinQueued(controlQueue'[d], SendDone(d))
  <2>1. controlQueue'[d] = controlQueue[d] \/ (controlQueue[d] # <<>> /\ controlQueue'[d] = Tail(controlQueue[d]))
    BY <1>2 DEF WriteControl, ConnType
  <2> QED
    BY <1>1, <2>1, QueueTypes, FinParts, FinQueuedTail
<1>4. FinSent(link'[d], SendDone(d) /\ wlPc[d] # "write")
  <2>1. \/ link'[d] = link[d]
        \/ d = e /\ controlQueue[e] # <<>> /\ wlPc[e] = "turn" /\ link'[d] = Append(link[e], Head(controlQueue[e]))
    BY <1>2 DEF WriteControl, ConnType
  <2>2. ASSUME d = e, controlQueue[e] # <<>>, wlPc[e] = "turn"
        PROVE  LET f == Head(controlQueue[e]) IN
                 f \in Frame /\ f.type # "DATA" /\ (IsFin(f) => SendDone(e) /\ wlPc[e] # "write")
    <3>1. controlQueue[e] \in Seq(Frame) /\ FinQueued(controlQueue[e], SendDone(e))
      BY <1>1, QueueTypes, FinParts
    <3>2. IsFin(Head(controlQueue[e])) => SendDone(e)
      BY <2>2, <3>1, FinQueuedTail
    <3>3. Head(controlQueue[e]).type # "DATA"
      BY <2>2, <3>1, TailAll DEF FlowInv, FlowAt, ChunksAreData
    <3> QED
      BY <2>2, <3>1, <3>2, <3>3
  <2> QED
    BY <1>1, <2>1, <2>2, QueueTypes, FinParts, FinSentAppend
<1>5. (SendDone(d) => SendDone(d)') /\ (state[d] = "closed" => state'[d] = "closed")
  BY <1>2 DEF WriteControl, SendDone, States, StreamType, streamVars
<1>6. \A x \in {d, e} : /\ FinDecided(x) => SendDone(x)
                        /\ ~live[x] \/ clPc[x] \in {"close_retire", "reset_retire"} => state[x] = "closed"
  BY <1>1, FinParts
<1>7. FinDecided(d)' => FinDecided(d) \/ SendDone(d)'
  BY <1>2, <1>6 DEF WriteControl, FinDecided, SendDone, States, StreamType, CloserType, LoopType,
     streamVars, connVars, closerVars, loopVars
<1>8. wlPc'[d] = "write" => wlPc[d] = "write" \/ ~SendDone(d)
  BY <1>2 DEF WriteControl, LoopType, loopVars
<1>9. ~live'[d] \/ clPc'[d] \in {"close_retire", "reset_retire"} =>
        ~live[d] \/ clPc[d] \in {"close_retire", "reset_retire"} \/ state'[d] = "closed"
  BY <1>2, <1>6 DEF WriteControl, FinDecided, SendDone, States, StreamType, ConnType, CloserType,
     streamVars, connVars, closerVars
<1> QED
  BY <1>1, <1>3, <1>4, <1>5, <1>7, <1>8, <1>9, FinKeep

\* nextChunk takes a chunk into the loop's hands only while the sending side is open.
LEMMA NextChunkFin ==
  ASSUME TypeOK, FlowInv, FinInv, NEW e \in Ends, NextChunk(e), NEW d \in Ends
  PROVE  FinLast(d)'
<1>1. FinLast(d) /\ FinLast(e)
  BY DEF FinInv
<1>2. StreamType /\ ConnType /\ CloserType /\ LoopType
  BY DEF TypeOK
<1>3. FinQueued(controlQueue'[d], SendDone(d))
  BY <1>1, FinParts DEF NextChunk, CompleteChunk, connVars
<1>4. FinSent(link'[d], SendDone(d) /\ wlPc[d] # "write")
  BY <1>1, FinParts DEF NextChunk, CompleteChunk, connVars
<1>5. (SendDone(d) => SendDone(d)') /\ (state[d] = "closed" => state'[d] = "closed")
  BY <1>2 DEF NextChunk, CompleteChunk, SendDone, States, StreamType, streamVars
<1>6. \A x \in {d, e} : /\ FinDecided(x) => SendDone(x)
                        /\ ~live[x] \/ clPc[x] \in {"close_retire", "reset_retire"} => state[x] = "closed"
  BY <1>1, FinParts
<1>7. FinDecided(d)' => FinDecided(d) \/ SendDone(d)'
  BY <1>2, <1>6 DEF NextChunk, CompleteChunk, FinDecided, SendDone, States, StreamType,
     CloserType, LoopType, streamVars, connVars, closerVars, loopVars
<1>8. wlPc'[d] = "write" => wlPc[d] = "write" \/ ~SendDone(d)
  BY <1>2 DEF NextChunk, CompleteChunk, LoopType, loopVars
<1>9. ~live'[d] \/ clPc'[d] \in {"close_retire", "reset_retire"} =>
        ~live[d] \/ clPc[d] \in {"close_retire", "reset_retire"} \/ state'[d] = "closed"
  BY <1>2, <1>6 DEF NextChunk, CompleteChunk, FinDecided, SendDone, States, StreamType, ConnType,
     CloserType, streamVars, connVars, closerVars
<1> QED
  BY <1>1, <1>3, <1>4, <1>5, <1>7, <1>8, <1>9, FinKeep

\* A chunk in the loop's hands goes to a link that has no CLOSE or RESET yet.
LEMMA WriteDataFin ==
  ASSUME TypeOK, FlowInv, FinInv, NEW e \in Ends, WriteData(e), NEW d \in Ends
  PROVE  FinLast(d)'
<1>1. FinLast(d) /\ FinLast(e)
  BY DEF FinInv
<1>2. StreamType /\ ConnType /\ CloserType /\ LoopType
  BY DEF TypeOK
<1>3. FinQueued(controlQueue'[d], SendDone(d))
  BY <1>1, FinParts DEF WriteData, CompleteChunk, connVars
<1>4. FinSent(link'[d], SendDone(d) /\ wlPc[d] # "write")
  <2>1. link'[d] = link[d] \/ (d = e /\ wlPc[e] = "write" /\ link'[d] = Append(link[e], held[e]))
    BY <1>2 DEF WriteData, ConnType
  <2>2. held[e] \in Frame /\ held[e].type = "DATA"
    BY Ints DEF FlowInv, FlowAt, ChunksAreData
  <2>3. ~IsFin(held[e])
    BY <2>2 DEF IsFin
  <2> QED
    BY <1>1, <2>1, <2>2, <2>3, QueueTypes, FinParts, FinSentAppend
<1>5. (SendDone(d) => SendDone(d)') /\ (state[d] = "closed" => state'[d] = "closed")
  BY <1>2 DEF WriteData, CompleteChunk, SendDone, States, StreamType, streamVars
<1>6. \A x \in {d, e} : /\ FinDecided(x) => SendDone(x)
                        /\ ~live[x] \/ clPc[x] \in {"close_retire", "reset_retire"} => state[x] = "closed"
  BY <1>1, FinParts
<1>7. FinDecided(d)' => FinDecided(d) \/ SendDone(d)'
  BY <1>2, <1>6 DEF WriteData, CompleteChunk, FinDecided, SendDone, States, StreamType,
     CloserType, LoopType, streamVars, connVars, closerVars, loopVars
<1>8. wlPc'[d] = "write" => wlPc[d] = "write" \/ ~SendDone(d)
  BY <1>2 DEF WriteData, CompleteChunk, LoopType, loopVars
<1>9. ~live'[d] \/ clPc'[d] \in {"close_retire", "reset_retire"} =>
        ~live[d] \/ clPc[d] \in {"close_retire", "reset_retire"} \/ state'[d] = "closed"
  BY <1>2, <1>6 DEF WriteData, CompleteChunk, FinDecided, SendDone, States, StreamType, ConnType,
     CloserType, streamVars, connVars, closerVars
<1> QED
  BY <1>1, <1>3, <1>4, <1>5, <1>7, <1>8, <1>9, FinKeep

\* A loop that stops holds nothing.
LEMMA WriterStopsFin ==
  ASSUME TypeOK, FlowInv, FinInv, NEW e \in Ends, WriterStops(e), NEW d \in Ends
  PROVE  FinLast(d)'
<1>1. FinLast(d) /\ FinLast(e)
  BY DEF FinInv
<1>2. StreamType /\ ConnType /\ CloserType /\ LoopType
  BY DEF TypeOK
<1>3. FinQueued(controlQueue'[d], SendDone(d))
  BY <1>1, FinParts DEF WriterStops, CompleteChunk, connVars
<1>4. FinSent(link'[d], SendDone(d) /\ wlPc[d] # "write")
  BY <1>1, FinParts DEF WriterStops, CompleteChunk, connVars
<1>5. (SendDone(d) => SendDone(d)') /\ (state[d] = "closed" => state'[d] = "closed")
  BY <1>2 DEF WriterStops, CompleteChunk, SendDone, States, StreamType, streamVars
<1>6. \A x \in {d, e} : /\ FinDecided(x) => SendDone(x)
                        /\ ~live[x] \/ clPc[x] \in {"close_retire", "reset_retire"} => state[x] = "closed"
  BY <1>1, FinParts
<1>7. FinDecided(d)' => FinDecided(d) \/ SendDone(d)'
  BY <1>2, <1>6 DEF WriterStops, CompleteChunk, FinDecided, SendDone, States, StreamType,
     CloserType, LoopType, streamVars, connVars, closerVars, loopVars
<1>8. wlPc'[d] = "write" => wlPc[d] = "write" \/ ~SendDone(d)
  BY <1>2 DEF WriterStops, CompleteChunk, LoopType, loopVars
<1>9. ~live'[d] \/ clPc'[d] \in {"close_retire", "reset_retire"} =>
        ~live[d] \/ clPc[d] \in {"close_retire", "reset_retire"} \/ state'[d] = "closed"
  BY <1>2, <1>6 DEF WriterStops, CompleteChunk, FinDecided, SendDone, States, StreamType,
     ConnType, CloserType, streamVars, connVars, closerVars
<1> QED
  BY <1>1, <1>3, <1>4, <1>5, <1>7, <1>8, <1>9, FinKeep

\* A frame is looked up, or discarded.
LEMMA LookupLiveStreamFin ==
  ASSUME TypeOK, FlowInv, FinInv, NEW e \in Ends, LookupLiveStream(e), NEW d \in Ends
  PROVE  FinLast(d)'
<1>1. FinLast(d) /\ FinLast(e)
  BY DEF FinInv
<1>2. StreamType /\ ConnType /\ CloserType /\ LoopType
  BY DEF TypeOK
<1>3. FinQueued(controlQueue'[d], SendDone(d))
  BY <1>1, FinParts DEF LookupLiveStream, connVars
<1>4. FinSent(link'[d], SendDone(d) /\ wlPc[d] # "write")
  <2>1. link' = link \/ (Consume(e) /\ Incoming(e) # <<>>)
    BY DEF LookupLiveStream
  <2> QED
    BY <1>1, <2>1, FinParts, FinConsume
<1>5. (SendDone(d) => SendDone(d)') /\ (state[d] = "closed" => state'[d] = "closed")
  BY <1>2 DEF LookupLiveStream, SendDone, States, StreamType, streamVars
<1>6. \A x \in {d, e} : /\ FinDecided(x) => SendDone(x)
                        /\ ~live[x] \/ clPc[x] \in {"close_retire", "reset_retire"} => state[x] = "closed"
  BY <1>1, FinParts
<1>7. FinDecided(d)' => FinDecided(d) \/ SendDone(d)'
  BY <1>2, <1>6 DEF LookupLiveStream, FinDecided, SendDone, States, StreamType, CloserType,
     LoopType, streamVars, connVars, closerVars, loopVars
<1>8. wlPc'[d] = "write" => wlPc[d] = "write" \/ ~SendDone(d)
  BY <1>2 DEF LookupLiveStream, LoopType, loopVars
<1>9. ~live'[d] \/ clPc'[d] \in {"close_retire", "reset_retire"} =>
        ~live[d] \/ clPc[d] \in {"close_retire", "reset_retire"} \/ state'[d] = "closed"
  BY <1>2, <1>6 DEF LookupLiveStream, FinDecided, SendDone, States, StreamType, ConnType,
     CloserType, streamVars, connVars, closerVars
<1> QED
  BY <1>1, <1>3, <1>4, <1>5, <1>7, <1>8, <1>9, FinKeep

\* handleData leaves the sending side alone.
LEMMA HandleDataFin ==
  ASSUME TypeOK, FlowInv, FinInv, NEW e \in Ends, HandleData(e), NEW d \in Ends
  PROVE  FinLast(d)'
<1>1. FinLast(d) /\ FinLast(e)
  BY DEF FinInv
<1>2. StreamType /\ ConnType /\ CloserType /\ LoopType
  BY DEF TypeOK
<1>3. FinQueued(controlQueue'[d], SendDone(d))
  BY <1>1, FinParts DEF HandleData, NotifyLocked, FailConn, connVars
<1>4. FinSent(link'[d], SendDone(d) /\ wlPc[d] # "write")
  <2>1. Consume(e) /\ Incoming(e) # <<>>
    BY DEF HandleData, Dispatching
  <2> QED
    BY <2>1, FinConsume
<1>5. (SendDone(d) => SendDone(d)') /\ (state[d] = "closed" => state'[d] = "closed")
  BY <1>2 DEF HandleData, NotifyLocked, FailConn, SendDone, States, StreamType, streamVars
<1>6. \A x \in {d, e} : /\ FinDecided(x) => SendDone(x)
                        /\ ~live[x] \/ clPc[x] \in {"close_retire", "reset_retire"} => state[x] = "closed"
  BY <1>1, FinParts
<1>7. FinDecided(d)' => FinDecided(d) \/ SendDone(d)'
  BY <1>2, <1>6 DEF HandleData, NotifyLocked, FailConn, FinDecided, SendDone, States, StreamType,
     CloserType, LoopType, streamVars, connVars, closerVars, loopVars
<1>8. wlPc'[d] = "write" => wlPc[d] = "write" \/ ~SendDone(d)
  BY <1>2 DEF HandleData, NotifyLocked, FailConn, LoopType, loopVars
<1>9. ~live'[d] \/ clPc'[d] \in {"close_retire", "reset_retire"} =>
        ~live[d] \/ clPc[d] \in {"close_retire", "reset_retire"} \/ state'[d] = "closed"
  BY <1>2, <1>6 DEF HandleData, NotifyLocked, FailConn, FinDecided, SendDone, States, StreamType,
     ConnType, CloserType, streamVars, connVars, closerVars
<1> QED
  BY <1>1, <1>3, <1>4, <1>5, <1>7, <1>8, <1>9, FinKeep

\* So does handleWindow.
LEMMA HandleWindowFin ==
  ASSUME TypeOK, FlowInv, FinInv, NEW e \in Ends, HandleWindow(e), NEW d \in Ends
  PROVE  FinLast(d)'
<1>1. FinLast(d) /\ FinLast(e)
  BY DEF FinInv
<1>2. StreamType /\ ConnType /\ CloserType /\ LoopType
  BY DEF TypeOK
<1>3. FinQueued(controlQueue'[d], SendDone(d))
  BY <1>1, FinParts DEF HandleWindow, NotifyLocked, FailConn, connVars
<1>4. FinSent(link'[d], SendDone(d) /\ wlPc[d] # "write")
  <2>1. Consume(e) /\ Incoming(e) # <<>>
    BY DEF HandleWindow, Dispatching
  <2> QED
    BY <2>1, FinConsume
<1>5. (SendDone(d) => SendDone(d)') /\ (state[d] = "closed" => state'[d] = "closed")
  BY <1>2 DEF HandleWindow, NotifyLocked, FailConn, SendDone, States, StreamType, streamVars
<1>6. \A x \in {d, e} : /\ FinDecided(x) => SendDone(x)
                        /\ ~live[x] \/ clPc[x] \in {"close_retire", "reset_retire"} => state[x] = "closed"
  BY <1>1, FinParts
<1>7. FinDecided(d)' => FinDecided(d) \/ SendDone(d)'
  BY <1>2, <1>6 DEF HandleWindow, NotifyLocked, FailConn, FinDecided, SendDone, States,
     StreamType, CloserType, LoopType, streamVars, connVars, closerVars, loopVars
<1>8. wlPc'[d] = "write" => wlPc[d] = "write" \/ ~SendDone(d)
  BY <1>2 DEF HandleWindow, NotifyLocked, FailConn, LoopType, loopVars
<1>9. ~live'[d] \/ clPc'[d] \in {"close_retire", "reset_retire"} =>
        ~live[d] \/ clPc[d] \in {"close_retire", "reset_retire"} \/ state'[d] = "closed"
  BY <1>2, <1>6 DEF HandleWindow, NotifyLocked, FailConn, FinDecided, SendDone, States,
     StreamType, ConnType, CloserType, streamVars, connVars, closerVars
<1> QED
  BY <1>1, <1>3, <1>4, <1>5, <1>7, <1>8, <1>9, FinKeep

\* handleClose closes the second side, and only then retires the stream.
LEMMA HandleCloseFin ==
  ASSUME TypeOK, FlowInv, FinInv, NEW e \in Ends, HandleClose(e), NEW d \in Ends
  PROVE  FinLast(d)'
<1>1. FinLast(d) /\ FinLast(e)
  BY DEF FinInv
<1>2. StreamType /\ ConnType /\ CloserType /\ LoopType
  BY DEF TypeOK
<1>3. FinQueued(controlQueue'[d], SendDone(d))
  BY <1>1, FinParts DEF HandleClose, NotifyLocked, connVars
<1>4. FinSent(link'[d], SendDone(d) /\ wlPc[d] # "write")
  <2>1. Consume(e) /\ Incoming(e) # <<>>
    BY DEF HandleClose, Dispatching
  <2> QED
    BY <2>1, FinConsume
<1>5. (SendDone(d) => SendDone(d)') /\ (state[d] = "closed" => state'[d] = "closed")
  BY <1>2 DEF HandleClose, NotifyLocked, SendDone, States, StreamType, streamVars
<1>6. \A x \in {d, e} : /\ FinDecided(x) => SendDone(x)
                        /\ ~live[x] \/ clPc[x] \in {"close_retire", "reset_retire"} => state[x] = "closed"
  BY <1>1, FinParts
<1>7. FinDecided(d)' => FinDecided(d) \/ SendDone(d)'
  BY <1>2, <1>6 DEF HandleClose, NotifyLocked, FinDecided, SendDone, States, StreamType,
     CloserType, LoopType, streamVars, connVars, closerVars, loopVars
<1>8. wlPc'[d] = "write" => wlPc[d] = "write" \/ ~SendDone(d)
  BY <1>2 DEF HandleClose, NotifyLocked, LoopType, loopVars
<1>9. ~live'[d] \/ clPc'[d] \in {"close_retire", "reset_retire"} =>
        ~live[d] \/ clPc[d] \in {"close_retire", "reset_retire"} \/ state'[d] = "closed"
  BY <1>2, <1>6 DEF HandleClose, NotifyLocked, FinDecided, SendDone, States, StreamType, ConnType,
     CloserType, streamVars, connVars, closerVars
<1> QED
  BY <1>1, <1>3, <1>4, <1>5, <1>7, <1>8, <1>9, FinKeep

\* handleReset closes the stream and retires it.
LEMMA HandleResetFin ==
  ASSUME TypeOK, FlowInv, FinInv, NEW e \in Ends, HandleReset(e), NEW d \in Ends
  PROVE  FinLast(d)'
<1>1. FinLast(d) /\ FinLast(e)
  BY DEF FinInv
<1>2. StreamType /\ ConnType /\ CloserType /\ LoopType
  BY DEF TypeOK
<1>3. FinQueued(controlQueue'[d], SendDone(d))
  BY <1>1, FinParts DEF HandleReset, ApplyReset, NotifyLocked, connVars
<1>4. FinSent(link'[d], SendDone(d) /\ wlPc[d] # "write")
  <2>1. Consume(e) /\ Incoming(e) # <<>>
    BY DEF HandleReset, Dispatching
  <2> QED
    BY <2>1, FinConsume
<1>5. (SendDone(d) => SendDone(d)') /\ (state[d] = "closed" => state'[d] = "closed")
  BY <1>2 DEF HandleReset, ApplyReset, NotifyLocked, SendDone, States, StreamType, streamVars
<1>6. \A x \in {d, e} : /\ FinDecided(x) => SendDone(x)
                        /\ ~live[x] \/ clPc[x] \in {"close_retire", "reset_retire"} => state[x] = "closed"
  BY <1>1, FinParts
<1>7. FinDecided(d)' => FinDecided(d) \/ SendDone(d)'
  BY <1>2, <1>6 DEF HandleReset, ApplyReset, NotifyLocked, FinDecided, SendDone, States,
     StreamType, CloserType, LoopType, streamVars, connVars, closerVars, loopVars
<1>8. wlPc'[d] = "write" => wlPc[d] = "write" \/ ~SendDone(d)
  BY <1>2 DEF HandleReset, ApplyReset, NotifyLocked, LoopType, loopVars
<1>9. ~live'[d] \/ clPc'[d] \in {"close_retire", "reset_retire"} =>
        ~live[d] \/ clPc[d] \in {"close_retire", "reset_retire"} \/ state'[d] = "closed"
  BY <1>2, <1>6 DEF HandleReset, ApplyReset, NotifyLocked, FinDecided, SendDone, States,
     StreamType, ConnType, CloserType, streamVars, connVars, closerVars
<1> QED
  BY <1>1, <1>3, <1>4, <1>5, <1>7, <1>8, <1>9, FinKeep

\* resetStream closes a stream that is still in the table; one that is not is closed.
LEMMA ResetStreamFin ==
  ASSUME TypeOK, FlowInv, FinInv, NEW e \in Ends, ResetStream(e), NEW d \in Ends
  PROVE  FinLast(d)'
<1>1. FinLast(d) /\ FinLast(e)
  BY DEF FinInv
<1>2. StreamType /\ ConnType /\ CloserType /\ LoopType
  BY DEF TypeOK
<1>3. FinQueued(controlQueue'[d], SendDone(d))
  BY <1>1, FinParts DEF ResetStream, ApplyReset, NotifyLocked, connVars
<1>4. FinSent(link'[d], SendDone(d) /\ wlPc[d] # "write")
  BY <1>1, FinParts DEF ResetStream, ApplyReset, NotifyLocked, connVars
<1>5. (SendDone(d) => SendDone(d)') /\ (state[d] = "closed" => state'[d] = "closed")
  BY <1>2 DEF ResetStream, ApplyReset, NotifyLocked, SendDone, States, StreamType, streamVars
<1>6. \A x \in {d, e} : /\ FinDecided(x) => SendDone(x)
                        /\ ~live[x] \/ clPc[x] \in {"close_retire", "reset_retire"} => state[x] = "closed"
  BY <1>1, FinParts
<1>7. FinDecided(d)' => FinDecided(d) \/ SendDone(d)'
  BY <1>2, <1>6 DEF ResetStream, ApplyReset, NotifyLocked, FinDecided, SendDone, States,
     StreamType, CloserType, LoopType, streamVars, connVars, closerVars, loopVars
<1>8. wlPc'[d] = "write" => wlPc[d] = "write" \/ ~SendDone(d)
  BY <1>2 DEF ResetStream, ApplyReset, NotifyLocked, LoopType, loopVars
<1>9. ~live'[d] \/ clPc'[d] \in {"close_retire", "reset_retire"} =>
        ~live[d] \/ clPc[d] \in {"close_retire", "reset_retire"} \/ state'[d] = "closed"
  BY <1>2, <1>6 DEF ResetStream, ApplyReset, NotifyLocked, FinDecided, SendDone, States,
     StreamType, ConnType, CloserType, streamVars, connVars, closerVars
<1> QED
  BY <1>1, <1>3, <1>4, <1>5, <1>7, <1>8, <1>9, FinKeep

\* A read loop that stops sends nothing.
LEMMA ReaderStopsFin ==
  ASSUME TypeOK, FlowInv, FinInv, NEW e \in Ends, ReaderStops(e), NEW d \in Ends
  PROVE  FinLast(d)'
<1>1. FinLast(d) /\ FinLast(e)
  BY DEF FinInv
<1>2. StreamType /\ ConnType /\ CloserType /\ LoopType
  BY DEF TypeOK
<1>3. FinQueued(controlQueue'[d], SendDone(d))
  BY <1>1, FinParts DEF ReaderStops, connVars
<1>4. FinSent(link'[d], SendDone(d) /\ wlPc[d] # "write")
  BY <1>1, FinParts DEF ReaderStops, connVars
<1>5. (SendDone(d) => SendDone(d)') /\ (state[d] = "closed" => state'[d] = "closed")
  BY <1>2 DEF ReaderStops, SendDone, States, StreamType, streamVars
<1>6. \A x \in {d, e} : /\ FinDecided(x) => SendDone(x)
                        /\ ~live[x] \/ clPc[x] \in {"close_retire", "reset_retire"} => state[x] = "closed"
  BY <1>1, FinParts
<1>7. FinDecided(d)' => FinDecided(d) \/ SendDone(d)'
  BY <1>2, <1>6 DEF ReaderStops, FinDecided, SendDone, States, StreamType, CloserType, LoopType,
     streamVars, connVars, closerVars, loopVars
<1>8. wlPc'[d] = "write" => wlPc[d] = "write" \/ ~SendDone(d)
  BY <1>2 DEF ReaderStops, LoopType, loopVars
<1>9. ~live'[d] \/ clPc'[d] \in {"close_retire", "reset_retire"} =>
        ~live[d] \/ clPc[d] \in {"close_retire", "reset_retire"} \/ state'[d] = "closed"
  BY <1>2, <1>6 DEF ReaderStops, FinDecided, SendDone, States, StreamType, ConnType, CloserType,
     streamVars, connVars, closerVars
<1> QED
  BY <1>1, <1>3, <1>4, <1>5, <1>7, <1>8, <1>9, FinKeep

\* The variables that FinLast reads.
finVars == <<clPc, rlPc, state, controlQueue, link, wlPc, live>>

\* A step that leaves them alone.
LEMMA FinUntouched ==
  ASSUME FinInv, UNCHANGED finVars, NEW d \in Ends
  PROVE  FinLast(d)'
  BY DEF FinInv, finVars, FinLast, FinDecided, SendDone

\* Nothing was sent yet.
LEMMA FinInit == Init => FinInv
  BY DEF Init, FinInv, FinLast, FinDecided

\* The inductive invariant: a CLOSE or RESET is queued after the sending side has ended and
\* written when the writer loop holds no chunk, for every window, chunk and queue size.
THEOREM FinInvariant == Spec => []FinInv
<1>1. TypeOK /\ FlowInv /\ FinInv /\ [Next]_vars => FinInv'
  <2> SUFFICES ASSUME TypeOK, FlowInv, FinInv, [Next]_vars, NEW d \in Ends PROVE FinLast(d)'
    BY DEF FinInv
  <2>1. ASSUME NEW e \in Ends, CloseWrite(e) PROVE FinLast(d)'
    BY <2>1, CloseWriteFin
  <2>2. ASSUME NEW e \in Ends, CloseCloseWrite(e) PROVE FinLast(d)'
    BY <2>2, CloseCloseWriteFin
  <2>3. ASSUME NEW e \in Ends, Reset(e) PROVE FinLast(d)'
    BY <2>3, ResetFin
  <2>4. ASSUME NEW e \in Ends, CloseReset(e) PROVE FinLast(d)'
    BY <2>4, CloseResetFin
  <2>5. ASSUME NEW e \in Ends, RetireForClose(e) PROVE FinLast(d)'
    BY <2>5, RetireForCloseFin
  <2>6. ASSUME NEW e \in Ends, RetireForReset(e) PROVE FinLast(d)'
    BY <2>6, RetireForResetFin
  <2>7. ASSUME NEW e \in Ends, Close(e) PROVE FinLast(d)'
    BY <2>7, CloseFin
  <2>8. ASSUME NEW e \in Ends, CloseEOF(e) PROVE FinLast(d)'
    BY <2>8, CloseEOFFin
  <2>9. ASSUME NEW e \in Ends, SendClose(e) PROVE FinLast(d)'
    BY <2>9, SendCloseFin
  <2>10. ASSUME NEW e \in Ends, SendReset(e) PROVE FinLast(d)'
    BY <2>10, SendResetFin
  <2>11. ASSUME NEW e \in Ends, SendResetStream(e) PROVE FinLast(d)'
    BY <2>11, SendResetStreamFin
  <2>12. ASSUME NEW e \in Ends, SendWindowFrame(e) PROVE FinLast(d)'
    BY <2>12, SendWindowFrameFin
  <2>13. ASSUME NEW e \in Ends, WriteControl(e) PROVE FinLast(d)'
    BY <2>13, WriteControlFin
  <2>14. ASSUME NEW e \in Ends, NextChunk(e) PROVE FinLast(d)'
    BY <2>14, NextChunkFin
  <2>15. ASSUME NEW e \in Ends, WriteData(e) PROVE FinLast(d)'
    BY <2>15, WriteDataFin
  <2>16. ASSUME NEW e \in Ends, WriterStops(e) PROVE FinLast(d)'
    BY <2>16, WriterStopsFin
  <2>17. ASSUME NEW e \in Ends, LookupLiveStream(e) PROVE FinLast(d)'
    BY <2>17, LookupLiveStreamFin
  <2>18. ASSUME NEW e \in Ends, HandleData(e) PROVE FinLast(d)'
    BY <2>18, HandleDataFin
  <2>19. ASSUME NEW e \in Ends, HandleWindow(e) PROVE FinLast(d)'
    BY <2>19, HandleWindowFin
  <2>20. ASSUME NEW e \in Ends, HandleClose(e) PROVE FinLast(d)'
    BY <2>20, HandleCloseFin
  <2>21. ASSUME NEW e \in Ends, HandleReset(e) PROVE FinLast(d)'
    BY <2>21, HandleResetFin
  <2>22. ASSUME NEW e \in Ends, ResetStream(e) PROVE FinLast(d)'
    BY <2>22, ResetStreamFin
  <2>23. ASSUME NEW e \in Ends, ReaderStops(e) PROVE FinLast(d)'
    BY <2>23, ReaderStopsFin
  <2>24. ASSUME NEW e \in Ends,
                (\E p \in ReadSizes : ReadData(e, p)) \/ ReadEmpty(e) \/ ReadConnClosed(e) \/ CreditConsumed(e)
                  \/ (\E n \in WriteSizes : Write(e, n)) \/ ReserveSendCredit(e) \/ QueueChunk(e)
                  \/ ChunkDone(e) \/ WriteConnClosed(e) \/ CancelWrite(e) \/ ConnEnds(e)
         PROVE  FinLast(d)'
    <3>1. UNCHANGED finVars
      BY <2>24 DEF finVars, ReadData, ReadEmpty, ReadConnClosed, CreditConsumed, Write,
         ReserveSendCredit, QueueChunk, ChunkDone, WriteConnClosed, CancelWrite, ConnEnds,
         streamVars, connVars, closerVars, loopVars
    <3> QED
      BY <3>1, FinUntouched
  <2>25. CASE UNCHANGED vars
    <3>1. UNCHANGED finVars
      BY <2>25 DEF finVars, vars, streamVars, connVars, closerVars, loopVars
    <3> QED
      BY <3>1, FinUntouched
  <2> QED
    BY <2>1, <2>2, <2>3, <2>4, <2>5, <2>6, <2>7, <2>8, <2>9, <2>10, <2>11, <2>12, <2>13, <2>14,
       <2>15, <2>16, <2>17, <2>18, <2>19, <2>20, <2>21, <2>22, <2>23, <2>24, <2>25 DEF Next,
       AppReads, WriteSteps, CloseSteps, WriterLoop, ReaderLoop, AppCalls
<1> QED
  BY <1>1, FinInit, FlowInvariant, TypeCorrect, PTL DEF Spec

\* No DATA follows CLOSE or RESET on the link, however Write, CloseWrite, Reset and the
\* writer loop interleave.
THEOREM NeverDataAfterClose == Spec => []NoDataAfterClose
<1>1. FinInv => NoDataAfterClose
  BY DEF FinInv, FinLast, IsFin, NoDataAfterClose
<1> QED
  BY <1>1, FinInvariant, PTL
=============================================================================
