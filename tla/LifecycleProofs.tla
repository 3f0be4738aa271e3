-------------------------- MODULE LifecycleProofs ---------------------------
(***************************************************************************)
(* Proofs about Lifecycle, for every value of the constants: LifeInv is    *)
(* inductive, and OneWriter, EndsOnce, DeliveredIffCurrent and ErrSettled  *)
(* follow from it.                                                         *)
(***************************************************************************)
EXTENDS Lifecycle, TLAPS

\* Appending to a queue, and taking its head.
LEMMA SeqAppend ==
  ASSUME NEW S, NEW q \in Seq(S), NEW x \in S
  PROVE  /\ Append(q, x) \in Seq(S) /\ Len(Append(q, x)) = Len(q) + 1 /\ Len(q) \in Nat
         /\ Append(q, x)[Len(q) + 1] = x /\ \A i \in 1..Len(q) : Append(q, x)[i] = q[i]
  OBVIOUS

\* Taking the head of a queue moves the rest up by one.
LEMMA SeqTail ==
  ASSUME NEW S, NEW q \in Seq(S), q # <<>>
  PROVE  /\ Tail(q) \in Seq(S) /\ Len(Tail(q)) = Len(q) - 1 /\ Len(q) \in Nat \ {0}
         /\ Head(q) \in S /\ Head(q) = q[1] /\ \A i \in 1..Len(Tail(q)) : Tail(q)[i] = q[i + 1]
  OBVIOUS

\* A new connection satisfies the invariant.
LEMMA LifeInit == Init => LifeInv
<1> SUFFICES ASSUME Init PROVE LifeInv
  OBVIOUS
<1>1. ConnType /\ EndType
  BY LifecycleAssumption DEF Init, ConnType, EndType, Errors, Actors
<1>2. QueueType
  <2>1. /\ controlQueue = <<>> /\ deliveryQueue = <<>> /\ delivered = <<>>
        /\ flushLeft = 0 /\ frames = 0 /\ apps = 0 /\ owed = 0 /\ arrived = 0 /\ dlLeft = 0
    BY DEF Init
  <2> QED
    BY <2>1 DEF QueueType
<1>3. LoopType
  BY DEF Init, LoopType, Frames
<1> QED
  BY <1>1, <1>2, <1>3, LifecycleAssumption DEF Init, LifeInv, TypeOK, Actors, Errors, Frames, OnceInv, Inside, WriterInv, ErrorInv, ErrorOnce, TimerInv, LocalInv, ReasonIsPeers, ErrInv, DeliveryInv, gated, BacklogDelivered, Current

\* Every step keeps it: one case per action, one step per conjunct it can disturb.
LEMMA LifeStep == LifeInv /\ [Next]_vars => LifeInv'
<1> SUFFICES ASSUME LifeInv, [Next]_vars PROVE LifeInv'
  OBVIOUS
<1>0. /\ ConnType /\ QueueType /\ EndType /\ LoopType
      /\ OnceInv /\ WriterInv /\ ErrorInv /\ ErrorOnce /\ TimerInv /\ LocalInv /\ ReasonIsPeers /\ ErrInv /\ DeliveryInv /\ BacklogDelivered
  BY DEF LifeInv, TypeOK
<1>1. ASSUME NEW a \in Actors, CloseOnce(a) PROVE LifeInv'
  <2>1. QueueType' /\ LoopType' /\ ErrorOnce' /\ ReasonIsPeers' /\ DeliveryInv' /\ BacklogDelivered'
    BY <1>0, <1>1 DEF CloseOnce, OnceFree, Out, gateVars, hsVars, readVars, dlVars, QueueType,
      LoopType, Frames, ErrorOnce, ReasonIsPeers, DeliveryInv, gated, BacklogDelivered, Current
  <2>2. ConnType'
    BY <1>0, <1>1 DEF CloseOnce, OnceFree, Out, gateVars, hsVars, readVars, dlVars, ConnType,
      Actors, Errors, LoopType, Frames
  <2>3. EndType'
    BY <1>0, <1>1 DEF CloseOnce, OnceFree, Out, gateVars, hsVars, readVars, dlVars, EndType, Actors,
      ConnType, Errors
  <2>4. OnceInv'
    BY <1>0, <1>1 DEF CloseOnce, OnceFree, Out, gateVars, hsVars, readVars, dlVars, OnceInv, Actors,
      Inside, ConnType, Errors, QueueType, EndType, LoopType, Frames
  <2>5. WriterInv'
    BY <1>0, <1>1 DEF CloseOnce, OnceFree, Out, gateVars, hsVars, readVars, dlVars, WriterInv,
      Actors, ConnType, Errors, QueueType, EndType, LoopType, Frames, OnceInv, Inside
  <2>6. ErrorInv'
    BY <1>0, <1>1 DEF CloseOnce, OnceFree, Out, gateVars, hsVars, readVars, dlVars, ErrorInv,
      ConnType, Actors, Errors, QueueType, EndType, LoopType, Frames, OnceInv, Inside
  <2>7. TimerInv'
    BY <1>0, <1>1 DEF CloseOnce, OnceFree, Out, gateVars, hsVars, readVars, dlVars, TimerInv,
      ConnType, Actors, Errors, QueueType, EndType, LoopType, Frames
  <2>8. LocalInv'
    BY <1>0, <1>1 DEF CloseOnce, OnceFree, Out, gateVars, hsVars, readVars, dlVars, LocalInv,
      Actors, ConnType, Errors, QueueType, EndType, LoopType, Frames, OnceInv, Inside
  <2>9. ErrInv'
    BY <1>0, <1>1 DEF CloseOnce, OnceFree, Out, gateVars, hsVars, readVars, dlVars, ErrInv, Actors,
      ConnType, Errors, QueueType, EndType, LoopType, Frames, OnceInv, Inside, WriterInv
  <2> QED
    BY <2>1, <2>2, <2>3, <2>4, <2>5, <2>6, <2>7, <2>8, <2>9 DEF LifeInv, TypeOK
<1>2. ASSUME NEW a \in Actors, MarkFail(a) PROVE LifeInv'
  <2>1. QueueType' /\ LoopType' /\ ErrorInv' /\ ErrorOnce' /\ ReasonIsPeers' /\ DeliveryInv' /\ BacklogDelivered'
    BY <1>0, <1>2 DEF MarkFail, Code, ClaimsPreRun, gateVars, hsVars, readVars, dlVars, QueueType,
      LoopType, Frames, ErrorInv, ErrorOnce, ReasonIsPeers, DeliveryInv, gated,
      BacklogDelivered, Current
  <2>2. ConnType'
    BY <1>0, <1>2 DEF MarkFail, Code, ClaimsPreRun, gateVars, hsVars, readVars, dlVars, ConnType,
      Actors, Errors, LoopType, Frames
  <2>3. EndType'
    BY <1>0, <1>2 DEF MarkFail, Code, ClaimsPreRun, gateVars, hsVars, readVars, dlVars, EndType,
      Actors, ConnType, Errors
  <2>4. OnceInv'
    BY <1>0, <1>2 DEF MarkFail, Code, ClaimsPreRun, gateVars, hsVars, readVars, dlVars, OnceInv,
      Actors, Inside, ConnType, Errors, QueueType, EndType, LoopType, Frames
  <2>5. WriterInv'
    BY <1>0, <1>2 DEF MarkFail, Code, ClaimsPreRun, gateVars, hsVars, readVars, dlVars, WriterInv,
      Actors, ConnType, Errors, QueueType, EndType, LoopType, Frames, OnceInv, Inside
  <2>6. TimerInv'
    BY <1>0, <1>2 DEF MarkFail, Code, ClaimsPreRun, gateVars, hsVars, readVars, dlVars, TimerInv,
      ConnType, Actors, Errors, QueueType, EndType, LoopType, Frames
  <2>7. LocalInv'
    BY <1>0, <1>2 DEF MarkFail, Code, ClaimsPreRun, gateVars, hsVars, readVars, dlVars, LocalInv,
      Actors, ConnType, Errors, QueueType, EndType, LoopType, Frames, OnceInv, Inside
  <2>8. ErrInv'
    BY <1>0, <1>2 DEF MarkFail, Code, ClaimsPreRun, gateVars, hsVars, readVars, dlVars, ErrInv,
      Actors, ConnType, Errors, QueueType, EndType, LoopType, Frames, OnceInv, Inside, WriterInv
  <2> QED
    BY <2>1, <2>2, <2>3, <2>4, <2>5, <2>6, <2>7, <2>8 DEF LifeInv, TypeOK
<1>3. ASSUME NEW a \in Actors, SayQueued(a) PROVE LifeInv'
  <2>1. LoopType' /\ ReasonIsPeers' /\ DeliveryInv' /\ BacklogDelivered'
    BY <1>0, <1>3 DEF SayQueued, QueueError, SpawnCloser, gateVars, hsVars, readVars, dlVars, Out,
      LoopType, Frames, ReasonIsPeers, DeliveryInv, gated, BacklogDelivered, Current
  <2>2. ConnType'
    BY <1>0, <1>3 DEF SayQueued, QueueError, SpawnCloser, gateVars, hsVars, readVars, dlVars, Out,
      ConnType, Actors, Errors, LoopType, Frames
  <2>3. QueueType'
    BY <1>0, <1>3, LifecycleAssumption DEF SayQueued, QueueError, SpawnCloser, gateVars, hsVars,
      readVars, dlVars, Out, QueueType
  <2>4. EndType'
    BY <1>0, <1>3 DEF SayQueued, QueueError, SpawnCloser, gateVars, hsVars, readVars, dlVars, Out,
      EndType, Actors, ConnType, Errors
  <2>5. OnceInv'
    BY <1>0, <1>3 DEF SayQueued, QueueError, SpawnCloser, gateVars, hsVars, readVars, dlVars, Out,
      OnceInv, Actors, Inside, ConnType, Errors, QueueType, EndType, LoopType, Frames
  <2>6. WriterInv'
    BY <1>0, <1>3 DEF SayQueued, QueueError, SpawnCloser, gateVars, hsVars, readVars, dlVars, Out,
      WriterInv, Actors, ConnType, Errors, QueueType, EndType, LoopType, Frames, OnceInv, Inside
  <2>7. ErrorInv'
    BY <1>0, <1>3 DEF SayQueued, QueueError, SpawnCloser, gateVars, hsVars, readVars, dlVars, Out,
      ErrorInv, ConnType, Actors, Errors, QueueType, EndType, LoopType, Frames, OnceInv, Inside
  <2>8. ErrorOnce'
    BY <1>0, <1>3 DEF SayQueued, QueueError, SpawnCloser, gateVars, hsVars, readVars, dlVars, Out,
      ErrorOnce, ConnType, Actors, Errors, QueueType, EndType, LoopType, Frames, OnceInv,
      Inside, ErrorInv
  <2>9. TimerInv'
    BY <1>0, <1>3 DEF SayQueued, QueueError, SpawnCloser, gateVars, hsVars, readVars, dlVars, Out,
      TimerInv, ConnType, Actors, Errors, QueueType, EndType, LoopType, Frames
  <2>10. LocalInv'
    BY <1>0, <1>3 DEF SayQueued, QueueError, SpawnCloser, gateVars, hsVars, readVars, dlVars, Out,
      LocalInv, Actors, ConnType, Errors, QueueType, EndType, LoopType, Frames, OnceInv, Inside
  <2>11. ErrInv'
    BY <1>0, <1>3 DEF SayQueued, QueueError, SpawnCloser, gateVars, hsVars, readVars, dlVars, Out,
      ErrInv, Actors, ConnType, Errors, QueueType, EndType, LoopType, Frames, OnceInv, Inside,
      WriterInv
  <2> QED
    BY <2>1, <2>2, <2>3, <2>4, <2>5, <2>6, <2>7, <2>8, <2>9, <2>10, <2>11 DEF LifeInv, TypeOK
<1>4. ASSUME NEW a \in Actors, SayNow(a) PROVE LifeInv'
  <2>1. QueueType' /\ LoopType' /\ ReasonIsPeers' /\ DeliveryInv' /\ BacklogDelivered'
    BY <1>0, <1>4 DEF SayNow, Written, WriteFails, SpawnCloser, gateVars, hsVars, readVars, dlVars,
      Out, QueueType, LoopType, Frames, ReasonIsPeers, DeliveryInv, gated, BacklogDelivered,
      Current
  <2>2. ConnType'
    BY <1>0, <1>4 DEF SayNow, Written, WriteFails, SpawnCloser, gateVars, hsVars, readVars, dlVars,
      Out, ConnType, Actors, Errors, LoopType, Frames
  <2>3. EndType'
    BY <1>0, <1>4 DEF SayNow, Written, WriteFails, SpawnCloser, gateVars, hsVars, readVars, dlVars,
      Out, EndType, Actors, ConnType, Errors
  <2>4. OnceInv'
    BY <1>0, <1>4 DEF SayNow, Written, WriteFails, SpawnCloser, gateVars, hsVars, readVars, dlVars,
      Out, OnceInv, Actors, Inside, ConnType, Errors, QueueType, EndType, LoopType, Frames
  <2>5. WriterInv'
    BY <1>0, <1>4 DEF SayNow, Written, WriteFails, SpawnCloser, gateVars, hsVars, readVars, dlVars,
      Out, WriterInv, Actors, ConnType, Errors, QueueType, EndType, LoopType, Frames, OnceInv,
      Inside
  <2>6. ErrorInv'
    BY <1>0, <1>4 DEF SayNow, Written, WriteFails, SpawnCloser, gateVars, hsVars, readVars, dlVars,
      Out, ErrorInv, ConnType, Actors, Errors, QueueType, EndType, LoopType, Frames, OnceInv,
      Inside
  <2>7. ErrorOnce'
    BY <1>0, <1>4 DEF SayNow, Written, WriteFails, SpawnCloser, gateVars, hsVars, readVars, dlVars,
      Out, ErrorOnce, ConnType, Actors, Errors, QueueType, EndType, LoopType, Frames, OnceInv,
      Inside, ErrorInv
  <2>8. TimerInv'
    BY <1>0, <1>4 DEF SayNow, Written, WriteFails, SpawnCloser, gateVars, hsVars, readVars, dlVars,
      Out, TimerInv, ConnType, Actors, Errors, QueueType, EndType, LoopType, Frames
  <2>9. LocalInv'
    BY <1>0, <1>4 DEF SayNow, Written, WriteFails, SpawnCloser, gateVars, hsVars, readVars, dlVars,
      Out, LocalInv, Actors, ConnType, Errors, QueueType, EndType, LoopType, Frames, OnceInv,
      Inside
  <2>10. ErrInv'
    BY <1>0, <1>4 DEF SayNow, Written, WriteFails, SpawnCloser, gateVars, hsVars, readVars, dlVars,
      Out, ErrInv, Actors, ConnType, Errors, QueueType, EndType, LoopType, Frames, OnceInv,
      Inside, WriterInv
  <2> QED
    BY <2>1, <2>2, <2>3, <2>4, <2>5, <2>6, <2>7, <2>8, <2>9, <2>10 DEF LifeInv, TypeOK
<1>5. ASSUME NEW a \in Actors, StartFlush(a) PROVE LifeInv'
  <2>1. ConnType' /\ LoopType' /\ ErrorInv' /\ ErrorOnce' /\ ReasonIsPeers' /\ DeliveryInv' /\ BacklogDelivered'
    BY <1>0, <1>5 DEF StartFlush, connVars, gateVars, hsVars, readVars, dlVars, ConnType, Actors,
      Errors, LoopType, Frames, ErrorInv, ErrorOnce, ReasonIsPeers, DeliveryInv, gated,
      BacklogDelivered, Current
  <2>2. QueueType'
    BY <1>0, <1>5, LifecycleAssumption DEF StartFlush, connVars, gateVars, hsVars, readVars, dlVars,
      QueueType
  <2>3. EndType'
    BY <1>0, <1>5 DEF StartFlush, connVars, gateVars, hsVars, readVars, dlVars, EndType, Actors,
      ConnType, Errors
  <2>4. OnceInv'
    BY <1>0, <1>5 DEF StartFlush, connVars, gateVars, hsVars, readVars, dlVars, OnceInv, Actors,
      Inside, ConnType, Errors, QueueType, EndType, LoopType, Frames
  <2>5. WriterInv'
    BY <1>0, <1>5 DEF StartFlush, connVars, gateVars, hsVars, readVars, dlVars, WriterInv, Actors,
      ConnType, Errors, QueueType, EndType, LoopType, Frames, OnceInv, Inside
  <2>6. TimerInv'
    BY <1>0, <1>5 DEF StartFlush, connVars, gateVars, hsVars, readVars, dlVars, TimerInv, ConnType,
      Actors, Errors, QueueType, EndType, LoopType, Frames
  <2>7. LocalInv'
    BY <1>0, <1>5 DEF StartFlush, connVars, gateVars, hsVars, readVars, dlVars, LocalInv, Actors,
      ConnType, Errors, QueueType, EndType, LoopType, Frames, OnceInv, Inside
  <2>8. ErrInv'
    BY <1>0, <1>5 DEF StartFlush, connVars, gateVars, hsVars, readVars, dlVars, ErrInv, Actors,
      ConnType, Errors, QueueType, EndType, LoopType, Frames, OnceInv, Inside, WriterInv
  <2> QED
    BY <2>1, <2>2, <2>3, <2>4, <2>5, <2>6, <2>7, <2>8 DEF LifeInv, TypeOK
<1>6. ASSUME NEW a \in Actors, Flush(a) PROVE LifeInv'
  <2>1. LoopType' /\ ReasonIsPeers' /\ DeliveryInv' /\ BacklogDelivered'
    BY <1>0, <1>6 DEF Flush, Written, WriteFails, SpawnCloser, gateVars, hsVars, readVars, dlVars,
      Out, LoopType, Frames, ReasonIsPeers, DeliveryInv, gated, BacklogDelivered, Current
  <2>2. ConnType'
    BY <1>0, <1>6 DEF Flush, Written, WriteFails, SpawnCloser, gateVars, hsVars, readVars, dlVars,
      Out, ConnType, Actors, Errors, LoopType, Frames
  <2>3. QueueType'
    <3>1. CASE flushLeft > 0 /\ controlQueue # <<>>
      <4>1. controlQueue' = Tail(controlQueue) /\ flushLeft' \in {flushLeft, flushLeft - 1}
        BY <3>1, <1>6 DEF Flush
      <4>2. controlQueue' \in Seq({"app", "pong", "error"}) /\ flushLeft' \in Nat
        BY <1>0, <3>1, <4>1 DEF QueueType
      <4> QED
        BY <1>0, <1>6, <4>2 DEF Flush, readVars, dlVars, QueueType
    <3>2. CASE ~(flushLeft > 0 /\ controlQueue # <<>>)
      <4>1. UNCHANGED <<controlQueue, flushLeft>>
        BY <3>2, <1>6 DEF Flush
      <4> QED
        BY <1>0, <1>6, <4>1 DEF Flush, readVars, dlVars, QueueType
    <3> QED
      BY <3>1, <3>2
  <2>4. EndType'
    <3>1. UNCHANGED <<endPc, how, sawRunning, closerPc>> \/ SpawnCloser(a)
      BY <1>6 DEF Flush
    <3>2. CASE SpawnCloser(a)
      BY <1>0, <3>2 DEF SpawnCloser, Out, EndType
    <3> QED
      BY <1>0, <3>1, <3>2 DEF EndType
  <2>5. OnceInv'
    BY <1>0, <1>6 DEF Flush, Written, WriteFails, SpawnCloser, gateVars, hsVars, readVars, dlVars,
      Out, OnceInv, Actors, Inside, ConnType, Errors, QueueType, EndType, LoopType, Frames
  <2>6. WriterInv'
    BY <1>0, <1>6 DEF Flush, Written, WriteFails, SpawnCloser, gateVars, hsVars, readVars, dlVars,
      Out, WriterInv, Actors, ConnType, Errors, QueueType, EndType, LoopType, Frames, OnceInv,
      Inside
  <2>7. ErrorInv'
    <3>1. once = a /\ once # "done"
      BY <1>0, <1>6 DEF Flush, OnceInv, Inside, Actors
    <3>2. CASE SpawnCloser(a)
      BY <3>2 DEF SpawnCloser, ErrorInv
    <3>3. CASE ~SpawnCloser(a)
      <4>1. controlQueue # <<>> /\ controlQueue' = Tail(controlQueue) /\ Written(Head(controlQueue))
        BY <3>3, <1>6 DEF Flush
      <4>2. /\ Len(controlQueue') = Len(controlQueue) - 1 /\ Len(controlQueue) \in Nat \ {0}
            /\ Head(controlQueue) = controlQueue[1]
            /\ \A i \in 1..Len(controlQueue') : controlQueue'[i] = controlQueue[i + 1]
        BY <1>0, <4>1 DEF QueueType
      <4>3. Head(controlQueue) # "error"
        BY <1>0, <3>1, <4>2 DEF ErrorInv
      <4> QED
        BY <1>0, <3>1, <4>1, <4>2, <4>3 DEF ErrorInv, Written
    <3> QED
      BY <3>2, <3>3
  <2>8. ErrorOnce'
    <3>1. errorsSent = 0 /\ \A i \in 1..Len(controlQueue) : controlQueue[i] # "error"
      BY <1>0, <1>6 DEF Flush, OnceInv, Inside, Actors, ErrorInv
    <3>2. errorsSent' \in {0, 1}
      BY <3>1, <1>6 DEF Flush, Written, WriteFails
    <3>3. CASE controlQueue' = controlQueue
      BY <3>1, <3>2, <3>3 DEF ErrorOnce
    <3>4. CASE controlQueue # <<>> /\ controlQueue' = Tail(controlQueue)
      <4>1. /\ Len(controlQueue') = Len(controlQueue) - 1 /\ Len(controlQueue) \in Nat
            /\ \A i \in 1..Len(controlQueue') : controlQueue'[i] = controlQueue[i + 1]
        BY <1>0, <3>4 DEF QueueType
      <4> QED
        BY <3>1, <3>2, <4>1 DEF ErrorOnce
    <3> QED
      BY <3>3, <3>4, <1>6 DEF Flush
  <2>9. TimerInv'
    BY <1>0, <1>6 DEF Flush, Written, WriteFails, SpawnCloser, gateVars, hsVars, readVars, dlVars,
      Out, TimerInv, ConnType, Actors, Errors, QueueType, EndType, LoopType, Frames
  <2>10. LocalInv'
    BY <1>0, <1>6 DEF Flush, Written, WriteFails, SpawnCloser, gateVars, hsVars, readVars, dlVars,
      Out, LocalInv, Actors, ConnType, Errors, QueueType, EndType, LoopType, Frames, OnceInv,
      Inside
  <2>11. ErrInv'
    BY <1>0, <1>6 DEF Flush, Written, WriteFails, SpawnCloser, gateVars, hsVars, readVars, dlVars,
      Out, ErrInv, Actors, ConnType, Errors, QueueType, EndType, LoopType, Frames, OnceInv,
      Inside, WriterInv
  <2> QED
    BY <2>1, <2>2, <2>3, <2>4, <2>5, <2>6, <2>7, <2>8, <2>9, <2>10, <2>11 DEF LifeInv, TypeOK
<1>7. ASSUME NEW a \in Actors, MarkWrite(a) PROVE LifeInv'
  <2>1. QueueType' /\ LoopType' /\ ErrorInv' /\ ErrorOnce' /\ ReasonIsPeers' /\ DeliveryInv' /\ BacklogDelivered'
    BY <1>0, <1>7 DEF MarkWrite, gateVars, hsVars, readVars, dlVars, QueueType, LoopType, Frames,
      ErrorInv, ErrorOnce, ReasonIsPeers, DeliveryInv, gated, BacklogDelivered, Current
  <2>2. ConnType'
    BY <1>0, <1>7 DEF MarkWrite, gateVars, hsVars, readVars, dlVars, ConnType, Actors, Errors,
      LoopType, Frames
  <2>3. EndType'
    BY <1>0, <1>7 DEF MarkWrite, gateVars, hsVars, readVars, dlVars, EndType, Actors, ConnType,
      Errors
  <2>4. OnceInv'
    BY <1>0, <1>7 DEF MarkWrite, gateVars, hsVars, readVars, dlVars, OnceInv, Actors, Inside,
      ConnType, Errors, QueueType, EndType, LoopType, Frames
  <2>5. WriterInv'
    BY <1>0, <1>7 DEF MarkWrite, gateVars, hsVars, readVars, dlVars, WriterInv, Actors, ConnType,
      Errors, QueueType, EndType, LoopType, Frames, OnceInv, Inside
  <2>6. TimerInv'
    BY <1>0, <1>7 DEF MarkWrite, gateVars, hsVars, readVars, dlVars, TimerInv, ConnType, Actors,
      Errors, QueueType, EndType, LoopType, Frames
  <2>7. LocalInv'
    BY <1>0, <1>7 DEF MarkWrite, gateVars, hsVars, readVars, dlVars, LocalInv, Actors, ConnType,
      Errors, QueueType, EndType, LoopType, Frames, OnceInv, Inside
  <2>8. ErrInv'
    BY <1>0, <1>7 DEF MarkWrite, gateVars, hsVars, readVars, dlVars, ErrInv, Actors, ConnType,
      Errors, QueueType, EndType, LoopType, Frames, OnceInv, Inside, WriterInv
  <2> QED
    BY <2>1, <2>2, <2>3, <2>4, <2>5, <2>6, <2>7, <2>8 DEF LifeInv, TypeOK
<1>8. ASSUME NEW a \in Actors, Shut(a) PROVE LifeInv'
  <2>1. LoopType' /\ ErrorOnce' /\ ReasonIsPeers'
    BY <1>0, <1>8 DEF Shut, CloseClosed, Out, gateVars, hsVars, readVars, dlVars, LoopType, Frames,
      ErrorOnce, ReasonIsPeers
  <2>2. ConnType'
    BY <1>0, <1>8 DEF Shut, CloseClosed, Out, gateVars, hsVars, readVars, dlVars, ConnType, Actors,
      Errors, LoopType, Frames
  <2>3. QueueType'
    BY <1>0, <1>8, LifecycleAssumption DEF Shut, CloseClosed, Out, gateVars, hsVars, readVars,
      dlVars, QueueType
  <2>4. EndType'
    BY <1>0, <1>8 DEF Shut, CloseClosed, Out, gateVars, hsVars, readVars, dlVars, EndType, Actors,
      ConnType, Errors
  <2>5. OnceInv'
    BY <1>0, <1>8 DEF Shut, CloseClosed, Out, gateVars, hsVars, readVars, dlVars, OnceInv, Actors,
      Inside, ConnType, Errors, QueueType, EndType, LoopType, Frames
  <2>6. WriterInv'
    BY <1>0, <1>8 DEF Shut, CloseClosed, Out, gateVars, hsVars, readVars, dlVars, WriterInv, Actors,
      ConnType, Errors, QueueType, EndType, LoopType, Frames, OnceInv, Inside
  <2>7. ErrorInv'
    BY <1>0, <1>8 DEF Shut, CloseClosed, Out, gateVars, hsVars, readVars, dlVars, ErrorInv,
      ConnType, Actors, Errors, QueueType, EndType, LoopType, Frames, OnceInv, Inside
  <2>8. TimerInv'
    BY <1>0, <1>8 DEF Shut, CloseClosed, Out, gateVars, hsVars, readVars, dlVars, TimerInv,
      ConnType, Actors, Errors, QueueType, EndType, LoopType, Frames
  <2>9. LocalInv'
    BY <1>0, <1>8 DEF Shut, CloseClosed, Out, gateVars, hsVars, readVars, dlVars, LocalInv, Actors,
      ConnType, Errors, QueueType, EndType, LoopType, Frames, OnceInv, Inside
  <2>10. ErrInv'
    BY <1>0, <1>8 DEF Shut, CloseClosed, Out, gateVars, hsVars, readVars, dlVars, ErrInv, Actors,
      ConnType, Errors, QueueType, EndType, LoopType, Frames, OnceInv, Inside, WriterInv
  <2>11. DeliveryInv'
    BY <1>0, <1>8, LifecycleAssumption DEF Shut, CloseClosed, Out, gateVars, hsVars, readVars,
      dlVars, DeliveryInv, gated, ConnType, Actors, Errors, QueueType, EndType, LoopType,
      Frames, OnceInv, Inside, WriterInv
  <2>12. BacklogDelivered'
    BY <1>0, <1>8, LifecycleAssumption DEF Shut, CloseClosed, Out, gateVars, hsVars, readVars,
      dlVars, BacklogDelivered, Current, gated, ConnType, Actors, Errors, QueueType, EndType,
      LoopType, Frames, OnceInv, Inside, DeliveryInv
  <2> QED
    BY <2>1, <2>2, <2>3, <2>4, <2>5, <2>6, <2>7, <2>8, <2>9, <2>10, <2>11, <2>12 DEF LifeInv, TypeOK
<1>9. ASSUME NEW a \in Actors, ClosePeerError(a) PROVE LifeInv'
  <2>1. QueueType' /\ LoopType' /\ ErrorOnce' /\ ReasonIsPeers' /\ DeliveryInv' /\ BacklogDelivered'
    BY <1>0, <1>9 DEF ClosePeerError, SpawnCloser, gateVars, hsVars, readVars, dlVars, Out,
      QueueType, LoopType, Frames, ErrorOnce, ReasonIsPeers, DeliveryInv, gated,
      BacklogDelivered, Current
  <2>2. ConnType'
    BY <1>0, <1>9 DEF ClosePeerError, SpawnCloser, gateVars, hsVars, readVars, dlVars, Out,
      ConnType, Actors, Errors, LoopType, Frames
  <2>3. EndType'
    BY <1>0, <1>9 DEF ClosePeerError, SpawnCloser, gateVars, hsVars, readVars, dlVars, Out, EndType,
      Actors, ConnType, Errors
  <2>4. OnceInv'
    BY <1>0, <1>9 DEF ClosePeerError, SpawnCloser, gateVars, hsVars, readVars, dlVars, Out, OnceInv,
      Actors, Inside, ConnType, Errors, QueueType, EndType, LoopType, Frames
  <2>5. WriterInv'
    BY <1>0, <1>9 DEF ClosePeerError, SpawnCloser, gateVars, hsVars, readVars, dlVars, Out,
      WriterInv, Actors, ConnType, Errors, QueueType, EndType, LoopType, Frames, OnceInv, Inside
  <2>6. ErrorInv'
    BY <1>0, <1>9 DEF ClosePeerError, SpawnCloser, gateVars, hsVars, readVars, dlVars, Out,
      ErrorInv, ConnType, Actors, Errors, QueueType, EndType, LoopType, Frames, OnceInv, Inside
  <2>7. TimerInv'
    BY <1>0, <1>9 DEF ClosePeerError, SpawnCloser, gateVars, hsVars, readVars, dlVars, Out,
      TimerInv, ConnType, Actors, Errors, QueueType, EndType, LoopType, Frames
  <2>8. LocalInv'
    BY <1>0, <1>9 DEF ClosePeerError, SpawnCloser, gateVars, hsVars, readVars, dlVars, Out,
      LocalInv, Actors, ConnType, Errors, QueueType, EndType, LoopType, Frames, OnceInv, Inside
  <2>9. ErrInv'
    BY <1>0, <1>9 DEF ClosePeerError, SpawnCloser, gateVars, hsVars, readVars, dlVars, Out, ErrInv,
      Actors, ConnType, Errors, QueueType, EndType, LoopType, Frames, OnceInv, Inside, WriterInv
  <2> QED
    BY <2>1, <2>2, <2>3, <2>4, <2>5, <2>6, <2>7, <2>8, <2>9 DEF LifeInv, TypeOK
<1>10. ASSUME Closer PROVE LifeInv'
  <2>1. LoopType' /\ WriterInv' /\ ErrorInv' /\ ErrorOnce' /\ TimerInv' /\ ReasonIsPeers'
    BY <1>0, <1>10 DEF Closer, CloseClosed, gateVars, hsVars, readVars, dlVars, LoopType, Frames,
      WriterInv, Actors, ErrorInv, ErrorOnce, TimerInv, ReasonIsPeers
  <2>2. ConnType'
    <3>1. closed' \in BOOLEAN
      BY <1>0, <1>10 DEF Closer, CloseClosed, ConnType
    <3>2. ws' \in {"open", "closing", "dead"}
      BY <1>0, <1>10 DEF Closer, ConnType
    <3> QED
      BY <1>0, <1>10, <3>1, <3>2 DEF Closer, gateVars, ConnType
  <2>3. QueueType'
    BY <1>0, <1>10, LifecycleAssumption DEF Closer, CloseClosed, gateVars, hsVars, readVars, dlVars,
      QueueType
  <2>4. EndType'
    BY <1>0, <1>10 DEF Closer, CloseClosed, gateVars, hsVars, readVars, dlVars, EndType, Actors,
      ConnType, Errors
  <2>5. OnceInv'
    BY <1>0, <1>10 DEF Closer, CloseClosed, gateVars, hsVars, readVars, dlVars, OnceInv, Actors,
      Inside, ConnType, Errors, QueueType, EndType, LoopType, Frames
  <2>6. LocalInv'
    BY <1>0, <1>10 DEF Closer, CloseClosed, gateVars, hsVars, readVars, dlVars, LocalInv, Actors,
      ConnType, Errors, QueueType, EndType, LoopType, Frames, OnceInv, Inside
  <2>7. ErrInv'
    BY <1>0, <1>10 DEF Closer, CloseClosed, gateVars, hsVars, readVars, dlVars, ErrInv, Actors,
      ConnType, Errors, QueueType, EndType, LoopType, Frames, OnceInv, Inside, WriterInv
  <2>8. DeliveryInv'
    BY <1>0, <1>10, LifecycleAssumption DEF Closer, CloseClosed, gateVars, hsVars, readVars, dlVars,
      DeliveryInv, gated, ConnType, Actors, Errors, QueueType, EndType, LoopType, Frames,
      OnceInv, Inside, WriterInv
  <2>9. BacklogDelivered'
    BY <1>0, <1>10, LifecycleAssumption DEF Closer, CloseClosed, gateVars, hsVars, readVars, dlVars,
      BacklogDelivered, Current, gated, ConnType, Actors, Errors, QueueType, EndType, LoopType,
      Frames, OnceInv, Inside, DeliveryInv
  <2> QED
    BY <2>1, <2>2, <2>3, <2>4, <2>5, <2>6, <2>7, <2>8, <2>9 DEF LifeInv, TypeOK
<1>11. ASSUME HelloReadFails PROVE LifeInv'
  <2>1. QueueType' /\ ErrorInv' /\ ErrorOnce' /\ ReasonIsPeers' /\ DeliveryInv' /\ BacklogDelivered'
    BY <1>0, <1>11 DEF HelloReadFails, Refuse, StopTimer, endVars, connVars, gateVars, readVars,
      dlVars, Ends, QueueType, ErrorInv, ErrorOnce, ReasonIsPeers, DeliveryInv, gated,
      BacklogDelivered, Current
  <2>2. ConnType'
    BY <1>0, <1>11 DEF HelloReadFails, Refuse, StopTimer, endVars, connVars, gateVars, readVars,
      dlVars, Ends, ConnType, Actors, Errors, LoopType, Frames
  <2>3. EndType'
    BY <1>0, <1>11 DEF HelloReadFails, Refuse, StopTimer, endVars, connVars, gateVars, readVars,
      dlVars, Ends, EndType, Actors, ConnType, Errors
  <2>4. LoopType'
    <3>1. timer' \in {"armed", "fired", "ran", "stopped"} /\ hsPc' \in {"failed", "abandoned"}
      BY <1>0, <1>11 DEF HelloReadFails, Refuse, StopTimer, LoopType
    <3>2. claimed' \in BOOLEAN
      BY <1>0, <1>11 DEF HelloReadFails, LoopType
    <3> QED
      BY <1>0, <1>11, <3>1, <3>2 DEF HelloReadFails, readVars, dlVars, LoopType
  <2>5. OnceInv'
    BY <1>0, <1>11 DEF HelloReadFails, Refuse, StopTimer, endVars, connVars, gateVars, readVars,
      dlVars, Ends, OnceInv, Actors, Inside, ConnType, Errors, QueueType, EndType, LoopType,
      Frames
  <2>6. WriterInv'
    BY <1>0, <1>11 DEF HelloReadFails, Refuse, StopTimer, endVars, connVars, gateVars, readVars,
      dlVars, Ends, WriterInv, Actors, ConnType, Errors, QueueType, EndType, LoopType, Frames,
      OnceInv, Inside
  <2>7. TimerInv'
    BY <1>0, <1>11 DEF HelloReadFails, Refuse, StopTimer, endVars, connVars, gateVars, readVars,
      dlVars, Ends, TimerInv, ConnType, Actors, Errors, QueueType, EndType, LoopType, Frames
  <2>8. LocalInv'
    BY <1>0, <1>11 DEF HelloReadFails, Refuse, StopTimer, endVars, connVars, gateVars, readVars,
      dlVars, Ends, LocalInv, Actors, ConnType, Errors, QueueType, EndType, LoopType, Frames,
      OnceInv, Inside
  <2>9. ErrInv'
    BY <1>0, <1>11 DEF HelloReadFails, Refuse, StopTimer, endVars, connVars, gateVars, readVars,
      dlVars, Ends, ErrInv, Actors, ConnType, Errors, QueueType, EndType, LoopType, Frames,
      OnceInv, Inside, WriterInv
  <2> QED
    BY <2>1, <2>2, <2>3, <2>4, <2>5, <2>6, <2>7, <2>8, <2>9 DEF LifeInv, TypeOK
<1>12. ASSUME ReadHello PROVE LifeInv'
  <2>1. ConnType' /\ QueueType' /\ EndType' /\ OnceInv' /\ ErrorInv' /\ ErrorOnce' /\ LocalInv' /\ ReasonIsPeers' /\ ErrInv' /\ DeliveryInv' /\ BacklogDelivered'
    BY <1>0, <1>12 DEF ReadHello, connVars, gateVars, endVars, readVars, dlVars, ConnType, Actors,
      Errors, QueueType, EndType, OnceInv, Inside, ErrorInv, ErrorOnce, LocalInv, ReasonIsPeers,
      ErrInv, DeliveryInv, gated, BacklogDelivered, Current
  <2>2. LoopType'
    BY <1>0, <1>12 DEF ReadHello, connVars, gateVars, endVars, readVars, dlVars, LoopType, Frames
  <2>3. WriterInv'
    BY <1>0, <1>12 DEF ReadHello, connVars, gateVars, endVars, readVars, dlVars, WriterInv, Actors,
      ConnType, Errors, QueueType, EndType, LoopType, Frames, OnceInv, Inside
  <2>4. TimerInv'
    BY <1>0, <1>12 DEF ReadHello, connVars, gateVars, endVars, readVars, dlVars, TimerInv, ConnType,
      Actors, Errors, QueueType, EndType, LoopType, Frames
  <2> QED
    BY <2>1, <2>2, <2>3, <2>4 DEF LifeInv, TypeOK
<1>13. ASSUME ClaimHello PROVE LifeInv'
  <2>1. ConnType' /\ QueueType' /\ ErrorInv' /\ ErrorOnce' /\ ReasonIsPeers' /\ DeliveryInv' /\ BacklogDelivered'
    BY <1>0, <1>13 DEF ClaimHello, HandshakeWins, endVars, Refuse, connVars, gateVars, readVars,
      dlVars, StopTimer, Ends, ConnType, Actors, Errors, QueueType, ErrorInv, ErrorOnce,
      ReasonIsPeers, DeliveryInv, gated, BacklogDelivered, Current
  <2>2. EndType'
    BY <1>0, <1>13 DEF ClaimHello, HandshakeWins, endVars, Refuse, connVars, gateVars, readVars,
      dlVars, StopTimer, Ends, EndType, Actors, ConnType, Errors
  <2>3. LoopType'
    BY <1>0, <1>13 DEF ClaimHello, HandshakeWins, endVars, Refuse, connVars, gateVars, readVars,
      dlVars, StopTimer, Ends, LoopType, Frames
  <2>4. OnceInv'
    BY <1>0, <1>13 DEF ClaimHello, HandshakeWins, endVars, Refuse, connVars, gateVars, readVars,
      dlVars, StopTimer, Ends, OnceInv, Actors, Inside, ConnType, Errors, QueueType, EndType,
      LoopType, Frames
  <2>5. WriterInv'
    BY <1>0, <1>13 DEF ClaimHello, HandshakeWins, endVars, Refuse, connVars, gateVars, readVars,
      dlVars, StopTimer, Ends, WriterInv, Actors, ConnType, Errors, QueueType, EndType,
      LoopType, Frames, OnceInv, Inside
  <2>6. TimerInv'
    BY <1>0, <1>13 DEF ClaimHello, HandshakeWins, endVars, Refuse, connVars, gateVars, readVars,
      dlVars, StopTimer, Ends, TimerInv, ConnType, Actors, Errors, QueueType, EndType, LoopType,
      Frames
  <2>7. LocalInv'
    BY <1>0, <1>13 DEF ClaimHello, HandshakeWins, endVars, Refuse, connVars, gateVars, readVars,
      dlVars, StopTimer, Ends, LocalInv, Actors, ConnType, Errors, QueueType, EndType, LoopType,
      Frames, OnceInv, Inside
  <2>8. ErrInv'
    BY <1>0, <1>13 DEF ClaimHello, HandshakeWins, endVars, Refuse, connVars, gateVars, readVars,
      dlVars, StopTimer, Ends, ErrInv, Actors, ConnType, Errors, QueueType, EndType, LoopType,
      Frames, OnceInv, Inside, WriterInv
  <2> QED
    BY <2>1, <2>2, <2>3, <2>4, <2>5, <2>6, <2>7, <2>8 DEF LifeInv, TypeOK
<1>14. ASSUME HelloRefused PROVE LifeInv'
  <2>1. ConnType' /\ QueueType' /\ ErrorInv' /\ ErrorOnce' /\ ReasonIsPeers' /\ DeliveryInv' /\ BacklogDelivered'
    BY <1>0, <1>14 DEF HelloRefused, Refuse, connVars, gateVars, dlVars, StopTimer, Ends, ConnType,
      Actors, Errors, QueueType, ErrorInv, ErrorOnce, ReasonIsPeers, DeliveryInv, gated,
      BacklogDelivered, Current
  <2>2. EndType'
    BY <1>0, <1>14 DEF HelloRefused, Refuse, connVars, gateVars, dlVars, StopTimer, Ends, EndType,
      Actors, ConnType, Errors
  <2>3. LoopType'
    <3>1. toldError' \in BOOLEAN
      BY <1>14 DEF HelloRefused
    <3>2. timer' \in {timer, "stopped"} /\ hsPc' = "failed"
      BY <1>14 DEF HelloRefused, Refuse, StopTimer
    <3>3. /\ claimed' = claimed /\ rlPc' = rlPc /\ rlFrame' = rlFrame /\ wlPc' = wlPc /\ wdPc' = wdPc
          /\ dlPc' = dlPc
      BY <1>14 DEF HelloRefused, dlVars
    <3> QED
      BY <1>0, <3>1, <3>2, <3>3 DEF LoopType
  <2>4. OnceInv'
    BY <1>0, <1>14 DEF HelloRefused, Refuse, connVars, gateVars, dlVars, StopTimer, Ends, OnceInv,
      Actors, Inside, ConnType, Errors, QueueType, EndType, LoopType, Frames
  <2>5. WriterInv'
    BY <1>0, <1>14 DEF HelloRefused, Refuse, connVars, gateVars, dlVars, StopTimer, Ends, WriterInv,
      Actors, ConnType, Errors, QueueType, EndType, LoopType, Frames, OnceInv, Inside
  <2>6. TimerInv'
    BY <1>0, <1>14 DEF HelloRefused, Refuse, connVars, gateVars, dlVars, StopTimer, Ends, TimerInv,
      ConnType, Actors, Errors, QueueType, EndType, LoopType, Frames
  <2>7. LocalInv'
    BY <1>0, <1>14 DEF HelloRefused, Refuse, connVars, gateVars, dlVars, StopTimer, Ends, LocalInv,
      Actors, ConnType, Errors, QueueType, EndType, LoopType, Frames, OnceInv, Inside
  <2>8. ErrInv'
    BY <1>0, <1>14 DEF HelloRefused, Refuse, connVars, gateVars, dlVars, StopTimer, Ends, ErrInv,
      Actors, ConnType, Errors, QueueType, EndType, LoopType, Frames, OnceInv, Inside, WriterInv
  <2> QED
    BY <2>1, <2>2, <2>3, <2>4, <2>5, <2>6, <2>7, <2>8 DEF LifeInv, TypeOK
<1>15. ASSUME HelloAccepted PROVE LifeInv'
  <2>1. QueueType' /\ ReasonIsPeers' /\ DeliveryInv' /\ BacklogDelivered'
    BY <1>0, <1>15 DEF HelloAccepted, endVars, Written, WriteFails, Refuse, connVars, gateVars,
      readVars, dlVars, StopTimer, Ends, QueueType, ReasonIsPeers, DeliveryInv, gated,
      BacklogDelivered, Current
  <2>2. ConnType'
    BY <1>0, <1>15 DEF HelloAccepted, endVars, Written, WriteFails, Refuse, connVars, gateVars,
      readVars, dlVars, StopTimer, Ends, ConnType, Actors, Errors, LoopType, Frames
  <2>3. EndType'
    BY <1>0, <1>15 DEF HelloAccepted, endVars, Written, WriteFails, Refuse, connVars, gateVars,
      readVars, dlVars, StopTimer, Ends, EndType, Actors, ConnType, Errors
  <2>4. LoopType'
    BY <1>0, <1>15 DEF HelloAccepted, endVars, Written, WriteFails, Refuse, connVars, gateVars,
      readVars, dlVars, StopTimer, Ends, LoopType, Frames
  <2>5. OnceInv'
    BY <1>0, <1>15 DEF HelloAccepted, endVars, Written, WriteFails, Refuse, connVars, gateVars,
      readVars, dlVars, StopTimer, Ends, OnceInv, Actors, Inside, ConnType, Errors, QueueType,
      EndType, LoopType, Frames
  <2>6. WriterInv'
    BY <1>0, <1>15 DEF HelloAccepted, endVars, Written, WriteFails, Refuse, connVars, gateVars,
      readVars, dlVars, StopTimer, Ends, WriterInv, Actors, ConnType, Errors, QueueType,
      EndType, LoopType, Frames, OnceInv, Inside
  <2>7. ErrorInv'
    BY <1>0, <1>15 DEF HelloAccepted, endVars, Written, WriteFails, Refuse, connVars, gateVars,
      readVars, dlVars, StopTimer, Ends, ErrorInv, ConnType, Actors, Errors, QueueType, EndType,
      LoopType, Frames, OnceInv, Inside
  <2>8. ErrorOnce'
    BY <1>0, <1>15 DEF HelloAccepted, endVars, Written, WriteFails, Refuse, connVars, gateVars,
      readVars, dlVars, StopTimer, Ends, ErrorOnce, ConnType, Actors, Errors, QueueType,
      EndType, LoopType, Frames, OnceInv, Inside, ErrorInv
  <2>9. TimerInv'
    BY <1>0, <1>15 DEF HelloAccepted, endVars, Written, WriteFails, Refuse, connVars, gateVars,
      readVars, dlVars, StopTimer, Ends, TimerInv, ConnType, Actors, Errors, QueueType, EndType,
      LoopType, Frames
  <2>10. LocalInv'
    BY <1>0, <1>15 DEF HelloAccepted, endVars, Written, WriteFails, Refuse, connVars, gateVars,
      readVars, dlVars, StopTimer, Ends, LocalInv, Actors, ConnType, Errors, QueueType, EndType,
      LoopType, Frames, OnceInv, Inside
  <2>11. ErrInv'
    BY <1>0, <1>15 DEF HelloAccepted, endVars, Written, WriteFails, Refuse, connVars, gateVars,
      readVars, dlVars, StopTimer, Ends, ErrInv, Actors, ConnType, Errors, QueueType, EndType,
      LoopType, Frames, OnceInv, Inside, WriterInv
  <2> QED
    BY <2>1, <2>2, <2>3, <2>4, <2>5, <2>6, <2>7, <2>8, <2>9, <2>10, <2>11 DEF LifeInv, TypeOK
<1>16. ASSUME TimerFires PROVE LifeInv'
  <2>1. ConnType' /\ QueueType' /\ EndType' /\ OnceInv' /\ WriterInv' /\ ErrorInv' /\ ErrorOnce' /\ LocalInv' /\ ReasonIsPeers' /\ ErrInv' /\ DeliveryInv' /\ BacklogDelivered'
    BY <1>0, <1>16 DEF TimerFires, connVars, gateVars, endVars, readVars, dlVars, ConnType, Actors,
      Errors, QueueType, EndType, OnceInv, Inside, WriterInv, ErrorInv, ErrorOnce, LocalInv,
      ReasonIsPeers, ErrInv, DeliveryInv, gated, BacklogDelivered, Current
  <2>2. LoopType'
    BY <1>0, <1>16 DEF TimerFires, connVars, gateVars, endVars, readVars, dlVars, LoopType, Frames
  <2>3. TimerInv'
    BY <1>0, <1>16 DEF TimerFires, connVars, gateVars, endVars, readVars, dlVars, TimerInv,
      ConnType, Actors, Errors, QueueType, EndType, LoopType, Frames
  <2> QED
    BY <2>1, <2>2, <2>3 DEF LifeInv, TypeOK
<1>17. ASSUME TimerClaims PROVE LifeInv'
  <2>1. ConnType' /\ QueueType' /\ ErrorInv' /\ ErrorOnce' /\ ReasonIsPeers' /\ DeliveryInv' /\ BacklogDelivered'
    BY <1>0, <1>17 DEF TimerClaims, endVars, Ends, connVars, gateVars, readVars, dlVars, ConnType,
      Actors, Errors, QueueType, ErrorInv, ErrorOnce, ReasonIsPeers, DeliveryInv, gated,
      BacklogDelivered, Current
  <2>2. EndType'
    BY <1>0, <1>17 DEF TimerClaims, endVars, Ends, connVars, gateVars, readVars, dlVars, EndType,
      Actors, ConnType, Errors
  <2>3. LoopType'
    BY <1>0, <1>17 DEF TimerClaims, endVars, Ends, connVars, gateVars, readVars, dlVars, LoopType,
      Frames
  <2>4. OnceInv'
    BY <1>0, <1>17 DEF TimerClaims, endVars, Ends, connVars, gateVars, readVars, dlVars, OnceInv,
      Actors, Inside, ConnType, Errors, QueueType, EndType, LoopType, Frames
  <2>5. WriterInv'
    BY <1>0, <1>17 DEF TimerClaims, endVars, Ends, connVars, gateVars, readVars, dlVars, WriterInv,
      Actors, ConnType, Errors, QueueType, EndType, LoopType, Frames, OnceInv, Inside
  <2>6. TimerInv'
    BY <1>0, <1>17 DEF TimerClaims, endVars, Ends, connVars, gateVars, readVars, dlVars, TimerInv,
      ConnType, Actors, Errors, QueueType, EndType, LoopType, Frames
  <2>7. LocalInv'
    BY <1>0, <1>17 DEF TimerClaims, endVars, Ends, connVars, gateVars, readVars, dlVars, LocalInv,
      Actors, ConnType, Errors, QueueType, EndType, LoopType, Frames, OnceInv, Inside
  <2>8. ErrInv'
    BY <1>0, <1>17 DEF TimerClaims, endVars, Ends, connVars, gateVars, readVars, dlVars, ErrInv,
      Actors, ConnType, Errors, QueueType, EndType, LoopType, Frames, OnceInv, Inside, WriterInv
  <2> QED
    BY <2>1, <2>2, <2>3, <2>4, <2>5, <2>6, <2>7, <2>8 DEF LifeInv, TypeOK
<1>18. ASSUME Run PROVE LifeInv'
  <2>1. QueueType' /\ EndType' /\ OnceInv' /\ ErrorInv' /\ ErrorOnce' /\ LocalInv' /\ ReasonIsPeers'
    BY <1>0, <1>18 DEF Run, gated, gateVars, endVars, QueueType, EndType, Actors, OnceInv, Inside,
      ErrorInv, ErrorOnce, LocalInv, ReasonIsPeers
  <2>2. ConnType'
    <3>1. running' \in BOOLEAN
      BY <1>0, <1>18 DEF Run, ConnType
    <3> QED
      BY <1>0, <1>18, <3>1 DEF Run, gateVars, ConnType
  <2>3. LoopType'
    BY <1>0, <1>18 DEF Run, gated, gateVars, endVars, LoopType, Frames
  <2>4. WriterInv'
    BY <1>0, <1>18 DEF Run, gated, gateVars, endVars, WriterInv, Actors, ConnType, Errors,
      QueueType, EndType, LoopType, Frames, OnceInv, Inside
  <2>5. TimerInv'
    BY <1>0, <1>18 DEF Run, gated, gateVars, endVars, TimerInv, ConnType, Actors, Errors, QueueType,
      EndType, LoopType, Frames
  <2>6. ErrInv'
    BY <1>0, <1>18 DEF Run, gated, gateVars, endVars, ErrInv, Actors, ConnType, Errors, QueueType,
      EndType, LoopType, Frames, OnceInv, Inside, WriterInv
  <2>7. DeliveryInv'
    BY <1>0, <1>18, LifecycleAssumption DEF Run, gated, gateVars, endVars, DeliveryInv, ConnType,
      Actors, Errors, QueueType, EndType, LoopType, Frames, OnceInv, Inside, WriterInv
  <2>8. BacklogDelivered'
    BY <1>0, <1>18, LifecycleAssumption DEF Run, gated, gateVars, endVars, BacklogDelivered,
      Current, ConnType, Actors, Errors, QueueType, EndType, LoopType, Frames, OnceInv, Inside,
      DeliveryInv
  <2> QED
    BY <2>1, <2>2, <2>3, <2>4, <2>5, <2>6, <2>7, <2>8 DEF LifeInv, TypeOK
<1>19. ASSUME Close PROVE LifeInv'
  <2>1. ConnType' /\ QueueType' /\ LoopType' /\ ErrorInv' /\ ErrorOnce' /\ ReasonIsPeers' /\ DeliveryInv' /\ BacklogDelivered'
    BY <1>0, <1>19 DEF Close, HasConn, Ends, connVars, gateVars, hsVars, readVars, dlVars, ConnType,
      Actors, Errors, QueueType, LoopType, Frames, ErrorInv, ErrorOnce, ReasonIsPeers,
      DeliveryInv, gated, BacklogDelivered, Current
  <2>2. EndType'
    BY <1>0, <1>19 DEF Close, HasConn, Ends, connVars, gateVars, hsVars, readVars, dlVars, EndType,
      Actors, ConnType, Errors
  <2>3. OnceInv'
    BY <1>0, <1>19 DEF Close, HasConn, Ends, connVars, gateVars, hsVars, readVars, dlVars, OnceInv,
      Actors, Inside, ConnType, Errors, QueueType, EndType, LoopType, Frames
  <2>4. WriterInv'
    BY <1>0, <1>19 DEF Close, HasConn, Ends, connVars, gateVars, hsVars, readVars, dlVars,
      WriterInv, Actors, ConnType, Errors, QueueType, EndType, LoopType, Frames, OnceInv, Inside
  <2>5. TimerInv'
    BY <1>0, <1>19 DEF Close, HasConn, Ends, connVars, gateVars, hsVars, readVars, dlVars, TimerInv,
      ConnType, Actors, Errors, QueueType, EndType, LoopType, Frames
  <2>6. LocalInv'
    BY <1>0, <1>19 DEF Close, HasConn, Ends, connVars, gateVars, hsVars, readVars, dlVars, LocalInv,
      Actors, ConnType, Errors, QueueType, EndType, LoopType, Frames, OnceInv, Inside
  <2>7. ErrInv'
    BY <1>0, <1>19 DEF Close, HasConn, Ends, connVars, gateVars, hsVars, readVars, dlVars, ErrInv,
      Actors, ConnType, Errors, QueueType, EndType, LoopType, Frames, OnceInv, Inside, WriterInv
  <2> QED
    BY <2>1, <2>2, <2>3, <2>4, <2>5, <2>6, <2>7 DEF LifeInv, TypeOK
<1>20. ASSUME SendApp PROVE LifeInv'
  <2>1. ConnType' /\ EndType' /\ LoopType' /\ OnceInv' /\ WriterInv' /\ TimerInv' /\ LocalInv' /\ ReasonIsPeers' /\ ErrInv' /\ DeliveryInv' /\ BacklogDelivered'
    BY <1>0, <1>20 DEF SendApp, HasConn, connVars, gateVars, hsVars, endVars, readVars, dlVars,
      ConnType, Actors, Errors, EndType, LoopType, Frames, OnceInv, Inside, WriterInv, TimerInv,
      LocalInv, ReasonIsPeers, ErrInv, DeliveryInv, gated, BacklogDelivered, Current
  <2>2. QueueType'
    BY <1>0, <1>20, LifecycleAssumption DEF SendApp, HasConn, connVars, gateVars, hsVars, endVars,
      readVars, dlVars, QueueType
  <2>3. ErrorInv'
    BY <1>0, <1>20 DEF SendApp, HasConn, connVars, gateVars, hsVars, endVars, readVars, dlVars,
      ErrorInv, ConnType, Actors, Errors, QueueType, EndType, LoopType, Frames, OnceInv, Inside
  <2>4. ErrorOnce'
    BY <1>0, <1>20 DEF SendApp, HasConn, connVars, gateVars, hsVars, endVars, readVars, dlVars,
      ErrorOnce, ConnType, Actors, Errors, QueueType, EndType, LoopType, Frames, OnceInv,
      Inside, ErrorInv
  <2> QED
    BY <2>1, <2>2, <2>3, <2>4 DEF LifeInv, TypeOK
<1>21. ASSUME ReleaseDelivery PROVE LifeInv'
  <2>1. QueueType' /\ EndType' /\ LoopType' /\ OnceInv' /\ WriterInv' /\ ErrorInv' /\ ErrorOnce' /\ TimerInv' /\ LocalInv' /\ ReasonIsPeers' /\ ErrInv'
    BY <1>0, <1>21 DEF ReleaseDelivery, gated, connVars, hsVars, endVars, readVars, dlVars,
      QueueType, EndType, Actors, LoopType, Frames, OnceInv, Inside, WriterInv, ErrorInv,
      ErrorOnce, TimerInv, LocalInv, ReasonIsPeers, ErrInv
  <2>2. ConnType'
    <3>1. gateOpen' \in BOOLEAN
      BY <1>0, <1>21 DEF ReleaseDelivery, ConnType
    <3>2. deliveryState' \in {"held", "released", "dropped"}
      BY <1>0, <1>21 DEF ReleaseDelivery, ConnType
    <3> QED
      BY <1>0, <1>21, <3>1, <3>2 DEF ReleaseDelivery, connVars, ConnType
  <2>3. DeliveryInv'
    BY <1>0, <1>21, LifecycleAssumption DEF ReleaseDelivery, gated, connVars, hsVars, endVars,
      readVars, dlVars, DeliveryInv, ConnType, Actors, Errors, QueueType, EndType, LoopType,
      Frames, OnceInv, Inside, WriterInv
  <2>4. BacklogDelivered'
    BY <1>0, <1>21, LifecycleAssumption DEF ReleaseDelivery, gated, connVars, hsVars, endVars,
      readVars, dlVars, BacklogDelivered, Current, ConnType, Actors, Errors, QueueType, EndType,
      LoopType, Frames, OnceInv, Inside, DeliveryInv
  <2> QED
    BY <2>1, <2>2, <2>3, <2>4 DEF LifeInv, TypeOK
<1>22. ASSUME Read PROVE LifeInv'
  <2>1. ConnType' /\ EndType' /\ OnceInv' /\ ErrorInv' /\ ErrorOnce' /\ TimerInv' /\ ReasonIsPeers' /\ DeliveryInv' /\ BacklogDelivered'
    BY <1>0, <1>22 DEF Read, Frames, connVars, gateVars, hsVars, endVars, dlVars, ConnType, Actors,
      Errors, EndType, OnceInv, Inside, ErrorInv, ErrorOnce, TimerInv, ReasonIsPeers,
      DeliveryInv, gated, BacklogDelivered, Current
  <2>2. QueueType'
    BY <1>0, <1>22, LifecycleAssumption DEF Read, Frames, connVars, gateVars, hsVars, endVars,
      dlVars, QueueType
  <2>3. LoopType'
    BY <1>0, <1>22 DEF Read, Frames, connVars, gateVars, hsVars, endVars, dlVars, LoopType
  <2>4. WriterInv'
    BY <1>0, <1>22 DEF Read, Frames, connVars, gateVars, hsVars, endVars, dlVars, WriterInv, Actors,
      ConnType, Errors, QueueType, EndType, LoopType, OnceInv, Inside
  <2>5. LocalInv'
    BY <1>0, <1>22 DEF Read, Frames, connVars, gateVars, hsVars, endVars, dlVars, LocalInv, Actors,
      ConnType, Errors, QueueType, EndType, LoopType, OnceInv, Inside
  <2>6. ErrInv'
    BY <1>0, <1>22 DEF Read, Frames, connVars, gateVars, hsVars, endVars, dlVars, ErrInv, Actors,
      ConnType, Errors, QueueType, EndType, LoopType, OnceInv, Inside, WriterInv
  <2> QED
    BY <2>1, <2>2, <2>3, <2>4, <2>5, <2>6 DEF LifeInv, TypeOK
<1>23. ASSUME EnqueueDelivery PROVE LifeInv'
  <2>1. ConnType' /\ ErrorInv' /\ ErrorOnce' /\ ReasonIsPeers' /\ BacklogDelivered'
    BY <1>0, <1>23 DEF EnqueueDelivery, endVars, Ends, connVars, gateVars, hsVars, dlVars, ConnType,
      Actors, Errors, ErrorInv, ErrorOnce, ReasonIsPeers, BacklogDelivered, Current, gated
  <2>2. QueueType'
    <3>1. deliveryQueue' \in Seq(Nat) /\ arrived' \in Nat
      <4>1. \/ deliveryQueue' = deliveryQueue /\ arrived' = arrived
            \/ deliveryQueue' = Append(deliveryQueue, arrived + 1) /\ arrived' = arrived + 1
        BY <1>23 DEF EnqueueDelivery
      <4> QED
        <5>1. deliveryQueue \in Seq(Nat) /\ arrived \in Nat /\ arrived + 1 \in Nat
          BY <1>0 DEF QueueType
        <5> QED
          BY <4>1, <5>1, SeqAppend
    <3> QED
      BY <1>0, <1>23, <3>1 DEF EnqueueDelivery, connVars, endVars, Ends, dlVars, QueueType
  <2>3. EndType'
    BY <1>0, <1>23 DEF EnqueueDelivery, endVars, Ends, connVars, gateVars, hsVars, dlVars, EndType,
      Actors, ConnType, Errors
  <2>4. LoopType'
    BY <1>0, <1>23 DEF EnqueueDelivery, endVars, Ends, connVars, gateVars, hsVars, dlVars, LoopType,
      Frames
  <2>5. OnceInv'
    BY <1>0, <1>23 DEF EnqueueDelivery, endVars, Ends, connVars, gateVars, hsVars, dlVars, OnceInv,
      Actors, Inside, ConnType, Errors, QueueType, EndType, LoopType, Frames
  <2>6. WriterInv'
    BY <1>0, <1>23 DEF EnqueueDelivery, endVars, Ends, connVars, gateVars, hsVars, dlVars,
      WriterInv, Actors, ConnType, Errors, QueueType, EndType, LoopType, Frames, OnceInv, Inside
  <2>7. TimerInv'
    BY <1>0, <1>23 DEF EnqueueDelivery, endVars, Ends, connVars, gateVars, hsVars, dlVars, TimerInv,
      ConnType, Actors, Errors, QueueType, EndType, LoopType, Frames
  <2>8. LocalInv'
    BY <1>0, <1>23 DEF EnqueueDelivery, endVars, Ends, connVars, gateVars, hsVars, dlVars, LocalInv,
      Actors, ConnType, Errors, QueueType, EndType, LoopType, Frames, OnceInv, Inside
  <2>9. ErrInv'
    BY <1>0, <1>23 DEF EnqueueDelivery, endVars, Ends, connVars, gateVars, hsVars, dlVars, ErrInv,
      Actors, ConnType, Errors, QueueType, EndType, LoopType, Frames, OnceInv, Inside, WriterInv
  <2>10. DeliveryInv'
    <3>1. \/ UNCHANGED <<deliveryQueue, arrived>>
          \/ /\ deliveryQueue' = Append(deliveryQueue, arrived + 1) /\ arrived' = arrived + 1
             /\ Len(deliveryQueue) < DeliveryQueueCap
      BY <1>23 DEF EnqueueDelivery
    <3>2. \/ Len(deliveryQueue') = Len(deliveryQueue) /\ arrived' = arrived
          \/ Len(deliveryQueue') = Len(deliveryQueue) + 1 /\ arrived' = arrived + 1 /\ Len(deliveryQueue) < DeliveryQueueCap
      BY <1>0, <3>1 DEF QueueType
    <3>3. Len(deliveryQueue) \in Nat /\ Len(delivered) \in Nat /\ arrived \in Nat /\ owed \in Nat
      BY <1>0 DEF QueueType
    <3> QED
      BY <1>0, <1>23, <3>2, <3>3, LifecycleAssumption
         DEF EnqueueDelivery, connVars, gateVars, dlVars, DeliveryInv, gated
  <2> QED
    BY <2>1, <2>2, <2>3, <2>4, <2>5, <2>6, <2>7, <2>8, <2>9, <2>10 DEF LifeInv, TypeOK
<1>24. ASSUME HandlePing PROVE LifeInv'
  <2>1. ConnType' /\ EndType' /\ OnceInv' /\ TimerInv' /\ ReasonIsPeers' /\ DeliveryInv' /\ BacklogDelivered'
    BY <1>0, <1>24 DEF HandlePing, connVars, gateVars, hsVars, endVars, dlVars, ConnType, Actors,
      Errors, EndType, OnceInv, Inside, TimerInv, ReasonIsPeers, DeliveryInv, gated,
      BacklogDelivered, Current
  <2>2. QueueType'
    <3>1. controlQueue' = controlQueue \/ controlQueue' = Append(controlQueue, "pong")
      BY <1>24 DEF HandlePing
    <3>2. controlQueue \in Seq({"app", "pong", "error"}) /\ "pong" \in {"app", "pong", "error"}
      BY <1>0 DEF QueueType
    <3>3. controlQueue' \in Seq({"app", "pong", "error"})
      BY <3>1, <3>2, SeqAppend
    <3> QED
      BY <1>0, <1>24, <3>3 DEF HandlePing, connVars, endVars, dlVars, QueueType
  <2>3. LoopType'
    BY <1>0, <1>24 DEF HandlePing, connVars, gateVars, hsVars, endVars, dlVars, LoopType, Frames
  <2>4. WriterInv'
    BY <1>0, <1>24 DEF HandlePing, connVars, gateVars, hsVars, endVars, dlVars, WriterInv, Actors,
      ConnType, Errors, QueueType, EndType, LoopType, Frames, OnceInv, Inside
  <2>5. ErrorInv'
    <3>1. controlQueue' = controlQueue \/ controlQueue' = Append(controlQueue, "pong")
      BY <1>24 DEF HandlePing
    <3>2. controlQueue \in Seq({"app", "pong", "error"}) /\ "pong" \in {"app", "pong", "error"}
      BY <1>0 DEF QueueType
    <3>3. \A i \in 1..Len(controlQueue') :
            controlQueue'[i] = "error" => i \in 1..Len(controlQueue) /\ controlQueue[i] = "error"
      <4>1. CASE controlQueue' = Append(controlQueue, "pong")
        BY <3>2, <4>1, SeqAppend
      <4> QED
        BY <3>1, <4>1
    <3> QED
      BY <1>0, <1>24, <3>3 DEF HandlePing, endVars, connVars, ErrorInv
  <2>6. ErrorOnce'
    <3>1. controlQueue' = controlQueue \/ controlQueue' = Append(controlQueue, "pong")
      BY <1>24 DEF HandlePing
    <3>2. controlQueue \in Seq({"app", "pong", "error"}) /\ "pong" \in {"app", "pong", "error"}
      BY <1>0 DEF QueueType
    <3>3. \A i \in 1..Len(controlQueue') :
            controlQueue'[i] = "error" => i \in 1..Len(controlQueue) /\ controlQueue[i] = "error"
      <4>1. CASE controlQueue' = Append(controlQueue, "pong")
        BY <3>2, <4>1, SeqAppend
      <4> QED
        BY <3>1, <4>1
    <3> QED
      BY <1>0, <1>24, <3>3 DEF HandlePing, endVars, ErrorOnce
  <2>7. LocalInv'
    BY <1>0, <1>24 DEF HandlePing, connVars, gateVars, hsVars, endVars, dlVars, LocalInv, Actors,
      ConnType, Errors, QueueType, EndType, LoopType, Frames, OnceInv, Inside
  <2>8. ErrInv'
    BY <1>0, <1>24 DEF HandlePing, connVars, gateVars, hsVars, endVars, dlVars, ErrInv, Actors,
      ConnType, Errors, QueueType, EndType, LoopType, Frames, OnceInv, Inside, WriterInv
  <2> QED
    BY <2>1, <2>2, <2>3, <2>4, <2>5, <2>6, <2>7, <2>8 DEF LifeInv, TypeOK
<1>25. ASSUME FailProtocol PROVE LifeInv'
  <2>1. ConnType' /\ QueueType' /\ ErrorInv' /\ ErrorOnce' /\ ReasonIsPeers' /\ DeliveryInv' /\ BacklogDelivered'
    BY <1>0, <1>25 DEF FailProtocol, Ends, connVars, gateVars, hsVars, dlVars, ConnType, Actors,
      Errors, QueueType, ErrorInv, ErrorOnce, ReasonIsPeers, DeliveryInv, gated,
      BacklogDelivered, Current
  <2>2. EndType'
    BY <1>0, <1>25 DEF FailProtocol, Ends, connVars, gateVars, hsVars, dlVars, EndType, Actors,
      ConnType, Errors
  <2>3. LoopType'
    BY <1>0, <1>25 DEF FailProtocol, Ends, connVars, gateVars, hsVars, dlVars, LoopType, Frames
  <2>4. OnceInv'
    BY <1>0, <1>25 DEF FailProtocol, Ends, connVars, gateVars, hsVars, dlVars, OnceInv, Actors,
      Inside, ConnType, Errors, QueueType, EndType, LoopType, Frames
  <2>5. WriterInv'
    BY <1>0, <1>25 DEF FailProtocol, Ends, connVars, gateVars, hsVars, dlVars, WriterInv, Actors,
      ConnType, Errors, QueueType, EndType, LoopType, Frames, OnceInv, Inside
  <2>6. TimerInv'
    BY <1>0, <1>25 DEF FailProtocol, Ends, connVars, gateVars, hsVars, dlVars, TimerInv, ConnType,
      Actors, Errors, QueueType, EndType, LoopType, Frames
  <2>7. LocalInv'
    BY <1>0, <1>25 DEF FailProtocol, Ends, connVars, gateVars, hsVars, dlVars, LocalInv, Actors,
      ConnType, Errors, QueueType, EndType, LoopType, Frames, OnceInv, Inside
  <2>8. ErrInv'
    BY <1>0, <1>25 DEF FailProtocol, Ends, connVars, gateVars, hsVars, dlVars, ErrInv, Actors,
      ConnType, Errors, QueueType, EndType, LoopType, Frames, OnceInv, Inside, WriterInv
  <2> QED
    BY <2>1, <2>2, <2>3, <2>4, <2>5, <2>6, <2>7, <2>8 DEF LifeInv, TypeOK
<1>26. ASSUME HandlePeerError PROVE LifeInv'
  <2>1. QueueType' /\ ErrorInv' /\ ErrorOnce' /\ ReasonIsPeers' /\ DeliveryInv' /\ BacklogDelivered'
    BY <1>0, <1>26 DEF HandlePeerError, Actors, PeerErr, Ends, gateVars, hsVars, dlVars, QueueType,
      ErrorInv, ErrorOnce, ReasonIsPeers, DeliveryInv, gated, BacklogDelivered, Current
  <2>2. ConnType'
    BY <1>0, <1>26 DEF HandlePeerError, Actors, PeerErr, Ends, gateVars, hsVars, dlVars, ConnType,
      Errors, LoopType, Frames
  <2>3. EndType'
    BY <1>0, <1>26 DEF HandlePeerError, Actors, PeerErr, Ends, gateVars, hsVars, dlVars, EndType,
      ConnType, Errors
  <2>4. LoopType'
    BY <1>0, <1>26 DEF HandlePeerError, Actors, PeerErr, Ends, gateVars, hsVars, dlVars, LoopType,
      Frames
  <2>5. OnceInv'
    BY <1>0, <1>26 DEF HandlePeerError, Actors, PeerErr, Ends, gateVars, hsVars, dlVars, OnceInv,
      Inside, ConnType, Errors, QueueType, EndType, LoopType, Frames
  <2>6. WriterInv'
    BY <1>0, <1>26 DEF HandlePeerError, Actors, PeerErr, Ends, gateVars, hsVars, dlVars, WriterInv,
      ConnType, Errors, QueueType, EndType, LoopType, Frames, OnceInv, Inside
  <2>7. TimerInv'
    BY <1>0, <1>26 DEF HandlePeerError, Actors, PeerErr, Ends, gateVars, hsVars, dlVars, TimerInv,
      ConnType, Errors, QueueType, EndType, LoopType, Frames
  <2>8. LocalInv'
    BY <1>0, <1>26 DEF HandlePeerError, Actors, PeerErr, Ends, gateVars, hsVars, dlVars, LocalInv,
      ConnType, Errors, QueueType, EndType, LoopType, Frames, OnceInv, Inside
  <2>9. ErrInv'
    BY <1>0, <1>26 DEF HandlePeerError, Actors, PeerErr, Ends, gateVars, hsVars, dlVars, ErrInv,
      ConnType, Errors, QueueType, EndType, LoopType, Frames, OnceInv, Inside, WriterInv
  <2> QED
    BY <2>1, <2>2, <2>3, <2>4, <2>5, <2>6, <2>7, <2>8, <2>9 DEF LifeInv, TypeOK
<1>27. ASSUME HandleReadError PROVE LifeInv'
  <2>1. QueueType' /\ ErrorInv' /\ ErrorOnce' /\ DeliveryInv' /\ BacklogDelivered'
    BY <1>0, <1>27 DEF HandleReadError, Reason, Ends, gateVars, hsVars, dlVars, QueueType, ErrorInv,
      ErrorOnce, DeliveryInv, gated, BacklogDelivered, Current
  <2>2. ConnType'
    BY <1>0, <1>27 DEF HandleReadError, Reason, Ends, gateVars, hsVars, dlVars, ConnType, Actors,
      Errors, LoopType, Frames
  <2>3. EndType'
    BY <1>0, <1>27 DEF HandleReadError, Reason, Ends, gateVars, hsVars, dlVars, EndType, Actors,
      ConnType, Errors
  <2>4. LoopType'
    BY <1>0, <1>27 DEF HandleReadError, Reason, Ends, gateVars, hsVars, dlVars, LoopType, Frames
  <2>5. OnceInv'
    BY <1>0, <1>27 DEF HandleReadError, Reason, Ends, gateVars, hsVars, dlVars, OnceInv, Actors,
      Inside, ConnType, Errors, QueueType, EndType, LoopType, Frames
  <2>6. WriterInv'
    BY <1>0, <1>27 DEF HandleReadError, Reason, Ends, gateVars, hsVars, dlVars, WriterInv, Actors,
      ConnType, Errors, QueueType, EndType, LoopType, Frames, OnceInv, Inside
  <2>7. TimerInv'
    BY <1>0, <1>27 DEF HandleReadError, Reason, Ends, gateVars, hsVars, dlVars, TimerInv, ConnType,
      Actors, Errors, QueueType, EndType, LoopType, Frames
  <2>8. LocalInv'
    BY <1>0, <1>27 DEF HandleReadError, Reason, Ends, gateVars, hsVars, dlVars, LocalInv, Actors,
      ConnType, Errors, QueueType, EndType, LoopType, Frames, OnceInv, Inside
  <2>9. ReasonIsPeers'
    BY <1>0, <1>27 DEF HandleReadError, Reason, Ends, gateVars, hsVars, dlVars, ReasonIsPeers,
      LocalInv, Actors
  <2>10. ErrInv'
    BY <1>0, <1>27 DEF HandleReadError, Reason, Ends, gateVars, hsVars, dlVars, ErrInv, Actors,
      ConnType, Errors, QueueType, EndType, LoopType, Frames, OnceInv, Inside, WriterInv
  <2> QED
    BY <2>1, <2>2, <2>3, <2>4, <2>5, <2>6, <2>7, <2>8, <2>9, <2>10 DEF LifeInv, TypeOK
<1>28. ASSUME WriteMessage PROVE LifeInv'
  <2>1. ReasonIsPeers' /\ DeliveryInv' /\ BacklogDelivered'
    BY <1>0, <1>28 DEF WriteMessage, Written, endVars, WriteFails, Ends, connVars, gateVars, hsVars,
      readVars, dlVars, ReasonIsPeers, DeliveryInv, gated, BacklogDelivered, Current
  <2>2. ConnType'
    BY <1>0, <1>28 DEF WriteMessage, Written, endVars, WriteFails, Ends, connVars, gateVars, hsVars,
      readVars, dlVars, ConnType, Actors, Errors, LoopType, Frames
  <2>3. QueueType'
    BY <1>0, <1>28, LifecycleAssumption DEF WriteMessage, Written, endVars, WriteFails, Ends,
      connVars, gateVars, hsVars, readVars, dlVars, QueueType
  <2>4. EndType'
    BY <1>0, <1>28 DEF WriteMessage, Written, endVars, WriteFails, Ends, connVars, gateVars, hsVars,
      readVars, dlVars, EndType, Actors, ConnType, Errors
  <2>5. LoopType'
    BY <1>0, <1>28 DEF WriteMessage, Written, endVars, WriteFails, Ends, connVars, gateVars, hsVars,
      readVars, dlVars, LoopType, Frames
  <2>6. OnceInv'
    BY <1>0, <1>28 DEF WriteMessage, Written, endVars, WriteFails, Ends, connVars, gateVars, hsVars,
      readVars, dlVars, OnceInv, Actors, Inside, ConnType, Errors, QueueType, EndType, LoopType,
      Frames
  <2>7. WriterInv'
    BY <1>0, <1>28 DEF WriteMessage, Written, endVars, WriteFails, Ends, connVars, gateVars, hsVars,
      readVars, dlVars, WriterInv, Actors, ConnType, Errors, QueueType, EndType, LoopType,
      Frames, OnceInv, Inside
  <2>8. ErrorInv'
    BY <1>0, <1>28 DEF WriteMessage, Written, endVars, WriteFails, Ends, connVars, gateVars, hsVars,
      readVars, dlVars, ErrorInv, ConnType, Actors, Errors, QueueType, EndType, LoopType,
      Frames, OnceInv, Inside
  <2>9. ErrorOnce'
    BY <1>0, <1>28 DEF WriteMessage, Written, endVars, WriteFails, Ends, connVars, gateVars, hsVars,
      readVars, dlVars, ErrorOnce, ConnType, Actors, Errors, QueueType, EndType, LoopType,
      Frames, OnceInv, Inside, ErrorInv
  <2>10. TimerInv'
    BY <1>0, <1>28 DEF WriteMessage, Written, endVars, WriteFails, Ends, connVars, gateVars, hsVars,
      readVars, dlVars, TimerInv, ConnType, Actors, Errors, QueueType, EndType, LoopType, Frames
  <2>11. LocalInv'
    BY <1>0, <1>28 DEF WriteMessage, Written, endVars, WriteFails, Ends, connVars, gateVars, hsVars,
      readVars, dlVars, LocalInv, Actors, ConnType, Errors, QueueType, EndType, LoopType,
      Frames, OnceInv, Inside
  <2>12. ErrInv'
    BY <1>0, <1>28 DEF WriteMessage, Written, endVars, WriteFails, Ends, connVars, gateVars, hsVars,
      readVars, dlVars, ErrInv, Actors, ConnType, Errors, QueueType, EndType, LoopType, Frames,
      OnceInv, Inside, WriterInv
  <2> QED
    BY <2>1, <2>2, <2>3, <2>4, <2>5, <2>6, <2>7, <2>8, <2>9, <2>10, <2>11, <2>12 DEF LifeInv, TypeOK
<1>29. ASSUME WriterStops PROVE LifeInv'
  <2>1. ConnType' /\ QueueType' /\ EndType' /\ OnceInv' /\ ErrorInv' /\ ErrorOnce' /\ TimerInv' /\ LocalInv' /\ ReasonIsPeers' /\ ErrInv' /\ DeliveryInv' /\ BacklogDelivered'
    BY <1>0, <1>29 DEF WriterStops, connVars, gateVars, hsVars, endVars, readVars, dlVars, ConnType,
      Actors, Errors, QueueType, EndType, OnceInv, Inside, ErrorInv, ErrorOnce, TimerInv,
      LocalInv, ReasonIsPeers, ErrInv, DeliveryInv, gated, BacklogDelivered, Current
  <2>2. LoopType'
    BY <1>0, <1>29 DEF WriterStops, connVars, gateVars, hsVars, endVars, readVars, dlVars, LoopType,
      Frames
  <2>3. WriterInv'
    BY <1>0, <1>29 DEF WriterStops, connVars, gateVars, hsVars, endVars, readVars, dlVars,
      WriterInv, Actors, ConnType, Errors, QueueType, EndType, LoopType, Frames, OnceInv, Inside
  <2> QED
    BY <2>1, <2>2, <2>3 DEF LifeInv, TypeOK
<1>30. ASSUME Watchdog PROVE LifeInv'
  <2>1. ConnType' /\ QueueType' /\ ErrorInv' /\ ErrorOnce' /\ ReasonIsPeers' /\ DeliveryInv' /\ BacklogDelivered'
    BY <1>0, <1>30 DEF Watchdog, Ends, endVars, connVars, gateVars, hsVars, readVars, dlVars,
      ConnType, Actors, Errors, QueueType, ErrorInv, ErrorOnce, ReasonIsPeers, DeliveryInv,
      gated, BacklogDelivered, Current
  <2>2. EndType'
    BY <1>0, <1>30 DEF Watchdog, Ends, endVars, connVars, gateVars, hsVars, readVars, dlVars,
      EndType, Actors, ConnType, Errors
  <2>3. LoopType'
    BY <1>0, <1>30 DEF Watchdog, Ends, endVars, connVars, gateVars, hsVars, readVars, dlVars,
      LoopType, Frames
  <2>4. OnceInv'
    BY <1>0, <1>30 DEF Watchdog, Ends, endVars, connVars, gateVars, hsVars, readVars, dlVars,
      OnceInv, Actors, Inside, ConnType, Errors, QueueType, EndType, LoopType, Frames
  <2>5. WriterInv'
    BY <1>0, <1>30 DEF Watchdog, Ends, endVars, connVars, gateVars, hsVars, readVars, dlVars,
      WriterInv, Actors, ConnType, Errors, QueueType, EndType, LoopType, Frames, OnceInv, Inside
  <2>6. TimerInv'
    BY <1>0, <1>30 DEF Watchdog, Ends, endVars, connVars, gateVars, hsVars, readVars, dlVars,
      TimerInv, ConnType, Actors, Errors, QueueType, EndType, LoopType, Frames
  <2>7. LocalInv'
    BY <1>0, <1>30 DEF Watchdog, Ends, endVars, connVars, gateVars, hsVars, readVars, dlVars,
      LocalInv, Actors, ConnType, Errors, QueueType, EndType, LoopType, Frames, OnceInv, Inside
  <2>8. ErrInv'
    BY <1>0, <1>30 DEF Watchdog, Ends, endVars, connVars, gateVars, hsVars, readVars, dlVars,
      ErrInv, Actors, ConnType, Errors, QueueType, EndType, LoopType, Frames, OnceInv, Inside,
      WriterInv
  <2> QED
    BY <2>1, <2>2, <2>3, <2>4, <2>5, <2>6, <2>7, <2>8 DEF LifeInv, TypeOK
<1>31. ASSUME DeliveryGate PROVE LifeInv'
  <2>1. QueueType' /\ EndType' /\ OnceInv' /\ WriterInv' /\ ErrorInv' /\ ErrorOnce' /\ TimerInv' /\ LocalInv' /\ ReasonIsPeers' /\ ErrInv'
    BY <1>0, <1>31 DEF DeliveryGate, EndsHeld, connVars, hsVars, endVars, readVars, QueueType,
      EndType, Actors, OnceInv, Inside, WriterInv, ErrorInv, ErrorOnce, TimerInv, LocalInv,
      ReasonIsPeers, ErrInv
  <2>2. ConnType'
    BY <1>0, <1>31 DEF DeliveryGate, EndsHeld, connVars, hsVars, endVars, readVars, ConnType,
      Actors, Errors, LoopType, Frames
  <2>3. LoopType'
    BY <1>0, <1>31 DEF DeliveryGate, EndsHeld, connVars, hsVars, endVars, readVars, LoopType, Frames
  <2>4. DeliveryInv'
    BY <1>0, <1>31, LifecycleAssumption DEF DeliveryGate, EndsHeld, connVars, hsVars, endVars,
      readVars, DeliveryInv, gated, ConnType, Actors, Errors, QueueType, EndType, LoopType,
      Frames, OnceInv, Inside, WriterInv
  <2>5. BacklogDelivered'
    BY <1>0, <1>31, LifecycleAssumption DEF DeliveryGate, EndsHeld, connVars, hsVars, endVars,
      readVars, BacklogDelivered, Current, gated, ConnType, Actors, Errors, QueueType, EndType,
      LoopType, Frames, OnceInv, Inside, DeliveryInv
  <2> QED
    BY <2>1, <2>2, <2>3, <2>4, <2>5 DEF LifeInv, TypeOK
<1>32. ASSUME DeliveryLoop PROVE LifeInv'
  <2>1. ConnType' /\ EndType' /\ OnceInv' /\ WriterInv' /\ ErrorInv' /\ ErrorOnce' /\ TimerInv' /\ LocalInv' /\ ReasonIsPeers' /\ ErrInv'
    BY <1>0, <1>32 DEF DeliveryLoop, DeliverEvent, AfterClose, connVars, gateVars, hsVars, endVars,
      readVars, ConnType, Actors, Errors, EndType, OnceInv, Inside, WriterInv, ErrorInv,
      ErrorOnce, TimerInv, LocalInv, ReasonIsPeers, ErrInv
  <2>2. QueueType'
    <3>1. \/ UNCHANGED <<deliveryQueue, delivered>>
          \/ /\ deliveryQueue # <<>> /\ deliveryQueue' = Tail(deliveryQueue)
             /\ delivered' = Append(delivered, Head(deliveryQueue))
      BY <1>32 DEF DeliveryLoop, DeliverEvent
    <3>2. deliveryQueue' \in Seq(Nat) /\ delivered' \in Seq(Nat)
      <4>1. deliveryQueue \in Seq(Nat) /\ delivered \in Seq(Nat)
        BY <1>0 DEF QueueType
      <4>2. CASE UNCHANGED <<deliveryQueue, delivered>>
        BY <4>1, <4>2
      <4>3. CASE /\ deliveryQueue # <<>> /\ deliveryQueue' = Tail(deliveryQueue)
                 /\ delivered' = Append(delivered, Head(deliveryQueue))
        <5>1. Head(deliveryQueue) \in Nat /\ Tail(deliveryQueue) \in Seq(Nat)
          BY <4>1, <4>3, SeqTail
        <5>2. Append(delivered, Head(deliveryQueue)) \in Seq(Nat)
          BY <4>1, <5>1, SeqAppend
        <5> QED
          BY <4>3, <5>1, <5>2
      <4> QED
        BY <3>1, <4>2, <4>3
    <3>3. dlLeft' \in Nat
      BY <1>0, <1>32, LifecycleAssumption DEF DeliveryLoop, QueueType
    <3> QED
      BY <1>0, <1>32, <3>2, <3>3 DEF DeliveryLoop, connVars, endVars, readVars, QueueType
  <2>3. LoopType'
    BY <1>0, <1>32 DEF DeliveryLoop, DeliverEvent, AfterClose, connVars, gateVars, hsVars, endVars,
      readVars, LoopType, Frames
  <2>4. DeliveryInv'
    BY <1>0, <1>32, LifecycleAssumption DEF DeliveryLoop, DeliverEvent, AfterClose, connVars,
      gateVars, hsVars, endVars, readVars, DeliveryInv, gated, ConnType, Actors, Errors,
      QueueType, EndType, LoopType, Frames, OnceInv, Inside, WriterInv
  <2>5. BacklogDelivered'
    BY <1>0, <1>32, LifecycleAssumption DEF DeliveryLoop, DeliverEvent, AfterClose, connVars,
      gateVars, hsVars, endVars, readVars, BacklogDelivered, Current, gated, ConnType, Actors,
      Errors, QueueType, EndType, LoopType, Frames, OnceInv, Inside, DeliveryInv
  <2> QED
    BY <2>1, <2>2, <2>3, <2>4, <2>5 DEF LifeInv, TypeOK
<1>33. ASSUME FlushDeliveryQueue PROVE LifeInv'
  <2>1. ConnType' /\ EndType' /\ OnceInv' /\ WriterInv' /\ ErrorInv' /\ ErrorOnce' /\ TimerInv' /\ LocalInv' /\ ReasonIsPeers' /\ ErrInv'
    BY <1>0, <1>33 DEF FlushDeliveryQueue, DeliverEvent, connVars, gateVars, hsVars, endVars,
      readVars, ConnType, Actors, Errors, EndType, OnceInv, Inside, WriterInv, ErrorInv,
      ErrorOnce, TimerInv, LocalInv, ReasonIsPeers, ErrInv
  <2>2. QueueType'
    <3>1. \/ UNCHANGED <<deliveryQueue, delivered>>
          \/ /\ deliveryQueue # <<>> /\ deliveryQueue' = Tail(deliveryQueue)
             /\ delivered' = Append(delivered, Head(deliveryQueue))
      BY <1>33 DEF FlushDeliveryQueue, DeliverEvent
    <3>2. deliveryQueue' \in Seq(Nat) /\ delivered' \in Seq(Nat)
      <4>1. deliveryQueue \in Seq(Nat) /\ delivered \in Seq(Nat)
        BY <1>0 DEF QueueType
      <4>2. CASE UNCHANGED <<deliveryQueue, delivered>>
        BY <4>1, <4>2
      <4>3. CASE /\ deliveryQueue # <<>> /\ deliveryQueue' = Tail(deliveryQueue)
                 /\ delivered' = Append(delivered, Head(deliveryQueue))
        <5>1. Head(deliveryQueue) \in Nat /\ Tail(deliveryQueue) \in Seq(Nat)
          BY <4>1, <4>3, SeqTail
        <5>2. Append(delivered, Head(deliveryQueue)) \in Seq(Nat)
          BY <4>1, <5>1, SeqAppend
        <5> QED
          BY <4>3, <5>1, <5>2
      <4> QED
        BY <3>1, <4>2, <4>3
    <3>3. dlLeft' \in Nat
      BY <1>0, <1>33, LifecycleAssumption DEF FlushDeliveryQueue, QueueType
    <3> QED
      BY <1>0, <1>33, <3>2, <3>3 DEF FlushDeliveryQueue, connVars, endVars, readVars, QueueType
  <2>3. LoopType'
    BY <1>0, <1>33 DEF FlushDeliveryQueue, DeliverEvent, connVars, gateVars, hsVars, endVars,
      readVars, LoopType, Frames
  <2>4. DeliveryInv'
    <3>1. CASE DeliverEvent /\ dlLeft > 0 /\ dlLeft' = dlLeft - 1 /\ UNCHANGED dlPc
      <4>1. Len(deliveryQueue') = Len(deliveryQueue) - 1 /\ Len(delivered') = Len(delivered) + 1
        BY <1>0, <3>1 DEF DeliverEvent, QueueType
      <4>2. /\ Len(deliveryQueue) \in Nat /\ Len(delivered) \in Nat /\ dlLeft \in Nat
            /\ owed \in Nat /\ arrived \in Nat
        BY <1>0 DEF QueueType
      <4>3. gated => deliveryState = "released"
        BY <1>0, <1>33 DEF FlushDeliveryQueue, DeliveryInv
      <4> QED
        BY <1>0, <1>33, <3>1, <4>1, <4>2, <4>3, LifecycleAssumption
           DEF FlushDeliveryQueue, connVars, gateVars, readVars, DeliveryInv, gated
    <3>2. CASE dlPc' = "stopped" /\ UNCHANGED <<dlLeft, deliveryQueue, delivered>>
      BY <1>0, <1>33, <3>2 DEF FlushDeliveryQueue, connVars, gateVars, readVars, DeliveryInv, gated
    <3> QED
      BY <3>1, <3>2, <1>33 DEF FlushDeliveryQueue
  <2>5. BacklogDelivered'
    BY <1>0, <1>33, LifecycleAssumption DEF FlushDeliveryQueue, DeliverEvent, connVars, gateVars,
      hsVars, endVars, readVars, BacklogDelivered, Current, gated, ConnType, Actors, Errors,
      QueueType, EndType, LoopType, Frames, OnceInv, Inside, DeliveryInv
  <2> QED
    BY <2>1, <2>2, <2>3, <2>4, <2>5 DEF LifeInv, TypeOK
<1>34. CASE UNCHANGED vars
  <2>1. ConnType' /\ QueueType'
    BY <1>0, <1>34 DEF vars, connVars, gateVars, hsVars, endVars, readVars, dlVars, ConnType,
      Actors, Errors, QueueType
  <2>2. EndType' /\ LoopType'
    BY <1>0, <1>34 DEF vars, connVars, gateVars, hsVars, endVars, readVars, dlVars, EndType, Actors,
      LoopType, Frames
  <2>3. OnceInv' /\ WriterInv' /\ ErrorInv' /\ ErrorOnce' /\ TimerInv' /\ LocalInv' /\ ReasonIsPeers' /\ ErrInv' /\ DeliveryInv' /\ BacklogDelivered'
    BY <1>0, <1>34 DEF vars, connVars, gateVars, hsVars, endVars, readVars, dlVars, OnceInv, Actors,
      Inside, WriterInv, ErrorInv, ErrorOnce, TimerInv, LocalInv, ReasonIsPeers, ErrInv,
      DeliveryInv, gated, BacklogDelivered, Current
  <2> QED
    BY <1>34, <2>1, <2>2, <2>3 DEF LifeInv, TypeOK
<1> QED
  BY <1>1, <1>2, <1>3, <1>4, <1>5, <1>6, <1>7, <1>8, <1>9, <1>10, <1>11, <1>12, <1>13,
    <1>14, <1>15, <1>16, <1>17, <1>18, <1>19, <1>20, <1>21, <1>22, <1>23, <1>24, <1>25,
    <1>26, <1>27, <1>28, <1>29, <1>30, <1>31, <1>32, <1>33, <1>34
    DEF Next, Ending, Handshake, Timer, Reader, Writer, Delivery

\* LifeInv holds throughout: closeOnce has one body, c.err is recorded before c.closed, the
\* delivery loop owes what was queued (conn.go, dispatch.go, accept.go, client.go).
THEOREM LifeInvariant == Spec => []LifeInv
<1>1. LifeInv /\ UNCHANGED vars => LifeInv'
  BY LifeStep
<1> QED
  BY LifeInit, LifeStep, PTL DEF Spec

\* Never two writers on the socket: an end before Run writes itself and keeps the writer
\* loop from starting (conn.go, fail and Close against Run).
THEOREM AlwaysOneWriter == Spec => []OneWriter
<1>1. LifeInv => OneWriter
  BY DEF LifeInv, WriterInv, OneWriter, TypeOK, LoopType, EndType
<1> QED
  BY <1>1, LifeInvariant, PTL

\* One error{}, one outcome of the handshake and no echoed reason, whoever ends the
\* connection (conn.go, accept.go, client.go).
THEOREM AlwaysEndsOnce == Spec => []EndsOnce
<1>1. LifeInv => EndsOnce
  BY DEF LifeInv, TimerInv, EndsOnce, OneOutcome
<1> QED
  BY <1>1, LifeInvariant, PTL

\* A current connection's events, all that were queued at its end, and no other's reach the
\* application (conn.go, deliveryLoop and releaseDelivery).
THEOREM AlwaysDeliveredIffCurrent == Spec => []DeliveredIffCurrent
<1>1. LifeInv => DeliveredIffCurrent
  BY DEF LifeInv, DeliveryInv, DeliveredIffCurrent, GateHolds
<1> QED
  BY <1>1, LifeInvariant, PTL

\* Err() never changes after Done() has fired (conn.go, dispatch.go).
THEOREM AlwaysErrSettled == Spec => ErrSettled
<1>1. LifeInv /\ [Next]_vars => [closed => err' = err]_vars
  <2> SUFFICES ASSUME LifeInv, Next, closed PROVE err' = err
    BY DEF vars, connVars
  <2>0. TypeOK /\ OnceInv /\ ErrInv
    BY DEF LifeInv
  <2>1. ASSUME NEW a \in Actors, Ending(a) PROVE err' = err
    BY <2>0, <2>1 DEF Ending, CloseOnce, MarkFail, SayQueued, SayNow, StartFlush, Flush, MarkWrite, Shut,
       ClosePeerError, connVars, OnceInv, Inside, TypeOK, ConnType, EndType, Actors
  <2>2. CASE Reader
    BY <2>0, <2>2 DEF Reader, Read, EnqueueDelivery, HandlePing, FailProtocol, HandlePeerError, PeerErr,
       HandleReadError, connVars, ErrInv, TypeOK, ConnType, LoopType
  <2>3. CASE Closer \/ Handshake \/ Timer \/ Run \/ Close \/ SendApp \/ ReleaseDelivery \/ Writer \/ Watchdog \/ Delivery
    BY <2>3 DEF Closer, Handshake, Timer, Run, Close, SendApp, ReleaseDelivery, Writer, Watchdog, Delivery,
       HelloReadFails, ReadHello, ClaimHello, HelloRefused, HelloAccepted, TimerFires, TimerClaims,
       WriteMessage, WriterStops, DeliveryGate, DeliveryLoop, FlushDeliveryQueue, connVars
  <2> QED
    BY <2>1, <2>2, <2>3 DEF Next
<1> QED
  BY <1>1, LifeInvariant, PTL DEF Spec, ErrSettled
=============================================================================
