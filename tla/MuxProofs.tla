----------------------------- MODULE MuxProofs ------------------------------
(***************************************************************************)
(* Proofs about Mux, for every set of openers and every cap: OpenInv,      *)
(* RotationInv and TablesInv are inductive, and OpensLegal,                *)
(* WithinMaxStreams, RoundRobin and TablesAgree follow from them.          *)
(***************************************************************************)
EXTENDS Mux, FiniteSetTheorems, TLAPS

\* Appending to a queue, and taking its head.
LEMMA SeqAppend ==
  ASSUME NEW S, NEW q \in Seq(S), NEW x \in S
  PROVE  /\ Append(q, x) \in Seq(S) /\ Len(Append(q, x)) = Len(q) + 1 /\ Len(q) \in Nat
         /\ Append(q, x)[Len(q) + 1] = x /\ \A i \in 1..Len(q) : Append(q, x)[i] = q[i]
  OBVIOUS

\* Taking the head of a queue moves the rest up by one.
LEMMA SeqTail ==
  ASSUME NEW S, NEW q \in Seq(S), q # <<>>
  PROVE  /\ Tail(q) \in Seq(S) /\ Len(Tail(q)) = Len(q) - 1 /\ Len(q) \in Nat \ {0}
         /\ Head(q) \in S /\ Head(q) = q[1] /\ \A i \in 1..Len(Tail(q)) : Tail(q)[i] = q[i + 1]
  OBVIOUS

\* The ids of the streams are numbers.
LEMMA IdsNat == Cardinality(Openers) \in Nat /\ Ids \subseteq Nat /\ 0 \notin Ids
<1>1. Cardinality(Openers) \in Nat
  BY MuxAssumption, FS_CardinalityType
<1> QED
  BY <1>1 DEF Ids

\* A frame is one.
LEMMA FrameOK ==
  ASSUME NEW t \in {"OPEN", "DATA", "CLOSE", "RESET", "DRAIN"}, NEW id \in Nat
  PROVE  Frame(t, id) \in Frames /\ Frame(t, id).type = t /\ Frame(t, id).id = id
  BY DEF Frame, Frames

\* The frames of a queue have ids.
LEMMA FrameIds ==
  ASSUME NEW q \in Seq(Frames)
  PROVE  \A i \in 1..Len(q) : q[i] \in Frames /\ q[i].id \in Nat
<1>1. \A i \in 1..Len(q) : q[i] \in Frames
  OBVIOUS
<1> QED
  BY <1>1 DEF Frames
-----------------------------------------------------------------------------
(* What the queues keep when a frame moves on *)

\* What the ids on their way are compared with.
Marks == <<highestOpened, openMu, draining, announcedLastID>>
Seen == <<cHighest, cDrained, cLastID>>

\* The newest id is a number, at most one past the highest one opened.
LEMMA NewestNat ==
  ASSUME IdType
  PROVE  Newest \in Nat /\ Newest <= highestOpened + 1
  BY DEF IdType, Newest

\* Nothing moves.
LEMMA QueuesKept ==
  ASSUME QueueType, OrderInv, DrainInv, UNCHANGED <<controlQueue, down, Marks, Seen>>
  PROVE  QueueType' /\ OrderInv' /\ DrainInv'
<1>1. Newest' = Newest
  BY DEF Newest, Marks
<1> QED
  BY <1>1 DEF QueueType, OrderInv, DrainInv, Marks, Seen

\* A frame that is neither OPEN nor DRAIN is queued, or given up.
LEMMA SendOther ==
  ASSUME QueueType, OrderInv, DrainInv, NEW f \in Frames, f.type \notin {"OPEN", "DRAIN"},
         SendControlFrame(f), UNCHANGED <<down, Marks, Seen>>
  PROVE  QueueType' /\ OrderInv' /\ DrainInv'
<1>1. CASE UNCHANGED controlQueue
  BY <1>1, QueuesKept
<1>2. CASE controlQueue' = Append(controlQueue, f)
  <2>1. /\ controlQueue' \in Seq(Frames) /\ Len(controlQueue') = Len(controlQueue) + 1
        /\ Len(controlQueue) \in Nat /\ controlQueue'[Len(controlQueue) + 1] = f
        /\ \A i \in 1..Len(controlQueue) : controlQueue'[i] = controlQueue[i]
    BY <1>2, SeqAppend DEF QueueType
  <2>2. \A i \in 1..Len(controlQueue') : controlQueue'[i].type \in {"OPEN", "DRAIN"} =>
          i \in 1..Len(controlQueue) /\ controlQueue'[i] = controlQueue[i]
    BY <2>1
  <2>3. Newest' = Newest
    BY DEF Newest, Marks
  <2>4. QueueType'
    BY <2>1 DEF QueueType
  <2>5. OrderInv'
    BY <2>2, <2>3 DEF OrderInv, Seen
  <2>6. DrainInv'
    BY <2>2 DEF DrainInv, Marks, Seen
  <2> QED
    BY <2>4, <2>5, <2>6
<1> QED
  BY <1>1, <1>2 DEF SendControlFrame

\* The writer loop writes a DATA frame.
LEMMA WriteOther ==
  ASSUME QueueType, OrderInv, DrainInv, NEW f \in Frames, f.type \notin {"OPEN", "DRAIN"},
         down' = Append(down, f), UNCHANGED <<controlQueue, Marks, Seen>>
  PROVE  QueueType' /\ OrderInv' /\ DrainInv'
<1>1. /\ down' \in Seq(Frames) /\ Len(down') = Len(down) + 1
      /\ Len(down) \in Nat /\ down'[Len(down) + 1] = f
      /\ \A i \in 1..Len(down) : down'[i] = down[i]
  BY SeqAppend DEF QueueType
<1>2. \A i \in 1..Len(down') : down'[i].type \in {"OPEN", "DRAIN"} =>
        i \in 1..Len(down) /\ down'[i] = down[i]
  BY <1>1
<1>3. Newest' = Newest
  BY DEF Newest, Marks
<1>4. QueueType'
  BY <1>1 DEF QueueType
<1>5. OrderInv'
  BY <1>2, <1>3 DEF OrderInv, Seen
<1>6. DrainInv'
  BY <1>2 DEF DrainInv, Marks, Seen
<1> QED
  BY <1>4, <1>5, <1>6

\* The writer loop writes the head of the control queue.
LEMMA WriteHeadOK ==
  ASSUME QueueType, OrderInv, DrainInv, WriteHead, UNCHANGED <<Marks, Seen>>
  PROVE  QueueType' /\ OrderInv' /\ DrainInv'
<1> DEFINE h == Head(controlQueue)
<1>1. /\ controlQueue' \in Seq(Frames) /\ Len(controlQueue') = Len(controlQueue) - 1
      /\ Len(controlQueue) \in Nat \ {0} /\ h \in Frames /\ h = controlQueue[1]
      /\ \A i \in 1..Len(controlQueue') : controlQueue'[i] = controlQueue[i + 1]
  BY SeqTail DEF QueueType, WriteHead
<1>2. /\ down' \in Seq(Frames) /\ Len(down') = Len(down) + 1
      /\ Len(down) \in Nat /\ down'[Len(down) + 1] = h
      /\ \A i \in 1..Len(down) : down'[i] = down[i]
  BY <1>1, SeqAppend DEF QueueType, WriteHead
<1> HIDE DEF h
<1>3. \A i \in 1..Len(controlQueue') : i + 1 \in 1..Len(controlQueue) /\ i + 1 > 1 /\ 1 \in 1..Len(controlQueue)
  BY <1>1
<1>4. \A i \in 1..Len(down') : \/ i \in 1..Len(down) /\ down'[i] = down[i]
                               \/ i = Len(down) + 1 /\ down'[i] = controlQueue[1]
  BY <1>1, <1>2
<1>5. Newest' = Newest /\ cHighest' = cHighest
  BY DEF Newest, Marks, Seen
<1>6. QueueType'
  BY <1>1, <1>2 DEF QueueType
<1>7. 1 \in 1..Len(controlQueue)
  BY <1>1
<1>8. OrderInv'
  <2>1. cHighest' < Newest'
    BY <1>5 DEF OrderInv
  <2>2. ASSUME NEW i \in 1..Len(down'), down'[i].type = "OPEN"
        PROVE  /\ cHighest' < down'[i].id /\ down'[i].id < Newest'
               /\ \A j \in 1..Len(down') : j < i /\ down'[j].type = "OPEN" => down'[j].id < down'[i].id
    <3>1. CASE i \in 1..Len(down) /\ down'[i] = down[i]
      <4>1. \A j \in 1..Len(down') : j < i => j \in 1..Len(down) /\ down'[j] = down[j]
        BY <1>2, <1>4, <3>1
      <4> QED
        BY <1>5, <2>2, <3>1, <4>1 DEF OrderInv
    <3>2. CASE i = Len(down) + 1 /\ down'[i] = controlQueue[1]
      <4>1. \A j \in 1..Len(down') : j < i => j \in 1..Len(down) /\ down'[j] = down[j]
        BY <1>2, <1>4, <3>2
      <4> QED
        BY <1>5, <1>7, <2>2, <3>2, <4>1 DEF OrderInv
    <3> QED
      BY <1>4, <3>1, <3>2
  <2>3. ASSUME NEW i \in 1..Len(controlQueue'), controlQueue'[i].type = "OPEN"
        PROVE  /\ cHighest' < controlQueue'[i].id /\ controlQueue'[i].id < Newest'
               /\ \A j \in 1..Len(controlQueue') :
                    j < i /\ controlQueue'[j].type = "OPEN" => controlQueue'[j].id < controlQueue'[i].id
               /\ \A j \in 1..Len(down') : down'[j].type = "OPEN" => down'[j].id < controlQueue'[i].id
    <3>1. i + 1 \in 1..Len(controlQueue) /\ controlQueue'[i] = controlQueue[i + 1] /\ 1 < i + 1
      BY <1>1, <1>3
    <3>2. \A j \in 1..Len(controlQueue') : j < i => j + 1 \in 1..Len(controlQueue) /\ j + 1 < i + 1
                                                    /\ controlQueue'[j] = controlQueue[j + 1]
      BY <1>1, <1>3
    <3>3. cHighest' < controlQueue'[i].id /\ controlQueue'[i].id < Newest'
      BY <1>5, <2>3, <3>1 DEF OrderInv
    <3>4. \A j \in 1..Len(controlQueue') :
            j < i /\ controlQueue'[j].type = "OPEN" => controlQueue'[j].id < controlQueue'[i].id
      BY <2>3, <3>1, <3>2 DEF OrderInv
    <3>5. \A j \in 1..Len(down') : down'[j].type = "OPEN" => down'[j].id < controlQueue'[i].id
      BY <1>4, <1>7, <2>3, <3>1 DEF OrderInv
    <3> QED
      BY <3>3, <3>4, <3>5
  <2> QED
    BY <2>1, <2>2, <2>3 DEF OrderInv
<1>9. DrainInv'
  BY <1>1, <1>3, <1>4, <1>7, SMTT(30) DEF DrainInv, Marks, Seen
<1> QED
  BY <1>6, <1>8, <1>9

\* The client takes a frame.
LEMMA TakeFrame ==
  ASSUME QueueType, OrderInv, DrainInv, down # <<>>, down' = Tail(down), UNCHANGED <<controlQueue, Marks>>
  PROVE  /\ Head(down) \in Frames /\ Head(down) = down[1] /\ 1 \in 1..Len(down)
         /\ QueueType'
         /\ cHighest' = cHighest => OrderInv'
         /\ UNCHANGED <<cDrained, cLastID>> => DrainInv'
         /\ Head(down).type = "OPEN" /\ cHighest' = Head(down).id => OrderInv'
         /\ Head(down).type = "DRAIN" /\ cLastID' = Head(down).id => DrainInv'
<1>1. /\ down' \in Seq(Frames) /\ Len(down') = Len(down) - 1
      /\ Len(down) \in Nat \ {0} /\ Head(down) \in Frames /\ Head(down) = down[1]
      /\ \A i \in 1..Len(down') : down'[i] = down[i + 1]
  BY SeqTail DEF QueueType
<1>2. /\ 1 \in 1..Len(down)
      /\ \A i \in 1..Len(down') : i + 1 \in 1..Len(down) /\ 1 < i + 1 /\ i \in Nat
      /\ \A i, j \in 1..Len(down') : j < i => j + 1 < i + 1
  BY <1>1
<1>3. Newest' = Newest
  BY DEF Newest, Marks
<1>4. QueueType'
  BY <1>1 DEF QueueType
<1>5. ASSUME cHighest' = cHighest PROVE OrderInv'
  BY <1>1, <1>2, <1>3, <1>5 DEF OrderInv
<1>6. ASSUME Head(down).type = "OPEN", cHighest' = Head(down).id PROVE OrderInv'
  BY <1>1, <1>2, <1>3, <1>6 DEF OrderInv
<1>7. /\ \A i \in 1..Len(down') : down'[i].type = "DRAIN" => draining' /\ down'[i].id = announcedLastID'
      /\ \A i \in 1..Len(controlQueue') :
           controlQueue'[i].type = "DRAIN" => draining' /\ controlQueue'[i].id = announcedLastID'
  BY <1>1, <1>2 DEF DrainInv, Marks
<1>8. ASSUME UNCHANGED <<cDrained, cLastID>> PROVE DrainInv'
  BY <1>7, <1>8 DEF DrainInv, Marks
<1>9. ASSUME Head(down).type = "DRAIN", cLastID' = Head(down).id PROVE DrainInv'
  BY <1>1, <1>2, <1>7, <1>9 DEF DrainInv, Marks
<1> QED
  BY <1>1, <1>2, <1>4, <1>5, <1>6, <1>8, <1>9

\* The table loses a stream.
LEMMA RetireOK ==
  ASSUME TableInv, OpenerType, AllocInv, NEW s, RetireStream(s), UNCHANGED <<opId, openMu>>
  PROVE  TableInv' /\ OpenerType' /\ \A o \in Openers : opPc'[o] = "enqueue" <=> opPc[o] = "enqueue"
<1>1. streams' = streams \ {s}
  BY DEF RetireStream
<1>2. IsFiniteSet(streams') /\ Cardinality(streams') <= Cardinality(streams)
  BY <1>1, FS_Subset DEF TableInv
<1>3. Cardinality(streams) \in Nat /\ Cardinality(streams') \in Nat /\ MaxStreams \in Nat
  BY <1>2, FS_CardinalityType, MuxAssumption DEF TableInv
<1>4. TableInv'
  <2>1. streams' \subseteq Nat
    BY <1>1 DEF TableInv
  <2>2. Cardinality(streams) <= MaxStreams
    BY DEF TableInv, WithinMaxStreams
  <2>3. Cardinality(streams') <= MaxStreams
    BY <1>2, <1>3, <2>2
  <2> QED
    BY <1>2, <2>1, <2>3 DEF TableInv, WithinMaxStreams
<1>5. OpenerType'
  BY DEF RetireStream, OpenerType
<1>6. \A o \in Openers : opPc'[o] = "enqueue" <=> opPc[o] = "enqueue"
  BY DEF RetireStream, OpenerType
<1> QED
  BY <1>4, <1>5, <1>6
-----------------------------------------------------------------------------
(* OpenInv is inductive *)

\* OpenInv holds at the start.
LEMMA OpenInit == Init => OpenInv
<1> SUFFICES ASSUME Init PROVE OpenInv
  OBVIOUS
<1>1. TypeOK
  <2>1. IdType
    BY DEF Init, IdType
  <2>2. OpenerType
    BY DEF Init, OpenerType, None
  <2>3. OtherType
    BY DEF Init, OtherType, Errors, None
  <2>4. QueueType
    BY DEF Init, QueueType
  <2> QED
    BY <2>1, <2>2, <2>3, <2>4 DEF TypeOK
<1>2. TableInv
  BY FS_EmptySet, MuxAssumption DEF Init, TableInv, WithinMaxStreams
<1>3. AllocInv /\ OrderInv /\ DrainInv
  BY MuxAssumption DEF Init, AllocInv, OrderInv, DrainInv, Newest, None
<1>4. OpensLegal
  BY DEF Init, OpensLegal, OpensIncrease, OpensWithinDrain
<1> QED
  BY <1>1, <1>2, <1>3, <1>4 DEF OpenInv

\* An opener allocates an id under openMu: nothing with that id is on its way yet.
LEMMA AllocateOK ==
  ASSUME NEW o \in Openers, AllocateStream(o), IdType, QueueType, OpenerType, OtherType, TableInv, AllocInv,
         OrderInv, DrainInv
  PROVE  TableInv' /\ AllocInv' /\ QueueType' /\ OrderInv' /\ DrainInv'
<1>1. CASE UNCHANGED <<nextStreamID, highestOpened, streams, openMu, opId>>
  <2>1. TableInv'
    BY <1>1 DEF TableInv, WithinMaxStreams
  <2>2. QueueType' /\ OrderInv' /\ DrainInv'
    BY <1>1, QueuesKept DEF AllocateStream, clientVars, Marks, Seen
  <2>3. AllocInv'
    BY <1>1 DEF AllocateStream, ExhaustedDrains, AllocInv, OpenerType, OtherType
  <2> QED
    BY <2>1, <2>2, <2>3
<1>2. CASE /\ ~Refuses /\ ~SlotGone
           /\ opId' = [opId EXCEPT ![o] = nextStreamID]
           /\ highestOpened' = nextStreamID
           /\ nextStreamID' = nextStreamID + 2
           /\ streams' = streams \cup {nextStreamID}
           /\ openMu' = o /\ openMu = None
           /\ opPc' = [opPc EXCEPT ![o] = "enqueue"]
           /\ UNCHANGED drPc
  <2>1. TableInv'
    <3>1. IsFiniteSet(streams') /\ Cardinality(streams') <= Cardinality(streams) + 1
      <4>1. IsFiniteSet(streams) /\ Cardinality(streams) \in Nat
        BY FS_CardinalityType DEF TableInv
      <4>2. IsFiniteSet(streams \cup {nextStreamID})
        BY <4>1, FS_AddElement
      <4>3. \/ Cardinality(streams \cup {nextStreamID}) = Cardinality(streams)
            \/ Cardinality(streams \cup {nextStreamID}) = Cardinality(streams) + 1
        BY <4>1, FS_AddElement
      <4> QED
        BY <1>2, <4>1, <4>2, <4>3
    <3>2. Cardinality(streams) \in Nat /\ Cardinality(streams') \in Nat /\ MaxStreams \in Nat
      BY <3>1, FS_CardinalityType, MuxAssumption DEF TableInv
    <3>3. ~(Cardinality(streams) >= MaxStreams)
      BY <1>2 DEF SlotGone
    <3>4. Cardinality(streams') <= MaxStreams
      BY <3>1, <3>2, <3>3
    <3>5. streams' \subseteq Nat
      BY <1>2 DEF TableInv, IdType
    <3> QED
      BY <3>1, <3>4, <3>5 DEF TableInv, WithinMaxStreams
  <2>2. AllocInv'
    BY <1>2, MuxAssumption DEF AllocateStream, Refuses, AllocInv, OpenerType, IdType, None
  <2>3. Newest' = nextStreamID /\ Newest <= nextStreamID /\ Newest \in Nat
    BY <1>2, MuxAssumption DEF Newest, AllocInv, IdType, None
  <2>4. UNCHANGED <<controlQueue, down, draining, announcedLastID, cHighest, cDrained, cLastID>>
    BY DEF AllocateStream, clientVars
  <2>5. QueueType' /\ DrainInv'
    BY <2>4 DEF QueueType, DrainInv
  <2>6. OrderInv'
    <3>1. \A x \in Nat : x < Newest => x < Newest'
      BY <2>3 DEF IdType
    <3>2. /\ \A i \in 1..Len(down) : down[i].id \in Nat
          /\ \A i \in 1..Len(controlQueue) : controlQueue[i].id \in Nat
          /\ cHighest \in Nat
      BY FrameIds DEF QueueType, IdType
    <3> QED
      BY <2>4, <3>1, <3>2 DEF OrderInv
  <2> QED
    BY <2>1, <2>2, <2>5, <2>6
<1> QED
  BY <1>1, <1>2 DEF AllocateStream, OpenMuFree

\* Its OPEN is the highest on its way, and openMu is free again.
LEMMA EnqueueOpenOK ==
  ASSUME NEW o \in Openers, EnqueueOpen(o), IdType, QueueType, OpenerType, AllocInv, OrderInv, DrainInv
  PROVE  QueueType' /\ OrderInv' /\ DrainInv'
<1> DEFINE f == Frame("OPEN", opId[o])
<1>1. f \in Frames /\ f.type = "OPEN" /\ f.id = highestOpened
  BY FrameOK DEF EnqueueOpen, AllocInv, OpenerType
<1>2. Newest = highestOpened /\ Newest' = highestOpened + 1 /\ highestOpened \in Nat
  BY MuxAssumption DEF EnqueueOpen, AllocInv, Newest, IdType, None
<1>3. UNCHANGED <<down, draining, announcedLastID, cHighest, cDrained, cLastID>>
  BY DEF EnqueueOpen, clientVars
<1>4. /\ \A i \in 1..Len(down) : down[i].id \in Nat
      /\ \A i \in 1..Len(controlQueue) : controlQueue[i].id \in Nat
      /\ cHighest \in Nat
  BY FrameIds DEF QueueType, IdType
<1>5. \A x \in Nat : x < Newest => x < Newest' /\ x < highestOpened
  BY <1>2
<1>6. CASE UNCHANGED controlQueue
  BY <1>3, <1>4, <1>5, <1>6 DEF QueueType, OrderInv, DrainInv
<1>7. CASE controlQueue' = Append(controlQueue, f)
  <2>1. /\ controlQueue' \in Seq(Frames) /\ Len(controlQueue') = Len(controlQueue) + 1
        /\ Len(controlQueue) \in Nat /\ controlQueue'[Len(controlQueue) + 1] = f
        /\ \A i \in 1..Len(controlQueue) : controlQueue'[i] = controlQueue[i]
    BY <1>1, <1>7, SeqAppend DEF QueueType
  <2> HIDE DEF f
  <2>2. \A i \in 1..Len(controlQueue') : \/ i \in 1..Len(controlQueue) /\ controlQueue'[i] = controlQueue[i]
                                         \/ i = Len(controlQueue) + 1 /\ controlQueue'[i] = f
    BY <2>1
  <2>3. QueueType'
    BY <1>3, <2>1 DEF QueueType
  <2>4. DrainInv'
    BY <1>1, <1>3, <2>2 DEF DrainInv
  <2>5. cHighest' < Newest' /\ cHighest < highestOpened
    BY <1>3, <1>4, <1>5 DEF OrderInv
  <2>6. \A i \in 1..Len(down) : down[i].type = "OPEN" => down[i].id < Newest' /\ down[i].id < highestOpened
    BY <1>4, <1>5 DEF OrderInv
  <2>7. \A i \in 1..Len(controlQueue) : controlQueue[i].type = "OPEN" =>
          controlQueue[i].id < Newest' /\ controlQueue[i].id < highestOpened
    BY <1>4, <1>5 DEF OrderInv
  <2>8. ASSUME NEW i \in 1..Len(controlQueue'), controlQueue'[i].type = "OPEN"
        PROVE  /\ cHighest' < controlQueue'[i].id /\ controlQueue'[i].id < Newest'
               /\ \A j \in 1..Len(controlQueue') :
                    j < i /\ controlQueue'[j].type = "OPEN" => controlQueue'[j].id < controlQueue'[i].id
               /\ \A j \in 1..Len(down') : down'[j].type = "OPEN" => down'[j].id < controlQueue'[i].id
    <3>1. CASE i \in 1..Len(controlQueue) /\ controlQueue'[i] = controlQueue[i]
      <4>1. \A j \in 1..Len(controlQueue') : j < i => j \in 1..Len(controlQueue) /\ controlQueue'[j] = controlQueue[j]
        BY <2>1, <2>2, <3>1
      <4> QED
        BY <1>3, <2>7, <2>8, <3>1, <4>1 DEF OrderInv
    <3>2. CASE i = Len(controlQueue) + 1 /\ controlQueue'[i] = f
      <4>1. \A j \in 1..Len(controlQueue') : j < i => j \in 1..Len(controlQueue) /\ controlQueue'[j] = controlQueue[j]
        BY <2>1, <2>2, <3>2
      <4>2. controlQueue'[i].id = highestOpened /\ highestOpened < Newest'
        BY <1>1, <1>2, <3>2
      <4> QED
        BY <1>3, <2>5, <2>6, <2>7, <3>2, <4>1, <4>2
    <3> QED
      BY <2>2, <3>1, <3>2
  <2>9. \A i \in 1..Len(down') : down'[i].type = "OPEN" =>
          /\ cHighest' < down'[i].id /\ down'[i].id < Newest'
          /\ \A j \in 1..Len(down') : j < i /\ down'[j].type = "OPEN" => down'[j].id < down'[i].id
    BY <1>3, <2>6 DEF OrderInv
  <2>10. OrderInv'
    BY <2>5, <2>8, <2>9 DEF OrderInv
  <2> QED
    BY <2>3, <2>4, <2>10
<1> QED
  BY <1>6, <1>7 DEF EnqueueOpen, SendControlFrame

\* Drain fixes the last id before any DRAIN is on its way.
LEMMA DrainOK ==
  ASSUME Drain, IdType, QueueType, AllocInv, OrderInv, DrainInv
  PROVE  QueueType' /\ OrderInv' /\ DrainInv'
<1>1. ~draining
  BY DEF Drain, AllocInv
<1>2. UNCHANGED <<controlQueue, down, cHighest, cDrained, cLastID>> /\ Newest' = Newest
  BY DEF Drain, clientVars, Newest
<1> QED
  BY <1>1, <1>2 DEF QueueType, OrderInv, DrainInv

\* DRAIN joins the control queue behind the OPENs that come before its mark.
LEMMA SendDrainOK ==
  ASSUME SendDrain, IdType, QueueType, AllocInv, OrderInv, DrainInv
  PROVE  QueueType' /\ OrderInv' /\ DrainInv'
<1> DEFINE f == Frame("DRAIN", announcedLastID)
<1>1. f \in Frames /\ f.type = "DRAIN" /\ f.id = announcedLastID /\ draining
  BY FrameOK DEF SendDrain, AllocInv, IdType
<1>2. UNCHANGED <<down, Marks, Seen>> /\ Newest' = Newest
  BY DEF SendDrain, connVars, clientVars, Marks, Seen, Newest
<1>3. CASE UNCHANGED controlQueue
  BY <1>2, <1>3, QueuesKept
<1>4. CASE controlQueue' = Append(controlQueue, f)
  <2>1. /\ controlQueue' \in Seq(Frames) /\ Len(controlQueue') = Len(controlQueue) + 1
        /\ Len(controlQueue) \in Nat /\ controlQueue'[Len(controlQueue) + 1] = f
        /\ \A i \in 1..Len(controlQueue) : controlQueue'[i] = controlQueue[i]
    BY <1>1, <1>4, SeqAppend DEF QueueType
  <2> HIDE DEF f
  <2>2. \A i \in 1..Len(controlQueue') : \/ i \in 1..Len(controlQueue) /\ controlQueue'[i] = controlQueue[i]
                                         \/ i = Len(controlQueue) + 1 /\ controlQueue'[i] = f
    BY <2>1
  <2>3. QueueType'
    BY <1>2, <2>1 DEF QueueType
  <2>4. DrainInv'
    BY <1>1, <1>2, <2>2 DEF DrainInv, Marks, Seen
  <2>5. \A i \in 1..Len(controlQueue') : controlQueue'[i].type = "OPEN" =>
          i \in 1..Len(controlQueue) /\ controlQueue'[i] = controlQueue[i]
    BY <1>1, <2>2
  <2>6. OrderInv'
    BY <1>2, <2>5 DEF OrderInv, Seen
  <2> QED
    BY <2>3, <2>4, <2>6
<1> QED
  BY <1>3, <1>4 DEF SendDrain, SendControlFrame

\* A duplicate CLOSE is answered with RESET; the other branches leave the queues alone.
LEMMA HandleCloseQueues ==
  ASSUME HandleClose, QueueType, OrderInv, DrainInv, TableInv
  PROVE  QueueType' /\ OrderInv' /\ DrainInv'
<1> DEFINE s == Head(up).id
<1>1. UNCHANGED <<down, Marks, Seen>>
  BY DEF HandleClose, clientVars, Marks, Seen
<1>2. UNCHANGED controlQueue \/ (s \in streams /\ SendControlFrame(Frame("RESET", s)))
  BY DEF HandleClose
<1> HIDE DEF s
<1>3. ASSUME s \in streams PROVE Frame("RESET", s) \in Frames /\ Frame("RESET", s).type \notin {"OPEN", "DRAIN"}
  BY <1>3, FrameOK DEF TableInv
<1> QED
  BY <1>1, <1>2, <1>3, QueuesKept, SendOther

\* The OPEN the client takes is above the ones before it and within the last id it was told.
LEMMA RemoteOpenLegal ==
  ASSUME HandleRemoteOpen, IdType, QueueType, OpenerType, OtherType, AllocInv, OrderInv, DrainInv, OpensLegal
  PROVE  OpensLegal'
<1>1. Head(down) = down[1] /\ 1 \in 1..Len(down) /\ down[1].type = "OPEN" /\ down[1].id \in Nat
  <2>1. down # <<>> /\ Head(down).type = "OPEN"
    BY DEF HandleRemoteOpen, Dispatching
  <2>2. Head(down) = down[1] /\ Len(down) \in Nat \ {0}
    BY <2>1, SeqTail DEF QueueType
  <2> QED
    BY <2>1, <2>2, FrameIds DEF QueueType
<1>2. cHighest < Head(down).id /\ Head(down).id < Newest
  BY <1>1 DEF OrderInv
<1>3. Head(down).id <= highestOpened
  BY <1>1, <1>2 DEF Newest, IdType
<1>4. ~(Head(down).id <= cHighest) /\ ~(cDrained /\ Head(down).id > cLastID)
  BY <1>1, <1>2, <1>3 DEF DrainInv, AllocInv, IdType
<1>5. UNCHANGED connErr \/ connErr' = [connErr EXCEPT !.client = "enhance_your_calm"]
  BY <1>4 DEF HandleRemoteOpen, FailClient
<1> QED
  BY <1>5 DEF OtherType, OpensLegal, OpensIncrease, OpensWithinDrain

\* Every action preserves OpenInv.
LEMMA OpenStep ==
  ASSUME OpenInv, TurnType, [Next]_vars
  PROVE  OpenInv'
<1>0. /\ IdType /\ QueueType /\ OpenerType /\ OtherType /\ TableInv /\ AllocInv
      /\ OrderInv /\ DrainInv /\ OpensLegal /\ TurnType
  BY DEF OpenInv, TypeOK
<1>1. ASSUME NEW o \in Openers, OpenStream(o) PROVE OpenInv'
  <2>1. IdType' /\ OtherType' /\ TableInv' /\ OpensLegal'
    BY <1>0, <1>1 DEF OpenStream, connVars, schedVars, loopVars, streamVars, writeVars, drainVars,
      clientVars, IdType, OtherType, TableInv, WithinMaxStreams, OpensLegal, OpensIncrease,
      OpensWithinDrain
  <2>2. OpenerType'
    BY <1>0, <1>1 DEF OpenStream, connVars, drainVars, clientVars, OpenerType
  <2>3. AllocInv'
    BY <1>0, <1>1 DEF OpenStream, connVars, drainVars, clientVars, AllocInv, OpenerType, OtherType
  <2>4. QueueType' /\ OrderInv' /\ DrainInv'
    BY <1>0, <1>1, QueuesKept DEF OpenStream, connVars, clientVars, Marks, Seen
  <2> QED
    BY <2>1, <2>2, <2>3, <2>4 DEF OpenInv, TypeOK
<1>2. ASSUME NEW o \in Openers, CheckSlots(o) PROVE OpenInv'
  <2>1. IdType' /\ OtherType' /\ TableInv' /\ OpensLegal'
    BY <1>0, <1>2 DEF CheckSlots, connVars, schedVars, loopVars, streamVars, writeVars, drainVars,
      clientVars, IdType, OtherType, TableInv, WithinMaxStreams, OpensLegal, OpensIncrease,
      OpensWithinDrain
  <2>2. OpenerType'
    BY <1>0, <1>2 DEF CheckSlots, connVars, drainVars, clientVars, OpenerType
  <2>3. AllocInv'
    BY <1>0, <1>2 DEF CheckSlots, connVars, drainVars, clientVars, AllocInv, OpenerType, OtherType
  <2>4. QueueType' /\ OrderInv' /\ DrainInv'
    BY <1>0, <1>2, QueuesKept DEF CheckSlots, connVars, clientVars, Marks, Seen
  <2> QED
    BY <2>1, <2>2, <2>3, <2>4 DEF OpenInv, TypeOK
<1>3. ASSUME NEW o \in Openers, AllocateStream(o) PROVE OpenInv'
  <2>1. OpensLegal'
    BY <1>0, <1>3 DEF AllocateStream, schedVars, loopVars, writeVars, clientVars, OpensLegal,
      OpensIncrease, OpensWithinDrain
  <2>2. IdType'
    BY <1>0, <1>3 DEF AllocateStream, clientVars, IdType
  <2>3. OpenerType'
    BY <1>0, <1>3 DEF AllocateStream, OpenerType, IdType
  <2>4. OtherType'
    BY <1>0, <1>3 DEF AllocateStream, ExhaustedDrains, OtherType
  <2>5. TableInv'
    BY <1>0, <1>3, AllocateOK
  <2>6. AllocInv'
    BY <1>0, <1>3, AllocateOK
  <2>7. QueueType' /\ OrderInv' /\ DrainInv'
    BY <1>0, <1>3, AllocateOK
  <2> QED
    BY <2>1, <2>2, <2>3, <2>4, <2>5, <2>6, <2>7 DEF OpenInv, TypeOK
<1>4. ASSUME NEW o \in Openers, EnqueueOpen(o) PROVE OpenInv'
  <2>1. IdType' /\ OtherType' /\ TableInv' /\ OpensLegal'
    BY <1>0, <1>4 DEF EnqueueOpen, schedVars, loopVars, streamVars, writeVars, drainVars,
      clientVars, IdType, OtherType, TableInv, WithinMaxStreams, OpensLegal, OpensIncrease,
      OpensWithinDrain
  <2>2. OpenerType'
    BY <1>0, <1>4 DEF EnqueueOpen, OpenerType
  <2>3. AllocInv'
    BY <1>0, <1>4, MuxAssumption DEF EnqueueOpen, drainVars, None, AllocInv, OpenerType
  <2>4. QueueType' /\ OrderInv' /\ DrainInv'
    BY <1>0, <1>4, EnqueueOpenOK
  <2> QED
    BY <2>1, <2>2, <2>3, <2>4 DEF OpenInv, TypeOK
<1>5. ASSUME NEW o \in Openers, OpenConnClosed(o) \/ OpenCancelled(o) PROVE OpenInv'
  <2>1. IdType' /\ OtherType' /\ TableInv' /\ OpensLegal'
    BY <1>0, <1>5 DEF OpenConnClosed, OpenCancelled, connVars, schedVars, loopVars, streamVars, writeVars,
      drainVars, clientVars, IdType, OtherType, TableInv, WithinMaxStreams, OpensLegal,
      OpensIncrease, OpensWithinDrain
  <2>2. OpenerType'
    BY <1>0, <1>5 DEF OpenConnClosed, OpenCancelled, connVars, drainVars, clientVars, OpenerType
  <2>3. AllocInv'
    BY <1>0, <1>5 DEF OpenConnClosed, OpenCancelled, connVars, drainVars, clientVars, AllocInv, OpenerType,
      OtherType
  <2>4. QueueType' /\ OrderInv' /\ DrainInv'
    BY <1>0, <1>5, QueuesKept DEF OpenConnClosed, OpenCancelled, connVars, clientVars, Marks, Seen
  <2> QED
    BY <2>1, <2>2, <2>3, <2>4 DEF OpenInv, TypeOK
<1>6. ASSUME NEW s \in Ids, QueueChunk(s) PROVE OpenInv'
  <2>1. IdType' /\ OpenerType' /\ OtherType' /\ TableInv' /\ AllocInv' /\ OpensLegal'
    BY <1>0, <1>6 DEF QueueChunk, connVars, schedVars, loopVars, openVars, drainVars, clientVars,
      IdType, OpenerType, OtherType, TableInv, WithinMaxStreams, AllocInv, OpensLegal,
      OpensIncrease, OpensWithinDrain
  <2>2. QueueType' /\ OrderInv' /\ DrainInv'
    BY <1>0, <1>6, QueuesKept DEF QueueChunk, connVars, clientVars, Marks, Seen
  <2> QED
    BY <2>1, <2>2 DEF OpenInv, TypeOK
<1>7. ASSUME NEW s \in Ids, MarkStreamReady(s) PROVE OpenInv'
  <2>1. IdType' /\ OpenerType' /\ OtherType' /\ TableInv' /\ AllocInv' /\ OpensLegal'
    BY <1>0, <1>7 DEF MarkStreamReady, connVars, loopVars, streamVars, openVars, drainVars,
      clientVars, IdType, OpenerType, OtherType, TableInv, WithinMaxStreams, AllocInv,
      OpensLegal, OpensIncrease, OpensWithinDrain
  <2>2. QueueType' /\ OrderInv' /\ DrainInv'
    BY <1>0, <1>7, QueuesKept DEF MarkStreamReady, connVars, clientVars, Marks, Seen
  <2> QED
    BY <2>1, <2>2 DEF OpenInv, TypeOK
<1>8. ASSUME NEW s \in Ids, WakeWriter(s) PROVE OpenInv'
  <2>1. IdType' /\ OpenerType' /\ OtherType' /\ TableInv' /\ AllocInv' /\ OpensLegal'
    BY <1>0, <1>8 DEF WakeWriter, connVars, loopVars, streamVars, openVars, drainVars, clientVars,
      IdType, OpenerType, OtherType, TableInv, WithinMaxStreams, AllocInv, OpensLegal,
      OpensIncrease, OpensWithinDrain
  <2>2. QueueType' /\ OrderInv' /\ DrainInv'
    BY <1>0, <1>8, QueuesKept DEF WakeWriter, connVars, clientVars, Marks, Seen
  <2> QED
    BY <2>1, <2>2 DEF OpenInv, TypeOK
<1>9. ASSUME NEW s \in Ids, ChunkDone(s) PROVE OpenInv'
  <2>1. IdType' /\ OpenerType' /\ OtherType' /\ TableInv' /\ AllocInv' /\ OpensLegal'
    BY <1>0, <1>9 DEF ChunkDone, connVars, schedVars, loopVars, streamVars, openVars, drainVars,
      clientVars, IdType, OpenerType, OtherType, TableInv, WithinMaxStreams, AllocInv,
      OpensLegal, OpensIncrease, OpensWithinDrain
  <2>2. QueueType' /\ OrderInv' /\ DrainInv'
    BY <1>0, <1>9, QueuesKept DEF ChunkDone, connVars, clientVars, Marks, Seen
  <2> QED
    BY <2>1, <2>2 DEF OpenInv, TypeOK
<1>10. ASSUME NEW s \in Ids, WriteConnClosed(s) PROVE OpenInv'
  <2>1. IdType' /\ OpenerType' /\ OtherType' /\ TableInv' /\ AllocInv' /\ OpensLegal'
    BY <1>0, <1>10 DEF WriteConnClosed, connVars, schedVars, loopVars, streamVars, openVars,
      drainVars, clientVars, IdType, OpenerType, OtherType, TableInv, WithinMaxStreams,
      AllocInv, OpensLegal, OpensIncrease, OpensWithinDrain
  <2>2. QueueType' /\ OrderInv' /\ DrainInv'
    BY <1>0, <1>10, QueuesKept DEF WriteConnClosed, connVars, clientVars, Marks, Seen
  <2> QED
    BY <2>1, <2>2 DEF OpenInv, TypeOK
<1>11. ASSUME NEW s \in Ids, Retire(s) PROVE OpenInv'
  <2>1. IdType' /\ OtherType' /\ OpensLegal'
    BY <1>0, <1>11 DEF Retire, schedVars, loopVars, streamVars, writeVars, drainVars, clientVars,
      IdType, OtherType, OpensLegal, OpensIncrease, OpensWithinDrain
  <2>2. OpenerType'
    BY <1>0, <1>11, RetireOK DEF Retire
  <2>3. TableInv'
    BY <1>0, <1>11, RetireOK DEF Retire
  <2>4. AllocInv'
    <3>1. \A o \in Openers : opPc'[o] = "enqueue" <=> opPc[o] = "enqueue"
      BY <1>0, <1>11, RetireOK DEF Retire
    <3> QED
      BY <1>0, <1>11, <3>1 DEF Retire, drainVars, AllocInv
  <2>5. QueueType' /\ OrderInv' /\ DrainInv'
    BY <1>0, <1>11, QueuesKept DEF Retire, clientVars, Marks, Seen
  <2> QED
    BY <2>1, <2>2, <2>3, <2>4, <2>5 DEF OpenInv, TypeOK
<1>12. ASSUME NEW s \in Ids, SendCloseOrReset(s) PROVE OpenInv'
  <2>1. IdType' /\ OpenerType' /\ OtherType' /\ TableInv' /\ AllocInv' /\ OpensLegal'
    BY <1>0, <1>12 DEF SendCloseOrReset, connVars, schedVars, loopVars, streamVars, openVars,
      writeVars, drainVars, clientVars, IdType, OpenerType, OtherType, TableInv,
      WithinMaxStreams, AllocInv, OpensLegal, OpensIncrease, OpensWithinDrain
  <2>2. QueueType' /\ OrderInv' /\ DrainInv'
    <3>1. PICK t \in {"CLOSE", "RESET"} : SendControlFrame(Frame(t, s))
      BY <1>12 DEF SendCloseOrReset
    <3>2. Frame(t, s) \in Frames /\ Frame(t, s).type \notin {"OPEN", "DRAIN"}
      BY FrameOK, IdsNat
    <3> QED
      BY <1>0, <1>12, <3>1, <3>2, SendOther DEF SendCloseOrReset, connVars, clientVars, Marks, Seen
  <2> QED
    BY <2>1, <2>2 DEF OpenInv, TypeOK
<1>13. ASSUME NEW s \in Ids, Write(s) PROVE OpenInv'
  <2>1. IdType' /\ OpenerType' /\ OtherType' /\ TableInv' /\ AllocInv' /\ OpensLegal'
    BY <1>0, <1>13 DEF Write, connVars, schedVars, loopVars, streamVars, openVars, drainVars,
      clientVars, IdType, OpenerType, OtherType, TableInv, WithinMaxStreams, AllocInv,
      OpensLegal, OpensIncrease, OpensWithinDrain
  <2>2. QueueType' /\ OrderInv' /\ DrainInv'
    BY <1>0, <1>13, QueuesKept DEF Write, connVars, clientVars, Marks, Seen
  <2> QED
    BY <2>1, <2>2 DEF OpenInv, TypeOK
<1>14. ASSUME NEW s \in Ids, CancelWrite(s) PROVE OpenInv'
  <2>1. IdType' /\ OpenerType' /\ OtherType' /\ TableInv' /\ AllocInv' /\ OpensLegal'
    BY <1>0, <1>14 DEF CancelWrite, connVars, schedVars, openVars, drainVars, clientVars, IdType,
      OpenerType, OtherType, TableInv, WithinMaxStreams, AllocInv, OpensLegal, OpensIncrease,
      OpensWithinDrain
  <2>2. QueueType' /\ OrderInv' /\ DrainInv'
    BY <1>0, <1>14, QueuesKept DEF CancelWrite, connVars, clientVars, Marks, Seen
  <2> QED
    BY <2>1, <2>2 DEF OpenInv, TypeOK
<1>15. ASSUME NEW s \in Ids, CloseWrite(s) PROVE OpenInv'
  <2>1. IdType' /\ OpenerType' /\ OtherType' /\ TableInv' /\ AllocInv' /\ OpensLegal'
    BY <1>0, <1>15 DEF CloseWrite, connVars, schedVars, loopVars, openVars, writeVars, drainVars,
      clientVars, IdType, OpenerType, OtherType, TableInv, WithinMaxStreams, AllocInv,
      OpensLegal, OpensIncrease, OpensWithinDrain
  <2>2. QueueType' /\ OrderInv' /\ DrainInv'
    BY <1>0, <1>15, QueuesKept DEF CloseWrite, connVars, clientVars, Marks, Seen
  <2> QED
    BY <2>1, <2>2 DEF OpenInv, TypeOK
<1>16. ASSUME NEW s \in Ids, Reset(s) PROVE OpenInv'
  <2>1. IdType' /\ OpenerType' /\ OtherType' /\ TableInv' /\ AllocInv' /\ OpensLegal'
    BY <1>0, <1>16 DEF Reset, connVars, schedVars, loopVars, openVars, writeVars, drainVars,
      clientVars, IdType, OpenerType, OtherType, TableInv, WithinMaxStreams, AllocInv,
      OpensLegal, OpensIncrease, OpensWithinDrain
  <2>2. QueueType' /\ OrderInv' /\ DrainInv'
    BY <1>0, <1>16, QueuesKept DEF Reset, connVars, clientVars, Marks, Seen
  <2> QED
    BY <2>1, <2>2 DEF OpenInv, TypeOK
<1>17. ASSUME NEW s \in Ids, ClientCloseWrite(s) PROVE OpenInv'
  <2>1. IdType' /\ OpenerType' /\ OtherType' /\ TableInv' /\ AllocInv' /\ OpensLegal'
    BY <1>0, <1>17 DEF ClientCloseWrite, schedVars, loopVars, streamVars, openVars, writeVars,
      drainVars, clientVars, serverVars, IdType, OpenerType, OtherType, TableInv,
      WithinMaxStreams, AllocInv, OpensLegal, OpensIncrease, OpensWithinDrain
  <2>2. QueueType' /\ OrderInv' /\ DrainInv'
    BY <1>0, <1>17, QueuesKept DEF ClientCloseWrite, clientVars, serverVars, Marks, Seen
  <2> QED
    BY <2>1, <2>2 DEF OpenInv, TypeOK
<1>18. ASSUME NEW s \in Ids, ClientReset(s) PROVE OpenInv'
  <2>1. IdType' /\ OpenerType' /\ OtherType' /\ TableInv' /\ AllocInv' /\ OpensLegal'
    BY <1>0, <1>18 DEF ClientReset, schedVars, loopVars, streamVars, openVars, writeVars, drainVars,
      clientVars, serverVars, IdType, OpenerType, OtherType, TableInv, WithinMaxStreams,
      AllocInv, OpensLegal, OpensIncrease, OpensWithinDrain
  <2>2. QueueType' /\ OrderInv' /\ DrainInv'
    BY <1>0, <1>18, QueuesKept DEF ClientReset, clientVars, serverVars, Marks, Seen
  <2> QED
    BY <2>1, <2>2 DEF OpenInv, TypeOK
<1>19. ASSUME Drain PROVE OpenInv'
  <2>1. OpenerType' /\ TableInv' /\ OpensLegal'
    BY <1>0, <1>19 DEF Drain, schedVars, loopVars, streamVars, openVars, writeVars, clientVars,
      OpenerType, TableInv, WithinMaxStreams, OpensLegal, OpensIncrease, OpensWithinDrain
  <2>2. IdType'
    BY <1>0, <1>19 DEF Drain, openVars, clientVars, IdType
  <2>3. OtherType'
    BY <1>0, <1>19 DEF Drain, openVars, clientVars, OtherType, Errors
  <2>4. AllocInv'
    BY <1>0, <1>19 DEF Drain, openVars, clientVars, AllocInv, OpenerType, OtherType
  <2>5. QueueType' /\ OrderInv' /\ DrainInv'
    BY <1>0, <1>19, DrainOK
  <2> QED
    BY <2>1, <2>2, <2>3, <2>4, <2>5 DEF OpenInv, TypeOK
<1>20. ASSUME SendDrain PROVE OpenInv'
  <2>1. IdType' /\ OpenerType' /\ TableInv' /\ OpensLegal'
    BY <1>0, <1>20 DEF SendDrain, connVars, schedVars, loopVars, streamVars, openVars, writeVars,
      clientVars, IdType, OpenerType, TableInv, WithinMaxStreams, OpensLegal, OpensIncrease,
      OpensWithinDrain
  <2>2. OtherType'
    BY <1>0, <1>20 DEF SendDrain, connVars, openVars, clientVars, OtherType, Errors
  <2>3. AllocInv'
    BY <1>0, <1>20 DEF SendDrain, connVars, openVars, clientVars, AllocInv, OpenerType, OtherType
  <2>4. QueueType' /\ OrderInv' /\ DrainInv'
    BY <1>0, <1>20, SendDrainOK
  <2> QED
    BY <2>1, <2>2, <2>3, <2>4 DEF OpenInv, TypeOK
<1>21. ASSUME DrainWaitOver PROVE OpenInv'
  <2>1. IdType' /\ OpenerType' /\ TableInv' /\ OpensLegal'
    BY <1>0, <1>21 DEF DrainWaitOver, connVars, schedVars, loopVars, streamVars, openVars,
      writeVars, clientVars, IdType, OpenerType, TableInv, WithinMaxStreams, OpensLegal,
      OpensIncrease, OpensWithinDrain
  <2>2. OtherType'
    BY <1>0, <1>21 DEF DrainWaitOver, connVars, OtherType, TableInv
  <2>3. AllocInv'
    BY <1>0, <1>21 DEF DrainWaitOver, connVars, openVars, clientVars, AllocInv, OpenerType,
      OtherType
  <2>4. QueueType' /\ OrderInv' /\ DrainInv'
    BY <1>0, <1>21, QueuesKept DEF DrainWaitOver, connVars, clientVars, Marks, Seen
  <2> QED
    BY <2>1, <2>2, <2>3, <2>4 DEF OpenInv, TypeOK
<1>22. ASSUME NEW s \in Ids, ResetSurvivor(s) PROVE OpenInv'
  <2>1. IdType' /\ OpenerType' /\ TableInv' /\ OpensLegal'
    BY <1>0, <1>22 DEF ResetSurvivor, connVars, schedVars, loopVars, openVars, writeVars,
      clientVars, IdType, OpenerType, TableInv, WithinMaxStreams, OpensLegal, OpensIncrease,
      OpensWithinDrain
  <2>2. OtherType'
    BY <1>0, <1>22, IdsNat DEF ResetSurvivor, connVars, OtherType
  <2>3. AllocInv'
    BY <1>0, <1>22 DEF ResetSurvivor, connVars, openVars, clientVars, AllocInv, OpenerType,
      OtherType
  <2>4. QueueType' /\ OrderInv' /\ DrainInv'
    BY <1>0, <1>22, QueuesKept DEF ResetSurvivor, connVars, clientVars, Marks, Seen
  <2> QED
    BY <2>1, <2>2, <2>3, <2>4 DEF OpenInv, TypeOK
<1>23. ASSUME RetireSurvivor PROVE OpenInv'
  <2>1. IdType' /\ OpensLegal'
    BY <1>0, <1>23 DEF RetireSurvivor, schedVars, loopVars, streamVars, writeVars, clientVars,
      IdType, OpensLegal, OpensIncrease, OpensWithinDrain
  <2>2. OpenerType'
    BY <1>0, <1>23, RetireOK DEF RetireSurvivor
  <2>3. OtherType'
    BY <1>0, <1>23 DEF RetireSurvivor, clientVars, OtherType, Errors
  <2>4. TableInv'
    BY <1>0, <1>23, RetireOK DEF RetireSurvivor
  <2>5. AllocInv'
    <3>1. \A o \in Openers : opPc'[o] = "enqueue" <=> opPc[o] = "enqueue"
      BY <1>0, <1>23, RetireOK DEF RetireSurvivor
    <3> QED
      BY <1>0, <1>23, <3>1 DEF RetireSurvivor, AllocInv
  <2>6. QueueType' /\ OrderInv' /\ DrainInv'
    BY <1>0, <1>23, QueuesKept DEF RetireSurvivor, clientVars, Marks, Seen
  <2> QED
    BY <2>1, <2>2, <2>3, <2>4, <2>5, <2>6 DEF OpenInv, TypeOK
<1>24. ASSUME SendSurvivorReset PROVE OpenInv'
  <2>1. IdType' /\ OpenerType' /\ TableInv' /\ OpensLegal'
    BY <1>0, <1>24 DEF SendSurvivorReset, connVars, schedVars, loopVars, streamVars, openVars,
      writeVars, clientVars, IdType, OpenerType, TableInv, WithinMaxStreams, OpensLegal,
      OpensIncrease, OpensWithinDrain
  <2>2. OtherType'
    BY <1>0, <1>24 DEF SendSurvivorReset, connVars, None, OtherType
  <2>3. AllocInv'
    BY <1>0, <1>24 DEF SendSurvivorReset, connVars, openVars, clientVars, AllocInv, OpenerType,
      OtherType
  <2>4. QueueType' /\ OrderInv' /\ DrainInv'
    <3>1. Frame("RESET", sweeping) \in Frames /\ Frame("RESET", sweeping).type \notin {"OPEN", "DRAIN"}
      BY <1>0, FrameOK DEF OtherType
    <3> QED
      BY <1>0, <1>24, <3>1, SendOther DEF SendSurvivorReset, connVars, clientVars, Marks, Seen
  <2> QED
    BY <2>1, <2>2, <2>3, <2>4 DEF OpenInv, TypeOK
<1>25. ASSUME DrainClose PROVE OpenInv'
  <2>1. IdType' /\ OpenerType' /\ TableInv'
    BY <1>0, <1>25 DEF DrainClose, schedVars, loopVars, streamVars, openVars, writeVars, clientVars,
      IdType, OpenerType, TableInv, WithinMaxStreams
  <2>2. OtherType'
    BY <1>0, <1>25 DEF DrainClose, OtherType, Errors
  <2>3. AllocInv'
    BY <1>0, <1>25 DEF DrainClose, openVars, clientVars, AllocInv, OpenerType, OtherType
  <2>4. OpensLegal'
    BY <1>0, <1>25 DEF DrainClose, OtherType, OpensLegal, OpensIncrease, OpensWithinDrain
  <2>5. QueueType' /\ OrderInv' /\ DrainInv'
    BY <1>0, <1>25, QueuesKept DEF DrainClose, clientVars, Marks, Seen
  <2> QED
    BY <2>1, <2>2, <2>3, <2>4, <2>5 DEF OpenInv, TypeOK
<1>26. ASSUME DrainControl PROVE OpenInv'
  <2>1. IdType' /\ OpenerType' /\ OtherType' /\ TableInv' /\ AllocInv' /\ OpensLegal'
    BY <1>0, <1>26 DEF DrainControl, connVars, schedVars, streamVars, openVars, writeVars,
      drainVars, clientVars, IdType, OpenerType, OtherType, TableInv, WithinMaxStreams,
      AllocInv, OpensLegal, OpensIncrease, OpensWithinDrain
  <2>2. QueueType' /\ OrderInv' /\ DrainInv'
    BY <1>0, <1>26, WriteHeadOK, QueuesKept DEF DrainControl, connVars, clientVars, Marks, Seen
  <2> QED
    BY <2>1, <2>2 DEF OpenInv, TypeOK
<1>27. ASSUME PopReady PROVE OpenInv'
  <2>1. IdType' /\ OpenerType' /\ OtherType' /\ TableInv' /\ AllocInv' /\ OpensLegal'
    BY <1>0, <1>27 DEF PopReady, connVars, streamVars, openVars, writeVars, drainVars, clientVars,
      IdType, OpenerType, OtherType, TableInv, WithinMaxStreams, AllocInv, OpensLegal,
      OpensIncrease, OpensWithinDrain
  <2>2. QueueType' /\ OrderInv' /\ DrainInv'
    BY <1>0, <1>27, QueuesKept DEF PopReady, connVars, clientVars, Marks, Seen
  <2> QED
    BY <2>1, <2>2 DEF OpenInv, TypeOK
<1>28. ASSUME PopChunk PROVE OpenInv'
  <2>1. IdType' /\ OpenerType' /\ OtherType' /\ TableInv' /\ AllocInv' /\ OpensLegal'
    BY <1>0, <1>28 DEF PopChunk, connVars, schedVars, openVars, writeVars, drainVars, clientVars,
      IdType, OpenerType, OtherType, TableInv, WithinMaxStreams, AllocInv, OpensLegal,
      OpensIncrease, OpensWithinDrain
  <2>2. QueueType' /\ OrderInv' /\ DrainInv'
    BY <1>0, <1>28, QueuesKept DEF PopChunk, connVars, clientVars, Marks, Seen
  <2> QED
    BY <2>1, <2>2 DEF OpenInv, TypeOK
<1>29. ASSUME Requeue PROVE OpenInv'
  <2>1. IdType' /\ OpenerType' /\ OtherType' /\ TableInv' /\ AllocInv' /\ OpensLegal'
    BY <1>0, <1>29 DEF Requeue, connVars, streamVars, openVars, writeVars, drainVars, clientVars,
      IdType, OpenerType, OtherType, TableInv, WithinMaxStreams, AllocInv, OpensLegal,
      OpensIncrease, OpensWithinDrain
  <2>2. QueueType' /\ OrderInv' /\ DrainInv'
    BY <1>0, <1>29, QueuesKept DEF Requeue, connVars, clientVars, Marks, Seen
  <2> QED
    BY <2>1, <2>2 DEF OpenInv, TypeOK
<1>30. ASSUME WriteData PROVE OpenInv'
  <2>1. IdType' /\ OpenerType' /\ OtherType' /\ TableInv' /\ AllocInv' /\ OpensLegal'
    BY <1>0, <1>30 DEF WriteData, connVars, schedVars, streamVars, openVars, writeVars, drainVars,
      clientVars, IdType, OpenerType, OtherType, TableInv, WithinMaxStreams, AllocInv,
      OpensLegal, OpensIncrease, OpensWithinDrain
  <2>2. QueueType' /\ OrderInv' /\ DrainInv'
    <3>1. Frame("DATA", turn) \in Frames /\ Frame("DATA", turn).type \notin {"OPEN", "DRAIN"}
      BY <1>0, FrameOK, IdsNat DEF TurnType, None
    <3> QED
      BY <1>0, <1>30, <3>1, WriteOther DEF WriteData, connVars, clientVars, Marks, Seen
  <2> QED
    BY <2>1, <2>2 DEF OpenInv, TypeOK
<1>31. ASSUME Select PROVE OpenInv'
  <2>1. IdType' /\ OpenerType' /\ OtherType' /\ TableInv' /\ AllocInv' /\ OpensLegal'
    BY <1>0, <1>31 DEF Select, connVars, streamVars, openVars, writeVars, drainVars, clientVars,
      IdType, OpenerType, OtherType, TableInv, WithinMaxStreams, AllocInv, OpensLegal,
      OpensIncrease, OpensWithinDrain
  <2>2. QueueType' /\ OrderInv' /\ DrainInv'
    BY <1>0, <1>31, WriteHeadOK, QueuesKept DEF Select, connVars, clientVars, Marks, Seen
  <2> QED
    BY <2>1, <2>2 DEF OpenInv, TypeOK
<1>32. ASSUME WriterStops PROVE OpenInv'
  <2>1. IdType' /\ OpenerType' /\ OtherType' /\ TableInv' /\ AllocInv' /\ OpensLegal'
    BY <1>0, <1>32 DEF WriterStops, connVars, schedVars, streamVars, openVars, writeVars, drainVars,
      clientVars, IdType, OpenerType, OtherType, TableInv, WithinMaxStreams, AllocInv,
      OpensLegal, OpensIncrease, OpensWithinDrain
  <2>2. QueueType' /\ OrderInv' /\ DrainInv'
    BY <1>0, <1>32, QueuesKept DEF WriterStops, connVars, clientVars, Marks, Seen
  <2> QED
    BY <2>1, <2>2 DEF OpenInv, TypeOK
<1>33. ASSUME HandleClose PROVE OpenInv'
  <2>1. IdType'
    BY <1>0, <1>33 DEF HandleClose, schedVars, loopVars, writeVars, drainVars, clientVars, IdType
  <2>2. OpenerType'
    BY <1>0, <1>33, RetireOK DEF HandleClose, OpenerType
  <2>3. OtherType'
    BY <1>0, <1>33 DEF HandleClose, drainVars, OtherType, Errors
  <2>4. TableInv'
    BY <1>0, <1>33, RetireOK DEF HandleClose, TableInv, WithinMaxStreams
  <2>5. AllocInv'
    <3>1. \A o \in Openers : opPc'[o] = "enqueue" <=> opPc[o] = "enqueue"
      BY <1>0, <1>33, RetireOK DEF HandleClose
    <3> QED
      BY <1>0, <1>33, <3>1 DEF HandleClose, drainVars, AllocInv
  <2>6. OpensLegal'
    BY <1>0, <1>33 DEF HandleClose, OtherType, OpensLegal, OpensIncrease, OpensWithinDrain
  <2>7. QueueType' /\ OrderInv' /\ DrainInv'
    BY <1>0, <1>33, HandleCloseQueues
  <2> QED
    BY <2>1, <2>2, <2>3, <2>4, <2>5, <2>6, <2>7 DEF OpenInv, TypeOK
<1>34. ASSUME HandleReset PROVE OpenInv'
  <2>1. IdType'
    BY <1>0, <1>34 DEF HandleReset, schedVars, loopVars, writeVars, drainVars, clientVars, IdType
  <2>2. OpenerType'
    BY <1>0, <1>34, RetireOK DEF HandleReset, OpenerType
  <2>3. OtherType'
    BY <1>0, <1>34 DEF HandleReset, drainVars, OtherType, Errors
  <2>4. TableInv'
    BY <1>0, <1>34, RetireOK DEF HandleReset, TableInv, WithinMaxStreams
  <2>5. AllocInv'
    <3>1. \A o \in Openers : opPc'[o] = "enqueue" <=> opPc[o] = "enqueue"
      BY <1>0, <1>34, RetireOK DEF HandleReset
    <3> QED
      BY <1>0, <1>34, <3>1 DEF HandleReset, drainVars, AllocInv
  <2>6. OpensLegal'
    BY <1>0, <1>34 DEF HandleReset, OtherType, OpensLegal, OpensIncrease, OpensWithinDrain
  <2>7. QueueType' /\ OrderInv' /\ DrainInv'
    BY <1>0, <1>34, QueuesKept DEF HandleReset, clientVars, Marks, Seen
  <2> QED
    BY <2>1, <2>2, <2>3, <2>4, <2>5, <2>6, <2>7 DEF OpenInv, TypeOK
<1>35. ASSUME HandleRemoteOpen PROVE OpenInv'
  <2>1. OpenerType' /\ TableInv' /\ AllocInv'
    BY <1>0, <1>35 DEF HandleRemoteOpen, schedVars, loopVars, streamVars, openVars, writeVars,
      drainVars, clientVars, serverVars, OpenerType, TableInv, WithinMaxStreams, AllocInv
  <2>2. IdType'
    BY <1>0, <1>35, TakeFrame DEF HandleRemoteOpen, Dispatching, serverVars, Marks, Frames, IdType
  <2>3. OtherType'
    BY <1>0, <1>35 DEF HandleRemoteOpen, FailClient, serverVars, drainVars, OtherType, Errors
  <2>4. OpensLegal'
    BY <1>0, <1>35, RemoteOpenLegal
  <2>5. QueueType' /\ OrderInv' /\ DrainInv'
    BY <1>0, <1>35, TakeFrame DEF HandleRemoteOpen, Dispatching, serverVars, Marks, Seen
  <2> QED
    BY <2>1, <2>2, <2>3, <2>4, <2>5 DEF OpenInv, TypeOK
<1>36. ASSUME ClientData PROVE OpenInv'
  <2>1. IdType' /\ OpenerType' /\ TableInv' /\ AllocInv'
    BY <1>0, <1>36 DEF ClientData, schedVars, loopVars, streamVars, openVars, writeVars, drainVars,
      clientVars, serverVars, IdType, OpenerType, TableInv, WithinMaxStreams, AllocInv
  <2>2. OtherType'
    BY <1>0, <1>36 DEF ClientData, FailClient, serverVars, drainVars, OtherType, Errors
  <2>3. OpensLegal'
    BY <1>0, <1>36 DEF ClientData, FailClient, OtherType, OpensLegal, OpensIncrease, OpensWithinDrain
  <2>4. QueueType' /\ OrderInv' /\ DrainInv'
    BY <1>0, <1>36, TakeFrame DEF ClientData, Dispatching, serverVars, Marks, Seen
  <2> QED
    BY <2>1, <2>2, <2>3, <2>4 DEF OpenInv, TypeOK
<1>37. ASSUME ClientCloseOrReset PROVE OpenInv'
  <2>1. IdType' /\ OpenerType' /\ TableInv' /\ AllocInv'
    BY <1>0, <1>37 DEF ClientCloseOrReset, schedVars, loopVars, streamVars, openVars, writeVars,
      drainVars, clientVars, serverVars, IdType, OpenerType, TableInv, WithinMaxStreams,
      AllocInv
  <2>2. OtherType'
    BY <1>0, <1>37 DEF ClientCloseOrReset, FailClient, serverVars, drainVars, OtherType, Errors
  <2>3. OpensLegal'
    BY <1>0, <1>37 DEF ClientCloseOrReset, FailClient, OtherType, OpensLegal, OpensIncrease, OpensWithinDrain
  <2>4. QueueType' /\ OrderInv' /\ DrainInv'
    BY <1>0, <1>37, TakeFrame DEF ClientCloseOrReset, Dispatching, serverVars, Marks, Seen
  <2> QED
    BY <2>1, <2>2, <2>3, <2>4 DEF OpenInv, TypeOK
<1>38. ASSUME HandleDrain PROVE OpenInv'
  <2>1. OpenerType' /\ OtherType' /\ TableInv' /\ AllocInv' /\ OpensLegal'
    BY <1>0, <1>38 DEF HandleDrain, schedVars, loopVars, streamVars, openVars, writeVars, drainVars,
      clientVars, serverVars, OpenerType, OtherType, TableInv, WithinMaxStreams, AllocInv,
      OpensLegal, OpensIncrease, OpensWithinDrain
  <2>2. IdType'
    BY <1>0, <1>38, TakeFrame DEF HandleDrain, Dispatching, serverVars, Marks, Frames, IdType
  <2>3. QueueType' /\ OrderInv' /\ DrainInv'
    BY <1>0, <1>38, TakeFrame DEF HandleDrain, Dispatching, serverVars, Marks, Seen
  <2> QED
    BY <2>1, <2>2, <2>3 DEF OpenInv, TypeOK
<1>39. ASSUME ConnEnds PROVE OpenInv'
  <2>1. IdType' /\ OpenerType' /\ OtherType' /\ TableInv' /\ AllocInv' /\ OpensLegal'
    BY <1>0, <1>39 DEF ConnEnds, schedVars, loopVars, streamVars, openVars, writeVars, drainVars,
      clientVars, IdType, OpenerType, OtherType, TableInv, WithinMaxStreams, AllocInv,
      OpensLegal, OpensIncrease, OpensWithinDrain
  <2>2. QueueType' /\ OrderInv' /\ DrainInv'
    BY <1>0, <1>39, QueuesKept DEF ConnEnds, clientVars, Marks, Seen
  <2> QED
    BY <2>1, <2>2 DEF OpenInv, TypeOK
<1>40. CASE UNCHANGED vars
  <2>1. QueueType' /\ OrderInv' /\ DrainInv'
    BY <1>0, <1>40, QueuesKept DEF vars, connVars, clientVars, Marks, Seen
  <2>2. IdType' /\ OpenerType' /\ OtherType' /\ TableInv' /\ AllocInv' /\ OpensLegal'
    BY <1>0, <1>40 DEF vars, connVars, openVars, drainVars, clientVars, IdType, OpenerType, OtherType,
      TableInv, WithinMaxStreams, AllocInv, OpensLegal, OpensIncrease, OpensWithinDrain
  <2> QED
    BY <2>1, <2>2 DEF OpenInv, TypeOK
<1> QED
  BY <1>1, <1>2, <1>3, <1>4, <1>5, <1>6, <1>7, <1>8, <1>9, <1>10, <1>11, <1>12, <1>13, <1>14,
     <1>15, <1>16, <1>17, <1>18, <1>19, <1>20, <1>21, <1>22, <1>23, <1>24, <1>25, <1>26, <1>27,
     <1>28, <1>29, <1>30, <1>31, <1>32, <1>33, <1>34, <1>35, <1>36, <1>37, <1>38, <1>39, <1>40
     DEF Next, OpenSteps, WriteSteps, CloseSteps, AppCalls, DrainSteps, WriterLoop, ServerReads,
       ClientReads, ClientApp
-----------------------------------------------------------------------------
(* RotationInv is inductive *)

\* A stream goes to the end of the rotation: nothing has passed it yet.
LEMMA MarkReadyOK ==
  ASSUME NEW s \in Ids, MarkReady(s), TurnInv
  PROVE  TurnInv'
<1>1. CASE UNCHANGED <<ready, passed>>
  BY <1>1 DEF TurnInv
<1>2. CASE /\ s \notin ToSet(ready) /\ ready' = Append(ready, s)
           /\ passed' = [passed EXCEPT ![s] = [t \in Ids |-> 0]]
  <2>1. /\ ready' \in Seq(Ids) /\ Len(ready') = Len(ready) + 1 /\ Len(ready) \in Nat
        /\ ready'[Len(ready) + 1] = s /\ \A i \in 1..Len(ready) : ready'[i] = ready[i]
    BY <1>2, SeqAppend DEF TurnInv
  <2>2. \A i \in 1..Len(ready) : ready[i] # s /\ ready[i] \in Ids
    BY <1>2, SMTT(30) DEF ToSet, TurnInv
  <2>3. passed' \in [Ids -> [Ids -> Nat]]
    BY <1>2 DEF TurnInv
  <2>4. \A t \in Ids : passed'[s][t] = 0
    BY <1>2 DEF TurnInv
  <2>5. \A i \in 1..Len(ready) : passed'[ready[i]] = passed[ready[i]]
    BY <1>2, <2>2 DEF TurnInv
  <2>6. \A i \in 1..Len(ready') : \/ i \in 1..Len(ready) /\ ready'[i] = ready[i]
                                  \/ i = Len(ready) + 1 /\ ready'[i] = s
    BY <2>1
  <2>7. ASSUME NEW i \in 1..Len(ready'), NEW j \in 1..Len(ready'), i < j
        PROVE  ready'[i] # ready'[j] /\ passed'[ready'[j]][ready'[i]] = 0
    <3>1. i \in 1..Len(ready) /\ ready'[i] = ready[i]
      BY <2>1, <2>7
    <3>2. CASE j \in 1..Len(ready) /\ ready'[j] = ready[j]
      <4>1. ready[i] # ready[j] /\ passed[ready[j]][ready[i]] = 0
        BY <2>7, <3>1, <3>2 DEF TurnInv
      <4> QED
        BY <2>5, <3>1, <3>2, <4>1
    <3>3. CASE ready'[j] = s
      BY <2>2, <2>4, <3>1, <3>3
    <3> QED
      BY <2>6, <3>2, <3>3
  <2>8. ASSUME NEW i \in 1..Len(ready')
        PROVE  passed'[ready'[i]][ready'[i]] = 0 /\ \A t \in Ids : passed'[ready'[i]][t] <= 1
    <3>1. CASE i \in 1..Len(ready) /\ ready'[i] = ready[i]
      BY <2>5, <3>1 DEF TurnInv
    <3>2. CASE ready'[i] = s
      BY <2>4, <3>2
    <3> QED
      BY <2>6, <3>1, <3>2
  <2> QED
    BY <2>1, <2>3, <2>7, <2>8 DEF TurnInv
<1> QED
  BY <1>1, <1>2 DEF MarkReady

\* The front stream's turn is the first it has since the streams behind it went in.
LEMMA PopReadyOK ==
  ASSUME TurnInv, ready # <<>>, ready' = Tail(ready),
         passed' = [s \in Ids |-> [passed[s] EXCEPT ![Head(ready)] = @ + 1]]
  PROVE  Head(ready) \in Ids /\ TurnInv'
<1> DEFINE h == Head(ready)
<1>1. /\ ready' \in Seq(Ids) /\ Len(ready') = Len(ready) - 1 /\ Len(ready) \in Nat \ {0}
      /\ h \in Ids /\ h = ready[1] /\ \A i \in 1..Len(ready') : ready'[i] = ready[i + 1]
  BY SeqTail DEF TurnInv
<1> HIDE DEF h
<1>2. /\ passed' \in [Ids -> [Ids -> Nat]]
      /\ \A s, t \in Ids : passed'[s][t] = IF t = h THEN passed[s][t] + 1 ELSE passed[s][t]
  <2>1. passed' = [s \in Ids |-> [passed[s] EXCEPT ![h] = passed[s][h] + 1]]
    BY DEF h
  <2>2. ASSUME NEW s \in Ids PROVE passed[s] \in [Ids -> Nat] /\ passed[s][h] + 1 \in Nat
    BY <1>1 DEF TurnInv
  <2>3. ASSUME NEW s \in Ids, NEW t \in Ids
        PROVE  passed'[s][t] = IF t = h THEN passed[s][t] + 1 ELSE passed[s][t]
    BY <2>1, <2>2
  <2>4. ASSUME NEW s \in Ids PROVE [passed[s] EXCEPT ![h] = passed[s][h] + 1] \in [Ids -> Nat]
    BY <2>2
  <2> QED
    BY <2>1, <2>3, <2>4
<1>3. \A i \in 1..Len(ready') : /\ i + 1 \in 1..Len(ready) /\ 1 < i + 1 /\ ready'[i] = ready[i + 1]
                                /\ ready'[i] \in Ids
  BY <1>1 DEF TurnInv
<1>4. 1 \in 1..Len(ready)
  BY <1>1
<1>5. \A i \in 1..Len(ready') : ready'[i] # h /\ passed[ready'[i]][h] = 0
  BY <1>1, <1>3, <1>4 DEF TurnInv
<1>6. ASSUME NEW i \in 1..Len(ready'), NEW j \in 1..Len(ready'), i < j
      PROVE  ready'[i] # ready'[j] /\ passed'[ready'[j]][ready'[i]] = 0
  <2>1. i + 1 < j + 1
    BY <1>6
  <2>2. ready[i + 1] # ready[j + 1] /\ passed[ready[j + 1]][ready[i + 1]] = 0
    BY <1>3, <2>1 DEF TurnInv
  <2> QED
    BY <1>2, <1>3, <1>5, <2>2
<1>7. ASSUME NEW i \in 1..Len(ready')
      PROVE  passed'[ready'[i]][ready'[i]] = 0 /\ \A t \in Ids : passed'[ready'[i]][t] <= 1
  <2>1. passed[ready'[i]][ready'[i]] = 0 /\ \A t \in Ids : passed[ready'[i]][t] <= 1
    BY <1>3 DEF TurnInv
  <2> QED
    BY <1>2, <1>3, <1>5, <2>1
<1> QED
  BY <1>1, <1>2, <1>6, <1>7 DEF TurnInv, h

\* A queued control frame, and one that is written, with the count of DATA that overtook it.
LEMMA SendKeepsData ==
  ASSUME QueueType, DataInv, NEW f, SendControlFrame(f), UNCHANGED <<wlPc, dataSince>>
  PROVE  DataInv'
<1>1. CASE UNCHANGED controlQueue
  BY <1>1 DEF DataInv
<1>2. CASE controlQueue' = Append(controlQueue, f)
  <2>1. controlQueue' # <<>>
    BY <1>2 DEF QueueType
  <2> QED
    BY <2>1 DEF DataInv
<1> QED
  BY <1>1, <1>2 DEF SendControlFrame

\* The writer takes a control frame.
LEMMA WriteHeadData ==
  ASSUME QueueType, DataInv, WriteHead, wlPc \in {"control", "select"}, wlPc' = "control"
  PROVE  DataInv'
<1>1. /\ Len(controlQueue') = Len(controlQueue) - 1 /\ Len(controlQueue) \in Nat \ {0}
      /\ controlQueue' \in Seq(Frames)
  BY SeqTail DEF QueueType, WriteHead
<1>2. controlQueue' = <<>> => Len(controlQueue) = 1
  BY <1>1
<1> QED
  BY <1>2 DEF DataInv, WriteHead

\* RotationInv holds at the start.
LEMMA RotationInit == Init => RotationInv
  BY IdsNat DEF Init, RotationInv, TurnType, TurnInv, DataInv, None

\* Every action preserves the order of the rotation.
LEMMA TurnStep ==
  ASSUME TurnType, TurnInv, [Next]_vars
  PROVE  TurnType' /\ TurnInv'
<1>1. ASSUME NEW s \in Ids, MarkStreamReady(s) PROVE TurnType' /\ TurnInv'
  BY <1>1, MarkReadyOK DEF MarkStreamReady, loopVars, TurnType
<1>2. ASSUME DrainControl PROVE TurnType' /\ TurnInv'
  <2>1. UNCHANGED <<ready, passed>>
    BY <1>2 DEF DrainControl, schedVars
  <2>2. TurnType'
    BY <1>2 DEF DrainControl, AfterData, loopVars, TurnType, None
  <2> QED
    BY <2>1, <2>2 DEF TurnInv
<1>3. ASSUME PopReady PROVE TurnType' /\ TurnInv'
  <2>1. CASE ready = <<>>
    BY <1>3, <2>1 DEF PopReady, TurnType, TurnInv
  <2>2. CASE ready # <<>>
    BY <1>3, <2>2, PopReadyOK DEF PopReady, TurnType
  <2> QED
    BY <2>1, <2>2
<1>4. ASSUME PopChunk PROVE TurnType' /\ TurnInv'
  <2>1. UNCHANGED <<ready, passed>>
    BY <1>4 DEF PopChunk, schedVars
  <2>2. TurnType'
    BY <1>4 DEF PopChunk, AfterData, loopVars, TurnType, None
  <2> QED
    BY <2>1, <2>2 DEF TurnInv
<1>5. ASSUME Requeue PROVE TurnType' /\ TurnInv'
  <2>1. turn \in Ids
    BY <1>5 DEF Requeue, TurnType
  <2>2. TurnInv'
    <3>1. CASE UNCHANGED <<ready, passed>>
      BY <3>1 DEF TurnInv
    <3>2. CASE MarkReady(turn)
      BY <2>1, <3>2, MarkReadyOK
    <3> QED
      BY <1>5, <3>1, <3>2 DEF Requeue
  <2> QED
    BY <1>5, <2>1, <2>2 DEF Requeue, TurnType
<1>6. ASSUME WriteData PROVE TurnType' /\ TurnInv'
  <2>1. UNCHANGED <<ready, passed>>
    BY <1>6 DEF WriteData, schedVars
  <2>2. TurnType'
    BY <1>6 DEF WriteData, AfterData, loopVars, TurnType, None
  <2> QED
    BY <2>1, <2>2 DEF TurnInv
<1>7. ASSUME Select PROVE TurnType' /\ TurnInv'
  <2>1. UNCHANGED <<ready, passed>>
    BY <1>7 DEF Select, schedVars
  <2>2. TurnType'
    BY <1>7 DEF Select, AfterData, loopVars, TurnType, None
  <2> QED
    BY <2>1, <2>2 DEF TurnInv
<1>8. ASSUME WriterStops PROVE TurnType' /\ TurnInv'
  <2>1. UNCHANGED <<ready, passed>>
    BY <1>8 DEF WriterStops, schedVars
  <2>2. TurnType'
    BY <1>8 DEF WriterStops, AfterData, loopVars, TurnType, None
  <2> QED
    BY <2>1, <2>2 DEF TurnInv
<1>9. ASSUME NEW o \in Openers, OpenStream(o) PROVE UNCHANGED <<ready, passed, turn, wlPc>>
  BY <1>9 DEF OpenStream, schedVars, loopVars
<1>10. ASSUME NEW o \in Openers, CheckSlots(o) PROVE UNCHANGED <<ready, passed, turn, wlPc>>
  BY <1>10 DEF CheckSlots, schedVars, loopVars
<1>11. ASSUME NEW o \in Openers, AllocateStream(o) PROVE UNCHANGED <<ready, passed, turn, wlPc>>
  BY <1>11 DEF AllocateStream, schedVars, loopVars
<1>12. ASSUME NEW o \in Openers, EnqueueOpen(o) PROVE UNCHANGED <<ready, passed, turn, wlPc>>
  BY <1>12 DEF EnqueueOpen, schedVars, loopVars
<1>13. ASSUME NEW o \in Openers, OpenConnClosed(o) \/ OpenCancelled(o) PROVE UNCHANGED <<ready, passed, turn, wlPc>>
  BY <1>13 DEF OpenConnClosed, OpenCancelled, schedVars, loopVars
<1>14. ASSUME NEW s \in Ids, QueueChunk(s) PROVE UNCHANGED <<ready, passed, turn, wlPc>>
  BY <1>14 DEF QueueChunk, schedVars, loopVars
<1>15. ASSUME NEW s \in Ids, WakeWriter(s) PROVE UNCHANGED <<ready, passed, turn, wlPc>>
  BY <1>15 DEF WakeWriter, loopVars
<1>16. ASSUME NEW s \in Ids, ChunkDone(s) PROVE UNCHANGED <<ready, passed, turn, wlPc>>
  BY <1>16 DEF ChunkDone, schedVars, loopVars
<1>17. ASSUME NEW s \in Ids, WriteConnClosed(s) PROVE UNCHANGED <<ready, passed, turn, wlPc>>
  BY <1>17 DEF WriteConnClosed, schedVars, loopVars
<1>18. ASSUME NEW s \in Ids, Retire(s) PROVE UNCHANGED <<ready, passed, turn, wlPc>>
  BY <1>18 DEF Retire, schedVars, loopVars
<1>19. ASSUME NEW s \in Ids, SendCloseOrReset(s) PROVE UNCHANGED <<ready, passed, turn, wlPc>>
  BY <1>19 DEF SendCloseOrReset, schedVars, loopVars
<1>20. ASSUME NEW s \in Ids, Write(s) PROVE UNCHANGED <<ready, passed, turn, wlPc>>
  BY <1>20 DEF Write, schedVars, loopVars
<1>21. ASSUME NEW s \in Ids, CancelWrite(s) PROVE UNCHANGED <<ready, passed, turn, wlPc>>
  BY <1>21 DEF CancelWrite, schedVars
<1>22. ASSUME NEW s \in Ids, CloseWrite(s) PROVE UNCHANGED <<ready, passed, turn, wlPc>>
  BY <1>22 DEF CloseWrite, schedVars, loopVars
<1>23. ASSUME NEW s \in Ids, Reset(s) PROVE UNCHANGED <<ready, passed, turn, wlPc>>
  BY <1>23 DEF Reset, schedVars, loopVars
<1>24. ASSUME NEW s \in Ids, ClientCloseWrite(s) PROVE UNCHANGED <<ready, passed, turn, wlPc>>
  BY <1>24 DEF ClientCloseWrite, serverVars, schedVars, loopVars
<1>25. ASSUME NEW s \in Ids, ClientReset(s) PROVE UNCHANGED <<ready, passed, turn, wlPc>>
  BY <1>25 DEF ClientReset, serverVars, schedVars, loopVars
<1>26. ASSUME Drain PROVE UNCHANGED <<ready, passed, turn, wlPc>>
  BY <1>26 DEF Drain, schedVars, loopVars
<1>27. ASSUME SendDrain PROVE UNCHANGED <<ready, passed, turn, wlPc>>
  BY <1>27 DEF SendDrain, schedVars, loopVars
<1>28. ASSUME DrainWaitOver PROVE UNCHANGED <<ready, passed, turn, wlPc>>
  BY <1>28 DEF DrainWaitOver, schedVars, loopVars
<1>29. ASSUME NEW s \in Ids, ResetSurvivor(s) PROVE UNCHANGED <<ready, passed, turn, wlPc>>
  BY <1>29 DEF ResetSurvivor, schedVars, loopVars
<1>30. ASSUME RetireSurvivor PROVE UNCHANGED <<ready, passed, turn, wlPc>>
  BY <1>30 DEF RetireSurvivor, schedVars, loopVars
<1>31. ASSUME SendSurvivorReset PROVE UNCHANGED <<ready, passed, turn, wlPc>>
  BY <1>31 DEF SendSurvivorReset, schedVars, loopVars
<1>32. ASSUME DrainClose PROVE UNCHANGED <<ready, passed, turn, wlPc>>
  BY <1>32 DEF DrainClose, schedVars, loopVars
<1>33. ASSUME HandleClose PROVE UNCHANGED <<ready, passed, turn, wlPc>>
  BY <1>33 DEF HandleClose, schedVars, loopVars
<1>34. ASSUME HandleReset PROVE UNCHANGED <<ready, passed, turn, wlPc>>
  BY <1>34 DEF HandleReset, schedVars, loopVars
<1>35. ASSUME HandleRemoteOpen PROVE UNCHANGED <<ready, passed, turn, wlPc>>
  BY <1>35 DEF HandleRemoteOpen, serverVars, schedVars, loopVars
<1>36. ASSUME ClientData PROVE UNCHANGED <<ready, passed, turn, wlPc>>
  BY <1>36 DEF ClientData, serverVars, schedVars, loopVars
<1>37. ASSUME ClientCloseOrReset PROVE UNCHANGED <<ready, passed, turn, wlPc>>
  BY <1>37 DEF ClientCloseOrReset, serverVars, schedVars, loopVars
<1>38. ASSUME HandleDrain PROVE UNCHANGED <<ready, passed, turn, wlPc>>
  BY <1>38 DEF HandleDrain, serverVars, schedVars, loopVars
<1>39. ASSUME ConnEnds PROVE UNCHANGED <<ready, passed, turn, wlPc>>
  BY <1>39 DEF ConnEnds, schedVars, loopVars
<1>40. CASE UNCHANGED vars
  BY <1>40 DEF vars, schedVars, loopVars, TurnType, TurnInv
<1>41. CASE UNCHANGED <<ready, passed, turn, wlPc>>
  BY <1>41 DEF TurnType, TurnInv
<1> QED
  BY <1>1, <1>2, <1>3, <1>4, <1>5, <1>6, <1>7, <1>8, <1>9, <1>10, <1>11, <1>12, <1>13, <1>14,
     <1>15, <1>16, <1>17, <1>18, <1>19, <1>20, <1>21, <1>22, <1>23, <1>24, <1>25, <1>26, <1>27,
     <1>28, <1>29, <1>30, <1>31, <1>32, <1>33, <1>34, <1>35, <1>36, <1>37, <1>38, <1>39, <1>40,
     <1>41
     DEF Next, OpenSteps, WriteSteps, CloseSteps, AppCalls, DrainSteps, WriterLoop, ServerReads,
       ClientReads, ClientApp

\* Every action preserves the place of control frames before DATA.
LEMMA DataStep ==
  ASSUME QueueType, DataInv, [Next]_vars
  PROVE  DataInv'
<1>1. ASSUME NEW o \in Openers, EnqueueOpen(o) PROVE DataInv'
  BY <1>1, SendKeepsData DEF EnqueueOpen, loopVars
<1>2. ASSUME NEW s \in Ids, SendCloseOrReset(s) PROVE DataInv'
  BY <1>2, SendKeepsData DEF SendCloseOrReset, loopVars
<1>3. ASSUME SendDrain PROVE DataInv'
  BY <1>3, SendKeepsData DEF SendDrain, loopVars
<1>4. ASSUME SendSurvivorReset PROVE DataInv'
  BY <1>4, SendKeepsData DEF SendSurvivorReset, loopVars
<1>5. ASSUME DrainControl PROVE DataInv'
  BY <1>5, WriteHeadData DEF DrainControl, DataInv
<1>6. ASSUME PopReady PROVE DataInv'
  BY <1>6 DEF PopReady, DataInv
<1>7. ASSUME PopChunk PROVE DataInv'
  BY <1>7 DEF PopChunk, DataInv
<1>8. ASSUME Requeue PROVE DataInv'
  BY <1>8 DEF Requeue, DataInv
<1>9. ASSUME WriteData PROVE DataInv'
  BY <1>9 DEF WriteData, AfterData, DataInv
<1>10. ASSUME Select PROVE DataInv'
  BY <1>10, WriteHeadData DEF Select, DataInv
<1>11. ASSUME WriterStops PROVE DataInv'
  BY <1>11 DEF WriterStops, DataInv
<1>12. ASSUME HandleClose PROVE DataInv'
  BY <1>12, SendKeepsData DEF HandleClose, loopVars, DataInv
<1>13. ASSUME NEW o \in Openers, OpenStream(o) PROVE UNCHANGED <<controlQueue, wlPc, dataSince>>
  BY <1>13 DEF OpenStream, loopVars
<1>14. ASSUME NEW o \in Openers, CheckSlots(o) PROVE UNCHANGED <<controlQueue, wlPc, dataSince>>
  BY <1>14 DEF CheckSlots, loopVars
<1>15. ASSUME NEW o \in Openers, AllocateStream(o) PROVE UNCHANGED <<controlQueue, wlPc, dataSince>>
  BY <1>15 DEF AllocateStream, loopVars
<1>16. ASSUME NEW o \in Openers, OpenConnClosed(o) \/ OpenCancelled(o) PROVE UNCHANGED <<controlQueue, wlPc, dataSince>>
  BY <1>16 DEF OpenConnClosed, OpenCancelled, loopVars
<1>17. ASSUME NEW s \in Ids, QueueChunk(s) PROVE UNCHANGED <<controlQueue, wlPc, dataSince>>
  BY <1>17 DEF QueueChunk, loopVars
<1>18. ASSUME NEW s \in Ids, MarkStreamReady(s) PROVE UNCHANGED <<controlQueue, wlPc, dataSince>>
  BY <1>18 DEF MarkStreamReady, loopVars
<1>19. ASSUME NEW s \in Ids, WakeWriter(s) PROVE UNCHANGED <<controlQueue, wlPc, dataSince>>
  BY <1>19 DEF WakeWriter, loopVars
<1>20. ASSUME NEW s \in Ids, ChunkDone(s) PROVE UNCHANGED <<controlQueue, wlPc, dataSince>>
  BY <1>20 DEF ChunkDone, loopVars
<1>21. ASSUME NEW s \in Ids, WriteConnClosed(s) PROVE UNCHANGED <<controlQueue, wlPc, dataSince>>
  BY <1>21 DEF WriteConnClosed, loopVars
<1>22. ASSUME NEW s \in Ids, Retire(s) PROVE UNCHANGED <<controlQueue, wlPc, dataSince>>
  BY <1>22 DEF Retire, loopVars
<1>23. ASSUME NEW s \in Ids, Write(s) PROVE UNCHANGED <<controlQueue, wlPc, dataSince>>
  BY <1>23 DEF Write, loopVars
<1>24. ASSUME NEW s \in Ids, CancelWrite(s) PROVE UNCHANGED <<controlQueue, wlPc, dataSince>>
  BY <1>24 DEF CancelWrite
<1>25. ASSUME NEW s \in Ids, CloseWrite(s) PROVE UNCHANGED <<controlQueue, wlPc, dataSince>>
  BY <1>25 DEF CloseWrite, loopVars
<1>26. ASSUME NEW s \in Ids, Reset(s) PROVE UNCHANGED <<controlQueue, wlPc, dataSince>>
  BY <1>26 DEF Reset, loopVars
<1>27. ASSUME NEW s \in Ids, ClientCloseWrite(s) PROVE UNCHANGED <<controlQueue, wlPc, dataSince>>
  BY <1>27 DEF ClientCloseWrite, serverVars, loopVars
<1>28. ASSUME NEW s \in Ids, ClientReset(s) PROVE UNCHANGED <<controlQueue, wlPc, dataSince>>
  BY <1>28 DEF ClientReset, serverVars, loopVars
<1>29. ASSUME Drain PROVE UNCHANGED <<controlQueue, wlPc, dataSince>>
  BY <1>29 DEF Drain, loopVars
<1>30. ASSUME DrainWaitOver PROVE UNCHANGED <<controlQueue, wlPc, dataSince>>
  BY <1>30 DEF DrainWaitOver, loopVars
<1>31. ASSUME NEW s \in Ids, ResetSurvivor(s) PROVE UNCHANGED <<controlQueue, wlPc, dataSince>>
  BY <1>31 DEF ResetSurvivor, loopVars
<1>32. ASSUME RetireSurvivor PROVE UNCHANGED <<controlQueue, wlPc, dataSince>>
  BY <1>32 DEF RetireSurvivor, loopVars
<1>33. ASSUME DrainClose PROVE UNCHANGED <<controlQueue, wlPc, dataSince>>
  BY <1>33 DEF DrainClose, loopVars
<1>34. ASSUME HandleReset PROVE UNCHANGED <<controlQueue, wlPc, dataSince>>
  BY <1>34 DEF HandleReset, loopVars
<1>35. ASSUME HandleRemoteOpen PROVE UNCHANGED <<controlQueue, wlPc, dataSince>>
  BY <1>35 DEF HandleRemoteOpen, serverVars, loopVars
<1>36. ASSUME ClientData PROVE UNCHANGED <<controlQueue, wlPc, dataSince>>
  BY <1>36 DEF ClientData, serverVars, loopVars
<1>37. ASSUME ClientCloseOrReset PROVE UNCHANGED <<controlQueue, wlPc, dataSince>>
  BY <1>37 DEF ClientCloseOrReset, serverVars, loopVars
<1>38. ASSUME HandleDrain PROVE UNCHANGED <<controlQueue, wlPc, dataSince>>
  BY <1>38 DEF HandleDrain, serverVars, loopVars
<1>39. ASSUME ConnEnds PROVE UNCHANGED <<controlQueue, wlPc, dataSince>>
  BY <1>39 DEF ConnEnds, loopVars
<1>40. CASE UNCHANGED vars
  BY <1>40 DEF vars, loopVars, DataInv
<1>41. CASE UNCHANGED <<controlQueue, wlPc, dataSince>>
  BY <1>41 DEF DataInv
<1> QED
  BY <1>1, <1>2, <1>3, <1>4, <1>5, <1>6, <1>7, <1>8, <1>9, <1>10, <1>11, <1>12, <1>13, <1>14,
     <1>15, <1>16, <1>17, <1>18, <1>19, <1>20, <1>21, <1>22, <1>23, <1>24, <1>25, <1>26, <1>27,
     <1>28, <1>29, <1>30, <1>31, <1>32, <1>33, <1>34, <1>35, <1>36, <1>37, <1>38, <1>39, <1>40,
     <1>41
     DEF Next, OpenSteps, WriteSteps, CloseSteps, AppCalls, DrainSteps, WriterLoop, ServerReads,
       ClientReads, ClientApp
-----------------------------------------------------------------------------
(* Theorems *)

\* While nextChunk serves a stream the writer loop knows which, and streams wait in the
\* rotation in the order of their last turn.
THEOREM RotationOrder == Spec => [](TurnType /\ TurnInv)
<1>1. Init => TurnType /\ TurnInv
  BY RotationInit DEF RotationInv
<1>2. TurnType /\ TurnInv /\ [Next]_vars => TurnType' /\ TurnInv'
  BY TurnStep
<1> QED
  BY <1>1, <1>2, PTL DEF Spec

\* The OPENs on their way to the client rise from the last one it saw, below the id openMu
\* guards, and a DRAIN names the last id there will be: OpenStream, sendControlFrame, Drain,
\* the writer loop and handleRemoteOpen preserve it together.
THEOREM OpenInvariant == Spec => []OpenInv
<1>1. Init => OpenInv
  BY OpenInit
<1>2. OpenInv /\ TurnType /\ [Next]_vars => OpenInv'
  BY OpenStep
<1> QED
  BY <1>1, <1>2, RotationOrder, PTL DEF Spec

\* No OPEN the server writes is a protocol error to the client, with any number of
\* OpenStream calls racing one another and Drain.
THEOREM AlwaysOpensLegal == Spec => []OpensLegal
<1>1. OpenInv => OpensLegal
  BY DEF OpenInv
<1> QED
  BY <1>1, OpenInvariant, PTL

\* The stream table never exceeds the cap of the handshake, although OpenStream checks it
\* before it takes openMu.
THEOREM AlwaysWithinMaxStreams == Spec => []WithinMaxStreams
<1>1. OpenInv => WithinMaxStreams
  BY DEF OpenInv, TableInv
<1> QED
  BY <1>1, OpenInvariant, PTL

\* The rotation is kept in the order of last turns, and the control queue is looked at
\* before every DATA frame, whatever Write, nextChunk and the closers interleave.
THEOREM RotationInvariant == Spec => []RotationInv
<1>1. Init => DataInv
  BY RotationInit DEF RotationInv
<1>2. OpenInv => QueueType
  BY DEF OpenInv, TypeOK
<1>3. QueueType /\ DataInv /\ [Next]_vars => DataInv'
  BY DataStep
<1>4. Spec => []DataInv
  BY <1>1, <1>2, <1>3, OpenInvariant, PTL DEF Spec
<1>5. TurnType /\ TurnInv /\ DataInv => RotationInv
  BY DEF RotationInv
<1> QED
  BY <1>4, <1>5, RotationOrder, PTL

\* While a stream waits in the rotation no other has two turns, and at most one DATA frame
\* overtakes a queued control frame.
THEOREM AlwaysRoundRobin == Spec => []RoundRobin
<1>1. RotationInv => RoundRobin
  <2> SUFFICES ASSUME RotationInv PROVE RoundRobin
    OBVIOUS
  <2>1. ASSUME NEW s \in ToSet(ready), NEW t \in Ids PROVE passed[s][t] <= 1
    <3>1. ready \in Seq(Ids)
      BY DEF RotationInv, TurnInv
    <3>2. PICK i \in 1..Len(ready) : s = ready[i]
      BY <3>1 DEF ToSet
    <3> QED
      BY <3>2 DEF RotationInv, TurnInv
  <2>2. dataSince <= 1
    BY DEF RotationInv, DataInv
  <2> QED
    BY <2>1, <2>2 DEF RoundRobin
<1> QED
  BY <1>1, RotationInvariant, PTL
-----------------------------------------------------------------------------
(* The frames on their way *)

\* A queue carries what is appended to it, and what it carried before.
LEMMA CarriesAppend ==
  ASSUME NEW S, NEW q \in Seq(S), NEW f \in S, NEW x, NEW t
  PROVE  Carries(Append(q, f), x, t) <=> Carries(q, x, t) \/ (f.type = x /\ f.id = t)
<1> DEFINE r == Append(q, f)
<1>1. /\ Len(r) = Len(q) + 1 /\ Len(q) \in Nat /\ r[Len(q) + 1] = f /\ \A i \in 1..Len(q) : r[i] = q[i]
  BY SeqAppend
<1> HIDE DEF r
<1>2. Len(q) + 1 \in 1..Len(r) /\ \A i \in 1..Len(q) : i \in 1..Len(r)
  BY <1>1
<1>3. \A i \in 1..Len(r) : i \in 1..Len(q) \/ i = Len(q) + 1
  BY <1>1
<1>4. Carries(r, x, t) <=> Carries(q, x, t) \/ (f.type = x /\ f.id = t)
  BY <1>1, <1>2, <1>3 DEF Carries
<1> QED
  BY <1>4 DEF r

\* A queue carries its head and what is behind it.
LEMMA CarriesTail ==
  ASSUME NEW S, NEW q \in Seq(S), q # <<>>, NEW x, NEW t
  PROVE  Carries(q, x, t) <=> Carries(Tail(q), x, t) \/ (Head(q).type = x /\ Head(q).id = t)
<1> DEFINE r == Tail(q)
<1>1. /\ Len(r) = Len(q) - 1 /\ Len(q) \in Nat \ {0} /\ Head(q) = q[1]
      /\ \A i \in 1..Len(r) : r[i] = q[i + 1]
  BY SeqTail
<1> HIDE DEF r
<1>2. 1 \in 1..Len(q) /\ \A i \in 1..Len(r) : i + 1 \in 1..Len(q)
  BY <1>1
<1>3. \A i \in 1..Len(q) : i = 1 \/ (i - 1 \in 1..Len(r) /\ r[i - 1] = q[i])
  BY <1>1
<1>4. Carries(q, x, t) <=> Carries(r, x, t) \/ (Head(q).type = x /\ Head(q).id = t)
  BY <1>1, <1>2, <1>3 DEF Carries
<1> QED
  BY <1>4 DEF r

\* sendControlFrame adds its frame to what the client is to see, or gives up.
LEMMA SendSent ==
  ASSUME QueueType, NEW f \in Frames, SendControlFrame(f), UNCHANGED down
  PROVE  \/ \A x, t : Sent(x, t)' <=> Sent(x, t) \/ (f.type = x /\ f.id = t)
         \/ closed /\ \A x, t : Sent(x, t)' <=> Sent(x, t)
<1>1. CASE controlQueue' = Append(controlQueue, f)
  <2>1. ASSUME NEW x, NEW t
        PROVE  Carries(controlQueue', x, t) <=> Carries(controlQueue, x, t) \/ (f.type = x /\ f.id = t)
    BY <1>1, CarriesAppend DEF QueueType
  <2> QED
    BY <2>1 DEF Sent
<1>2. CASE closed /\ UNCHANGED controlQueue
  BY <1>2 DEF Sent
<1> QED
  BY <1>1, <1>2 DEF SendControlFrame

\* The writer loop changes nothing of it.
LEMMA WriteHeadSent ==
  ASSUME QueueType, WriteHead
  PROVE  \A x, t : Sent(x, t)' <=> Sent(x, t)
<1>1. ASSUME NEW x, NEW t PROVE Sent(x, t)' <=> Sent(x, t)
  <2>1. Head(controlQueue) \in Frames
    BY SeqTail DEF QueueType, WriteHead
  <2>2. Carries(controlQueue, x, t) <=>
          Carries(controlQueue', x, t) \/ (Head(controlQueue).type = x /\ Head(controlQueue).id = t)
    BY CarriesTail DEF QueueType, WriteHead
  <2>3. Carries(down', x, t) <=>
          Carries(down, x, t) \/ (Head(controlQueue).type = x /\ Head(controlQueue).id = t)
    BY <2>1, CarriesAppend DEF QueueType, WriteHead
  <2> QED
    BY <2>2, <2>3 DEF Sent
<1> QED
  BY <1>1

\* DATA is no control frame.
LEMMA WriteDataSent ==
  ASSUME QueueType, NEW f \in Frames, f.type = "DATA", down' = Append(down, f), UNCHANGED controlQueue
  PROVE  \A x, t : x # "DATA" => (Sent(x, t)' <=> Sent(x, t))
<1>1. ASSUME NEW x, NEW t, x # "DATA" PROVE Sent(x, t)' <=> Sent(x, t)
  <2>1. Carries(down', x, t) <=> Carries(down, x, t) \/ (f.type = x /\ f.id = t)
    BY CarriesAppend DEF QueueType
  <2> QED
    BY <1>1, <2>1 DEF Sent
<1> QED
  BY <1>1

\* The client takes a frame.
LEMMA TakeSent ==
  ASSUME QueueType, down # <<>>, down' = Tail(down), UNCHANGED controlQueue
  PROVE  \A x, t : Sent(x, t) <=> Sent(x, t)' \/ (Head(down).type = x /\ Head(down).id = t)
<1>1. ASSUME NEW x, NEW t
      PROVE  Sent(x, t) <=> Sent(x, t)' \/ (Head(down).type = x /\ Head(down).id = t)
  <2>1. Carries(down, x, t) <=> Carries(down', x, t) \/ (Head(down).type = x /\ Head(down).id = t)
    BY CarriesTail DEF QueueType
  <2> QED
    BY <2>1 DEF Sent
<1> QED
  BY <1>1

\* The client's answers.
UpFrames == [type : {"CLOSE", "RESET"}, id : Ids]

\* A CLOSE or RESET of a stream is one.
LEMMA UpFrameOK ==
  ASSUME NEW x \in {"CLOSE", "RESET"}, NEW s \in Ids
  PROVE  Frame(x, s) \in UpFrames /\ Frame(x, s).type = x /\ Frame(x, s).id = s
  BY DEF Frame, UpFrames

\* The client sends one.
LEMMA UpAppend ==
  ASSUME EndsType, NEW y \in {"CLOSE", "RESET"}, NEW s \in Ids, up' = Append(up, Frame(y, s))
  PROVE  /\ up' \in Seq(UpFrames)
         /\ \A x, t : Carries(up', x, t) <=> Carries(up, x, t) \/ (x = y /\ t = s)
<1>1. Frame(y, s) \in UpFrames /\ Frame(y, s).type = y /\ Frame(y, s).id = s /\ up \in Seq(UpFrames)
  BY UpFrameOK DEF EndsType, UpFrames
<1>2. up' \in Seq(UpFrames)
  BY <1>1, SeqAppend
<1>3. \A x, t : Carries(up', x, t) <=> Carries(up, x, t) \/ (x = y /\ t = s)
  <2>1. ASSUME NEW x, NEW t PROVE Carries(up', x, t) <=> Carries(up, x, t) \/ (x = y /\ t = s)
    BY <1>1, CarriesAppend
  <2> QED
    BY <2>1
<1> QED
  BY <1>2, <1>3

\* The server takes one.
LEMMA UpTail ==
  ASSUME EndsType, up # <<>>, up' = Tail(up)
  PROVE  /\ up' \in Seq(UpFrames) /\ Head(up).id \in Ids /\ Head(up).type \in {"CLOSE", "RESET"}
         /\ \A x, t : Carries(up, x, t) <=> Carries(up', x, t) \/ (Head(up).type = x /\ Head(up).id = t)
<1>1. up \in Seq(UpFrames)
  BY DEF EndsType, UpFrames
<1>2. up' \in Seq(UpFrames) /\ Head(up) \in UpFrames
  BY <1>1, SeqTail
<1>3. \A x, t : Carries(up, x, t) <=> Carries(up', x, t) \/ (Head(up).type = x /\ Head(up).id = t)
  <2>1. ASSUME NEW x, NEW t
        PROVE  Carries(up, x, t) <=> Carries(up', x, t) \/ (Head(up).type = x /\ Head(up).id = t)
    BY <1>1, CarriesTail
  <2> QED
    BY <2>1
<1> QED
  BY <1>2, <1>3 DEF UpFrames
-----------------------------------------------------------------------------
(* One stream *)

\* What TablesInv says of it.
Good(t) == ServerEnd(t) /\ ClientEnd(t) /\ (Healthy /\ state[t] # "none" => Mirrored(t))

\* What a step leaves alone of it: at the server, ...
ServerSame(t) ==
  /\ state'[t] = state[t] /\ clPc'[t] = clPc[t] /\ highestOpened' = highestOpened
  /\ t \in streams' <=> t \in streams
  /\ t \in survivors' => t \in survivors
\* ...in Drain, ...
DrainSame(t) ==
  /\ (drPc' = "retire" /\ sweeping' = t) <=> (drPc = "retire" /\ sweeping = t)
  /\ (drPc' = "reset_send" /\ sweeping' = t) <=> (drPc = "reset_send" /\ sweeping = t)
\* ...of the frames on their way, ...
DownSame(t) ==
  /\ Sent("CLOSE", t)' <=> Sent("CLOSE", t)
  /\ Sent("RESET", t)' <=> Sent("RESET", t)
UpSame(t) ==
  /\ Carries(up', "CLOSE", t) <=> Carries(up, "CLOSE", t)
  /\ Carries(up', "RESET", t) <=> Carries(up, "RESET", t)
\* ...and at the client.
ClientSame(t) ==
  /\ cState'[t] = cState[t] /\ cHighest' = cHighest
  /\ t \in cStreams' <=> t \in cStreams

\* A step that leaves it alone.
LEMMA GoodKept ==
  ASSUME NEW t \in Ids, Good(t), ServerSame(t), DrainSame(t), DownSame(t), UpSame(t), ClientSame(t),
         Healthy' /\ OpenDue(t) => OpenDue(t)', Healthy' => Healthy
  PROVE  Good(t)'
<1>1. CloseDue(t)' <=> CloseDue(t)
  BY DEF ServerSame, DownSame, CloseDue
<1>2. ResetDue(t)' <=> ResetDue(t)
  BY DEF ServerSame, DrainSame, DownSame, ResetDue
<1>3. ServerEnd(t)'
  BY <1>1, <1>2 DEF Good, ServerEnd, ServerSame, DrainSame, DownSame
<1>4. ClientEnd(t)'
  BY DEF Good, ClientEnd, ClientSame, UpSame
<1>5. ASSUME Healthy', state'[t] # "none" PROVE Mirrored(t)'
  <2>1. Mirrored(t) /\ (OpenDue(t) => OpenDue(t)')
    BY <1>5 DEF Good, ServerSame
  <2>2. ClientView(t)' = ClientView(t)
    BY DEF ClientView, ClientSame
  <2> QED
    BY <1>1, <1>2, <2>1, <2>2 DEF Mirrored, ServerSame, ClientSame, UpSame
<1> QED
  BY <1>3, <1>4, <1>5 DEF Good

\* The openers' ids, apart from the frames on their way.
OpenerIds ==
  /\ nextStreamID = 2 * Cardinality(HasId) + 1
  /\ nextStreamID \in {1, highestOpened + 2}
  /\ \A o \in Openers : opPc[o] \notin {"enqueue", "opened"} => opId[o] = None
  /\ \A o \in Openers : opId[o] # None => opId[o] \in Ids /\ opId[o] <= highestOpened

\* CountInv is about the openers, and about the OPENs on their way.
LEMMA CountParts == CountInv <=> OpenerIds /\ \A t : Sent("OPEN", t) => t \in Ids
  BY DEF CountInv, OpenerIds, Sent, Carries

\* No step but allocateStreamLocked gives out an id.
LEMMA CountKept ==
  ASSUME CountInv, UNCHANGED <<nextStreamID, highestOpened, opId>>,
         \A o \in Openers : opPc'[o] \notin {"enqueue", "opened"} => opPc[o] \notin {"enqueue", "opened"},
         \A t : Sent("OPEN", t)' => Sent("OPEN", t)
  PROVE  CountInv'
<1>1. OpenerIds /\ \A t : Sent("OPEN", t) => t \in Ids
  BY CountParts
<1>2. HasId' = HasId
  BY DEF HasId
<1>3. OpenerIds'
  BY <1>1, <1>2 DEF OpenerIds
<1>4. \A t : Sent("OPEN", t)' => t \in Ids
  BY <1>1
<1>5. CountInv' <=> OpenerIds' /\ \A t : Sent("OPEN", t)' => t \in Ids
  BY DEF CountInv, OpenerIds, Sent, Carries
<1> QED
  BY <1>3, <1>4, <1>5

\* Queues that do not move.
LEMMA QueuesSame ==
  ASSUME UNCHANGED <<controlQueue, down>>
  PROVE  \A x, t : Sent(x, t)' <=> Sent(x, t)
  BY DEF Sent

\* An OPEN stays due.
LEMMA OpenDueKept ==
  ASSUME NEW t, UNCHANGED opId, \A o \in Openers : opPc[o] = "enqueue" => opPc'[o] = "enqueue",
         Sent("OPEN", t) => Sent("OPEN", t)'
  PROVE  OpenDue(t) => OpenDue(t)'
  BY DEF OpenDue

\* The parts of the two invariants.
Parts ==
  /\ IdType /\ QueueType /\ OpenerType /\ OtherType /\ AllocInv /\ OrderInv
  /\ EndsType /\ CountInv
  /\ closed => ~Healthy
  /\ drPc \in {"retire", "reset_send"} => sweeping \in Ids
  /\ \A t \in Ids : Good(t)

\* ...follow from them.
LEMMA PartsOf == OpenInv /\ TablesInv => Parts
  BY DEF OpenInv, TypeOK, TablesInv, EndsInv, MirrorInv, Parts, Good, Healthy

\* The table invariant, stream by stream.
LEMMA TablesFrom ==
  ASSUME EndsType', CountInv', closed' => ~Healthy', drPc' \in {"retire", "reset_send"} => sweeping' \in Ids,
         \A t \in Ids : Good(t)'
  PROVE  TablesInv'
<1>1. \A t \in Ids : ServerEnd(t)' /\ ClientEnd(t)' /\ (Healthy' /\ state'[t] # "none" => Mirrored(t)')
  BY DEF Good
<1>2. EndsInv'
  BY <1>1 DEF EndsInv, Healthy
<1>3. MirrorInv'
  BY <1>1 DEF MirrorInv
<1> QED
  BY <1>2, <1>3 DEF TablesInv

\* The ids there are below the one given out next.
LEMMA IdsBelow ==
  ASSUME IdType, CountInv, NEW t \in Ids, t < nextStreamID
  PROVE  t <= highestOpened
<1>1. PICK k \in 1..Cardinality(Openers) : t = 2 * k - 1
  BY DEF Ids
<1>2. Cardinality(Openers) \in Nat /\ k \in Nat \ {0}
  BY <1>1, IdsNat
<1>3. Cardinality(HasId) \in Nat
  <2>1. IsFiniteSet(HasId)
    BY MuxAssumption, FS_Subset DEF HasId
  <2> QED
    BY <2>1, FS_CardinalityType
<1>4. nextStreamID = 2 * Cardinality(HasId) + 1 /\ nextStreamID \in {1, highestOpened + 2} /\ highestOpened \in Nat
  BY DEF CountInv, IdType
<1> QED
  BY <1>1, <1>2, <1>3, <1>4

\* There is an id for every opener.
LEMMA IdLeft ==
  ASSUME IdType, OpenerType, CountInv, NEW o \in Openers, opPc[o] = "allocate"
  PROVE  /\ nextStreamID \in Ids /\ o \notin HasId
         /\ Cardinality(HasId \cup {o}) = Cardinality(HasId) + 1
<1>1. IsFiniteSet(Openers) /\ HasId \subseteq Openers /\ HasId # Openers /\ o \notin HasId
  BY MuxAssumption DEF HasId, CountInv
<1>2. IsFiniteSet(HasId) /\ Cardinality(HasId) <= Cardinality(Openers)
  BY <1>1, FS_Subset
<1>3. Cardinality(HasId) # Cardinality(Openers)
  BY <1>1, FS_Subset
<1>4. Cardinality(HasId) \in Nat /\ Cardinality(Openers) \in Nat
  BY <1>1, <1>2, FS_CardinalityType
<1>5. Cardinality(HasId) + 1 \in 1..Cardinality(Openers)
  BY <1>2, <1>3, <1>4
<1>6. nextStreamID = 2 * (Cardinality(HasId) + 1) - 1
  BY <1>4 DEF CountInv
<1>7. nextStreamID \in Ids
  BY <1>5, <1>6 DEF Ids
<1>8. Cardinality(HasId \cup {o}) = Cardinality(HasId) + 1
  BY <1>1, <1>2, FS_AddElement
<1> QED
  BY <1>1, <1>7, <1>8
-----------------------------------------------------------------------------
(* TablesInv is inductive *)

\* No stream, no frame.
LEMMA TablesInit == Init => TablesInv
<1> SUFFICES ASSUME Init PROVE TablesInv
  OBVIOUS
<1>1. EndsType
  <2>1. up \in Seq([type : {"CLOSE", "RESET"}, id : Ids])
    BY DEF Init
  <2>2. /\ state \in [Ids -> StreamStates] /\ cState \in [Ids -> StreamStates]
        /\ clPc \in [Ids -> {"idle", "close_retire", "reset_retire", "close_send", "reset_send"}]
    BY DEF Init, StreamStates
  <2>3. /\ streams \subseteq Ids /\ cStreams \subseteq Ids /\ survivors \subseteq Ids
        /\ sweeping \in Ids \cup {None} /\ closed \in BOOLEAN
    BY DEF Init
  <2> QED
    BY <2>1, <2>2, <2>3 DEF EndsType
<1>2. CountInv
  <2>1. HasId = {}
    BY DEF Init, HasId
  <2>2. Cardinality(HasId) = 0
    BY <2>1, FS_EmptySet
  <2> QED
    BY <2>2 DEF Init, CountInv
<1>3. ASSUME NEW s \in Ids PROVE ServerEnd(s) /\ ClientEnd(s) /\ state[s] = "none"
  <2>1. s \in Nat /\ s > 0
    BY IdsNat
  <2>2. \A x : ~Sent(x, s) /\ ~Carries(up, x, s)
    BY DEF Init, Sent, Carries
  <2> QED
    BY <2>1, <2>2, MuxAssumption DEF Init, ServerEnd, ClientEnd, CloseDue, ResetDue, None
<1>4. EndsInv
  BY <1>3 DEF Init, EndsInv
<1>5. MirrorInv
  BY <1>3 DEF MirrorInv
<1> QED
  BY <1>1, <1>2, <1>4, <1>5 DEF TablesInv

\* The steps of writers and of the rotation leave both tables alone.
tableVars == <<nextStreamID, highestOpened, streams, connErr, closed, state, clPc, cStreams, cState, cHighest,
               up, drPc, survivors, sweeping, controlQueue, down, opPc, opId>>

\* Nothing the invariant is about has changed.
LEMMA TablesKept ==
  ASSUME Parts, UNCHANGED tableVars
  PROVE  TablesInv'
<1>1. \A x, t : Sent(x, t)' <=> Sent(x, t)
  BY QueuesSame DEF tableVars
<1>2. EndsType'
  BY DEF Parts, EndsType, tableVars
<1>3. CountInv'
  BY <1>1, CountKept DEF Parts, tableVars
<1>4. Healthy' <=> Healthy
  BY DEF Healthy, tableVars
<1>5. ASSUME NEW t \in Ids PROVE Good(t)'
  <2>1. ServerSame(t) /\ DrainSame(t) /\ UpSame(t) /\ ClientSame(t)
    BY DEF tableVars, ServerSame, DrainSame, UpSame, ClientSame
  <2>2. DownSame(t)
    BY <1>1 DEF DownSame
  <2>3. OpenDue(t) => OpenDue(t)'
    BY <1>1, OpenDueKept DEF tableVars
  <2> QED
    BY <1>4, <2>1, <2>2, <2>3, GoodKept DEF Parts
<1> QED
  BY <1>2, <1>3, <1>4, <1>5, TablesFrom DEF Parts, tableVars

\* Nor do the looks of an OpenStream call at the table.
LEMMA OpenerMoves ==
  ASSUME Parts, UNCHANGED <<nextStreamID, highestOpened, streams, connErr, closed, state, clPc, clientVars,
                            up, drainVars, controlQueue, down, opId>>,
         \A o \in Openers : opPc[o] \in {"enqueue", "opened"} => opPc'[o] = opPc[o]
  PROVE  TablesInv'
<1>1. \A x, t : Sent(x, t)' <=> Sent(x, t)
  BY QueuesSame
<1>2. EndsType'
  BY DEF Parts, EndsType, drainVars, clientVars
<1>3. CountInv'
  BY <1>1, CountKept DEF Parts
<1>4. Healthy' <=> Healthy
  BY DEF Healthy
<1>5. ASSUME NEW t \in Ids PROVE Good(t)'
  <2>1. ServerSame(t) /\ DrainSame(t) /\ UpSame(t) /\ ClientSame(t)
    BY DEF drainVars, clientVars, ServerSame, DrainSame, UpSame, ClientSame
  <2>2. DownSame(t)
    BY <1>1 DEF DownSame
  <2>3. OpenDue(t) => OpenDue(t)'
    BY <1>1, OpenDueKept
  <2> QED
    BY <1>4, <2>1, <2>2, <2>3, GoodKept DEF Parts
<1> QED
  BY <1>2, <1>3, <1>4, <1>5, TablesFrom DEF Parts, drainVars

\* Neither end fails in a step that leaves connErr alone.
LEMMA ErrKept == ASSUME UNCHANGED connErr PROVE Healthy' <=> Healthy
  BY DEF Healthy

\* allocateStreamLocked: the new stream is open, its OPEN is due, and nothing is on its way
\* for it in either direction.
LEMMA AllocateTables ==
  ASSUME Parts, NEW o \in Openers, AllocateStream(o)
  PROVE  TablesInv'
<1>1. UNCHANGED <<connErr, closed, clPc, survivors, sweeping, down, up, controlQueue, cHighest, cStreams, cState>>
  BY DEF AllocateStream, clientVars
<1>2. (\A x, t : Sent(x, t)' <=> Sent(x, t)) /\ (Healthy' <=> Healthy)
  BY <1>1, QueuesSame, ErrKept
<1>3. CASE UNCHANGED <<nextStreamID, highestOpened, streams, openMu, state, opId>>
  <2>1. drPc' = drPc \/ (drPc = "idle" /\ drPc' = "called")
    BY <1>3 DEF AllocateStream, ExhaustedDrains
  <2>2. \A x \in Openers : opPc[x] \in {"enqueue", "opened"} => opPc'[x] = opPc[x]
    BY <1>3 DEF AllocateStream, Parts, OpenerType
  <2>3. CountInv'
    BY <1>2, <1>3, <2>2, CountKept DEF Parts
  <2>4. EndsType'
    BY <1>1, <1>3 DEF Parts, EndsType
  <2>5. ASSUME NEW t \in Ids PROVE Good(t)'
    <3>1. ServerSame(t) /\ UpSame(t) /\ ClientSame(t)
      BY <1>1, <1>3 DEF ServerSame, UpSame, ClientSame
    <3>2. DrainSame(t)
      BY <1>1, <2>1 DEF DrainSame
    <3>3. DownSame(t)
      BY <1>2 DEF DownSame
    <3>4. OpenDue(t) => OpenDue(t)'
      BY <1>2, <1>3, <2>2, OpenDueKept
    <3> QED
      BY <1>2, <3>1, <3>2, <3>3, <3>4, GoodKept DEF Parts
  <2> QED
    BY <1>1, <1>2, <2>1, <2>3, <2>4, <2>5, TablesFrom DEF Parts
<1>4. CASE /\ opId' = [opId EXCEPT ![o] = nextStreamID]
           /\ highestOpened' = nextStreamID
           /\ nextStreamID' = nextStreamID + 2
           /\ streams' = streams \cup {nextStreamID}
           /\ state' = [state EXCEPT ![nextStreamID] = "open"]
           /\ openMu' = o
           /\ opPc' = [opPc EXCEPT ![o] = "enqueue"]
           /\ UNCHANGED drPc
  <2>1. opPc[o] = "allocate" /\ openMu = None
    BY DEF AllocateStream, OpenMuFree
  <2>2. nextStreamID \in Ids /\ o \notin HasId /\ Cardinality(HasId \cup {o}) = Cardinality(HasId) + 1
    BY <2>1, IdLeft DEF Parts
  <2>3. /\ nextStreamID \in Nat /\ nextStreamID # None /\ highestOpened \in Nat /\ cHighest \in Nat
        /\ highestOpened < nextStreamID /\ cHighest <= highestOpened
    <3>1. /\ nextStreamID \in Nat /\ nextStreamID # None /\ highestOpened \in Nat /\ cHighest \in Nat
          /\ highestOpened < nextStreamID
      BY <2>2, IdsNat DEF Parts, IdType, AllocInv, None
    <3>2. cHighest < Newest /\ Newest = highestOpened + 1
      BY <2>1 DEF Parts, OrderInv, Newest
    <3> QED
      BY <3>1, <3>2
  <2>4. \A t \in Ids : t \in Nat /\ (t # nextStreamID => (t > nextStreamID <=> t > highestOpened))
    <3> SUFFICES ASSUME NEW t \in Ids, t # nextStreamID PROVE t > nextStreamID <=> t > highestOpened
      BY IdsNat
    <3>1. t \in Nat
      BY IdsNat
    <3>2. t < nextStreamID => t <= highestOpened
      BY IdsBelow DEF Parts
    <3> QED
      BY <2>3, <3>1, <3>2
  <2>5. CountInv'
    <3>1. OpenerIds /\ \A t : Sent("OPEN", t) => t \in Ids
      BY CountParts DEF Parts
    <3>2. /\ opId \in [Openers -> Nat]
          /\ opPc \in [Openers -> {"call", "check", "wait", "allocate", "enqueue", "opened", "failed", "cancelled"}]
      BY DEF Parts, OpenerType
    <3>3. HasId' = HasId \cup {o}
      BY <1>4, <2>3, <3>2 DEF HasId
    <3>4. Cardinality(HasId) \in Nat
      <4>1. IsFiniteSet(HasId)
        BY MuxAssumption, FS_Subset DEF HasId
      <4> QED
        BY <4>1, FS_CardinalityType
    <3>5. nextStreamID' = 2 * Cardinality(HasId') + 1
      BY <1>4, <2>2, <3>1, <3>3, <3>4 DEF OpenerIds
    <3>6. nextStreamID' \in {1, highestOpened' + 2}
      BY <1>4
    <3>7. \A x \in Openers : opPc'[x] \notin {"enqueue", "opened"} => opId'[x] = None
      BY <1>4, <3>1, <3>2 DEF OpenerIds
    <3>8. \A x \in Openers : opId'[x] # None => opId'[x] \in Ids /\ opId'[x] <= highestOpened'
      BY <1>4, <2>2, <2>3, <3>1, <3>2 DEF OpenerIds
    <3>9. OpenerIds'
      BY <3>5, <3>6, <3>7, <3>8 DEF OpenerIds
    <3>10. \A t : Sent("OPEN", t)' => t \in Ids
      BY <1>2, <3>1
    <3>11. CountInv' <=> OpenerIds' /\ \A t : Sent("OPEN", t)' => t \in Ids
      BY DEF CountInv, OpenerIds, Sent, Carries
    <3> QED
      BY <3>9, <3>10, <3>11
  <2>6. EndsType'
    BY <1>1, <1>4, <2>2 DEF Parts, EndsType, StreamStates
  <2>7. ASSUME NEW n \in Ids, n = nextStreamID PROVE Good(n)'
    <3>1. Good(n) /\ state[n] = "none" /\ n \notin cStreams
      BY <2>3, <2>7 DEF Parts, Good, ServerEnd, ClientEnd
    <3>2. ~CloseDue(n) /\ ~ResetDue(n) /\ clPc[n] # "close_retire"
      BY <3>1 DEF Good, ServerEnd, CloseDue
    <3>3. ~CloseDue(n)' /\ ~ResetDue(n)' /\ clPc'[n] # "close_retire"
      BY <1>1, <1>2, <1>4, <3>2 DEF CloseDue, ResetDue
    <3>4. state'[n] = "open" /\ n \in streams' /\ n <= highestOpened' /\ ~(n > highestOpened')
      BY <1>4, <2>3, <2>7 DEF Parts, EndsType
    <3>5. ServerEnd(n)'
      BY <3>3, <3>4 DEF ServerEnd, ResetDue
    <3>6. ClientEnd(n)'
      BY <1>1, <3>1 DEF Good, ClientEnd
    <3>7. OpenDue(n)'
      BY <1>4, <2>7 DEF OpenDue, Parts, OpenerType
    <3>8. ClientView(n)' = "open"
      BY <1>1, <2>3, <2>7 DEF ClientView
    <3> QED
      BY <3>4, <3>5, <3>6, <3>7, <3>8 DEF Good, Mirrored
  <2>8. ASSUME NEW t \in Ids, t # nextStreamID PROVE Good(t)'
    <3>1. state'[t] = state[t] /\ (t \in streams' <=> t \in streams) /\ (t > highestOpened' <=> t > highestOpened)
      BY <1>4, <2>4, <2>8 DEF Parts, EndsType
    <3>2. (t <= highestOpened => t <= highestOpened') /\ UpSame(t) /\ ClientSame(t)
      BY <1>1, <1>4, <2>3, <2>4 DEF UpSame, ClientSame
    <3>3. (CloseDue(t)' <=> CloseDue(t)) /\ (ResetDue(t)' <=> ResetDue(t))
      BY <1>1, <1>2, <1>4 DEF CloseDue, ResetDue
    <3>4. OpenDue(t) => OpenDue(t)'
      BY <1>2, <1>4, <2>1 DEF OpenDue, Parts, OpenerType
    <3>5. Good(t)
      BY DEF Parts
    <3>6. ServerEnd(t)'
      BY <1>1, <1>2, <1>4, <3>1, <3>2, <3>3, <3>5 DEF Good, ServerEnd
    <3>7. ClientEnd(t)'
      BY <3>2, <3>5 DEF Good, ClientEnd, UpSame, ClientSame
    <3>8. ASSUME Healthy', state'[t] # "none" PROVE Mirrored(t)'
      <4>1. Mirrored(t)
        BY <1>2, <3>1, <3>5, <3>8 DEF Good
      <4>2. ClientView(t)' = ClientView(t)
        BY <3>2 DEF ClientView, ClientSame
      <4> QED
        BY <3>1, <3>2, <3>3, <3>4, <4>1, <4>2 DEF Mirrored, ClientSame, UpSame
    <3> QED
      BY <3>6, <3>7, <3>8 DEF Good
  <2> QED
    BY <1>1, <1>2, <1>4, <2>5, <2>6, <2>7, <2>8, TablesFrom DEF Parts
<1> QED
  BY <1>3, <1>4 DEF AllocateStream

\* OPEN joins the control queue: it was due, and is on its way.
LEMMA EnqueueOpenTables ==
  ASSUME Parts, NEW o \in Openers, EnqueueOpen(o)
  PROVE  TablesInv'
<1>1. UNCHANGED <<nextStreamID, highestOpened, streams, connErr, closed, state, clPc, clientVars, up, drainVars, down, opId>>
  BY DEF EnqueueOpen, streamVars
<1>2. opPc[o] = "enqueue" /\ opPc' = [opPc EXCEPT ![o] = "opened"]
  BY DEF EnqueueOpen
<1>3. Frame("OPEN", opId[o]) \in Frames /\ Frame("OPEN", opId[o]).type = "OPEN" /\ Frame("OPEN", opId[o]).id = opId[o]
  BY FrameOK DEF Parts, OpenerType
<1>4. \/ \A x, t : Sent(x, t)' <=> Sent(x, t) \/ (x = "OPEN" /\ t = opId[o])
      \/ closed /\ \A x, t : Sent(x, t)' <=> Sent(x, t)
  BY <1>1, <1>3, SendSent DEF EnqueueOpen, Parts
<1>5. Healthy' <=> Healthy
  BY <1>1, ErrKept
<1>6. opId[o] \in Ids
  <2>1. opId[o] = highestOpened /\ cHighest < highestOpened /\ highestOpened \in Nat /\ cHighest \in Nat
    BY <1>2, MuxAssumption DEF Parts, AllocInv, OrderInv, Newest, None, IdType
  <2>2. opId[o] # None
    BY <2>1 DEF None
  <2> QED
    BY <2>2 DEF Parts, CountInv
<1>7. CountInv'
  <2>1. OpenerIds /\ \A t : Sent("OPEN", t) => t \in Ids
    BY CountParts DEF Parts
  <2>2. HasId' = HasId
    BY <1>1 DEF HasId
  <2>3. OpenerIds'
    BY <1>1, <1>2, <2>1, <2>2 DEF OpenerIds, Parts, OpenerType
  <2>4. \A t : Sent("OPEN", t)' => t \in Ids
    BY <1>4, <1>6, <2>1
  <2>5. CountInv' <=> OpenerIds' /\ \A t : Sent("OPEN", t)' => t \in Ids
    BY DEF CountInv, OpenerIds, Sent, Carries
  <2> QED
    BY <2>3, <2>4, <2>5
<1>8. EndsType'
  BY <1>1 DEF Parts, EndsType, drainVars, clientVars
<1>9. ASSUME NEW t \in Ids PROVE Good(t)'
  <2>1. ServerSame(t) /\ DrainSame(t) /\ UpSame(t) /\ ClientSame(t)
    BY <1>1 DEF ServerSame, DrainSame, UpSame, ClientSame, drainVars, clientVars
  <2>2. DownSame(t)
    BY <1>4 DEF DownSame
  <2>3. Healthy' /\ OpenDue(t) => OpenDue(t)'
    BY <1>1, <1>2, <1>4, <1>5 DEF OpenDue, Parts, OpenerType
  <2> QED
    BY <1>5, <2>1, <2>2, <2>3, GoodKept DEF Parts
<1> QED
  BY <1>1, <1>5, <1>7, <1>8, <1>9, TablesFrom DEF Parts, drainVars

\* CloseWrite: the half-close, and its CLOSE is due.
LEMMA CloseWriteTables ==
  ASSUME Parts, NEW s \in Ids, CloseWrite(s)
  PROVE  TablesInv'
<1>1. UNCHANGED <<nextStreamID, highestOpened, streams, connErr, closed, clientVars, up, drainVars,
                  controlQueue, down, opPc, opId>>
  BY DEF CloseWrite, connVars, openVars
<1>2. (\A x, t : Sent(x, t)' <=> Sent(x, t)) /\ (Healthy' <=> Healthy)
  BY <1>1, QueuesSame, ErrKept
<1>3. /\ state[s] \in {"open", "half_closed_remote"} /\ clPc[s] = "idle"
      /\ state' = [state EXCEPT ![s] = IF @ = "open" THEN "half_closed_local" ELSE "closed"]
      /\ clPc' = [clPc EXCEPT ![s] = IF state[s] = "open" THEN "close_send" ELSE "close_retire"]
  BY DEF CloseWrite
<1>4. CountInv'
  BY <1>1, <1>2, CountKept DEF Parts
<1>5. EndsType'
  BY <1>1, <1>3 DEF Parts, EndsType, StreamStates, drainVars, clientVars
<1>6. ASSUME NEW t \in Ids PROVE Good(t)'
  <2>1. DrainSame(t) /\ UpSame(t) /\ ClientSame(t)
    BY <1>1 DEF DrainSame, UpSame, ClientSame, drainVars, clientVars
  <2>2. DownSame(t)
    BY <1>2 DEF DownSame
  <2>3. OpenDue(t) => OpenDue(t)'
    BY <1>1, <1>2, OpenDueKept
  <2>4. Good(t)
    BY DEF Parts
  <2>5. CASE t # s
    <3>1. ServerSame(t)
      BY <1>1, <1>3, <2>5 DEF ServerSame, Parts, EndsType, drainVars
    <3> QED
      BY <1>2, <2>1, <2>2, <2>3, <2>4, <3>1, GoodKept
  <2>6. CASE t = s
    <3>1. /\ t \in streams' <=> t \in streams
          /\ t \in survivors' <=> t \in survivors
          /\ highestOpened' = highestOpened
      BY <1>1 DEF drainVars
    <3>2. \/ state[t] = "open" /\ state'[t] = "half_closed_local" /\ clPc'[t] = "close_send"
          \/ state[t] = "half_closed_remote" /\ state'[t] = "closed" /\ clPc'[t] = "close_retire"
      BY <1>3, <2>6 DEF Parts, EndsType
    <3>3. ~ResetDue(t) /\ ~CloseDue(t)
      BY <2>4, <3>2 DEF Good, ServerEnd
    <3>4. ~ResetDue(t)' /\ CloseDue(t)'
      BY <2>1, <2>2, <3>2, <3>3 DEF ResetDue, CloseDue, DrainSame, DownSame
    <3>5. ServerEnd(t)'
      BY <2>1, <2>2, <2>4, <3>1, <3>2, <3>3, <3>4 DEF Good, ServerEnd, ResetDue
    <3>6. ClientEnd(t)'
      BY <2>1, <2>4 DEF Good, ClientEnd, UpSame, ClientSame
    <3>7. ASSUME Healthy' PROVE Mirrored(t)'
      <4>1. Mirrored(t)
        BY <1>2, <2>4, <3>2, <3>7 DEF Good
      <4>2. ClientView(t)' = ClientView(t)
        BY <2>1 DEF ClientView, ClientSame
      <4>3. cState[t] \in StreamStates
        BY DEF Parts, EndsType
      <4> QED
        BY <2>1, <2>3, <3>2, <3>3, <3>4, <4>1, <4>2 DEF Mirrored, ClientSame, UpSame
    <3> QED
      BY <3>5, <3>6, <3>7 DEF Good
  <2> QED
    BY <2>5, <2>6
<1> QED
  BY <1>1, <1>2, <1>4, <1>5, <1>6, TablesFrom DEF Parts, drainVars

\* A stream is closed by a Reset, the application's or Drain's: its RESET is due.
LEMMA ClosedByReset ==
  ASSUME Parts, NEW t \in Ids, DownSame(t), UpSame(t), ClientSame(t), OpenDue(t) => OpenDue(t)',
         Healthy' => Healthy, state[t] # "closed", state[t] # "none", state'[t] = "closed",
         t \in streams' <=> t \in streams, t \in survivors' => t \in survivors, highestOpened' = highestOpened,
         \/ clPc'[t] = "reset_retire" /\ DrainSame(t)
         \/ clPc'[t] = clPc[t] /\ drPc' = "retire" /\ sweeping' = t
  PROVE  Good(t)'
<1>1. Good(t)
  BY DEF Parts
<1>2. ~ResetDue(t) /\ clPc[t] \notin {"close_retire", "reset_retire", "reset_send"}
  BY <1>1 DEF Good, ServerEnd, ResetDue
<1>3. ResetDue(t)'
  BY DEF ResetDue
<1>4. ServerEnd(t)'
  BY <1>1, <1>2, <1>3 DEF Good, ServerEnd, ResetDue, CloseDue, DownSame, DrainSame
<1>5. ClientEnd(t)'
  BY <1>1 DEF Good, ClientEnd, UpSame, ClientSame
<1>6. ASSUME Healthy' PROVE Mirrored(t)'
  <2>1. Mirrored(t)
    BY <1>1, <1>6 DEF Good
  <2> QED
    BY <1>3, <2>1 DEF Mirrored, ClientSame
<1> QED
  BY <1>4, <1>5, <1>6 DEF Good

\* An id the application has a stream for is one that was given out.
LEMMA OpenedIds ==
  ASSUME Parts, NEW s \in Ids, s \in Opened
  PROVE  state[s] # "none"
<1>1. PICK o \in Openers : opId[o] = s
  BY DEF Opened
<1>2. s # None /\ s \in Nat /\ highestOpened \in Nat
  BY IdsNat DEF None, Parts, IdType
<1>3. s <= highestOpened
  BY <1>1, <1>2 DEF Parts, CountInv
<1> QED
  BY <1>2, <1>3 DEF Parts, Good, ServerEnd

\* The application's Reset.
LEMMA ResetTables ==
  ASSUME Parts, NEW s \in Ids, Reset(s)
  PROVE  TablesInv'
<1>1. UNCHANGED <<nextStreamID, highestOpened, streams, connErr, closed, clientVars, up, drainVars,
                  controlQueue, down, opPc, opId>>
  BY DEF Reset, connVars, openVars
<1>2. (\A x, t : Sent(x, t)' <=> Sent(x, t)) /\ (Healthy' <=> Healthy)
  BY <1>1, QueuesSame, ErrKept
<1>3. /\ state[s] # "closed" /\ clPc[s] = "idle" /\ s \in Opened
      /\ state' = [state EXCEPT ![s] = "closed"] /\ clPc' = [clPc EXCEPT ![s] = "reset_retire"]
  BY DEF Reset
<1>4. CountInv'
  BY <1>1, <1>2, CountKept DEF Parts
<1>5. EndsType'
  BY <1>1, <1>3 DEF Parts, EndsType, StreamStates, drainVars, clientVars
<1>6. ASSUME NEW t \in Ids PROVE Good(t)'
  <2>1. DrainSame(t) /\ UpSame(t) /\ ClientSame(t)
    BY <1>1 DEF DrainSame, UpSame, ClientSame, drainVars, clientVars
  <2>2. DownSame(t)
    BY <1>2 DEF DownSame
  <2>3. OpenDue(t) => OpenDue(t)'
    BY <1>1, <1>2, OpenDueKept
  <2>5. CASE t # s
    <3>1. ServerSame(t)
      BY <1>1, <1>3, <2>5 DEF ServerSame, Parts, EndsType, drainVars
    <3> QED
      BY <1>2, <2>1, <2>2, <2>3, <3>1, GoodKept DEF Parts
  <2>6. CASE t = s
    <3>1. /\ t \in streams' <=> t \in streams
          /\ t \in survivors' <=> t \in survivors
          /\ highestOpened' = highestOpened
      BY <1>1 DEF drainVars
    <3>2. state[t] # "closed" /\ state[t] # "none" /\ state'[t] = "closed" /\ clPc'[t] = "reset_retire"
      BY <1>3, <2>6, OpenedIds DEF Parts, EndsType
    <3> QED
      BY <1>2, <2>1, <2>2, <2>3, <3>1, <3>2, ClosedByReset
  <2> QED
    BY <2>5, <2>6
<1> QED
  BY <1>1, <1>2, <1>4, <1>5, <1>6, TablesFrom DEF Parts, drainVars

\* retireStream wakes parked openers; no other opener moves.
LEMMA RetireOpeners ==
  ASSUME Parts, NEW s, RetireStream(s)
  PROVE  /\ streams' = streams \ {s}
         /\ \A o \in Openers : opPc[o] \in {"enqueue", "opened"} => opPc'[o] = opPc[o]
         /\ \A o \in Openers : opPc'[o] \notin {"enqueue", "opened"} => opPc[o] \notin {"enqueue", "opened"}
  BY DEF RetireStream, Parts, OpenerType

\* The entry of a closed stream goes before its frame is queued.
LEMMA RetireTables ==
  ASSUME Parts, NEW s \in Ids, Retire(s)
  PROVE  TablesInv'
<1>1. UNCHANGED <<nextStreamID, highestOpened, state, connErr, closed, clientVars, up, drainVars,
                  controlQueue, down, opId>>
  BY DEF Retire, streamVars
<1>2. (\A x, t : Sent(x, t)' <=> Sent(x, t)) /\ (Healthy' <=> Healthy)
  BY <1>1, QueuesSame, ErrKept
<1>3. /\ clPc[s] \in {"close_retire", "reset_retire"} /\ RetireStream(s)
      /\ clPc' = [clPc EXCEPT ![s] = IF @ = "close_retire" THEN "close_send" ELSE "reset_send"]
  BY DEF Retire
<1>4. /\ streams' = streams \ {s}
      /\ \A o \in Openers : opPc[o] \in {"enqueue", "opened"} => opPc'[o] = opPc[o]
      /\ \A o \in Openers : opPc'[o] \notin {"enqueue", "opened"} => opPc[o] \notin {"enqueue", "opened"}
  BY <1>3, RetireOpeners
<1>5. CountInv'
  BY <1>1, <1>2, <1>4, CountKept DEF Parts
<1>6. EndsType'
  BY <1>1, <1>3, <1>4 DEF Parts, EndsType, drainVars, clientVars
<1>7. ASSUME NEW t \in Ids PROVE Good(t)'
  <2>1. DrainSame(t) /\ UpSame(t) /\ ClientSame(t)
    BY <1>1 DEF DrainSame, UpSame, ClientSame, drainVars, clientVars
  <2>2. DownSame(t)
    BY <1>2 DEF DownSame
  <2>3. OpenDue(t) => OpenDue(t)'
    BY <1>1, <1>2, <1>4, OpenDueKept
  <2>4. Good(t)
    BY DEF Parts
  <2>5. CASE t # s
    <3>1. ServerSame(t)
      BY <1>1, <1>3, <1>4, <2>5 DEF ServerSame, Parts, EndsType, drainVars
    <3> QED
      BY <1>2, <2>1, <2>2, <2>3, <2>4, <3>1, GoodKept
  <2>6. CASE t = s
    <3>1. /\ t \notin streams' /\ state'[t] = state[t] /\ highestOpened' = highestOpened
          /\ t \in survivors' <=> t \in survivors
      BY <1>1, <1>4, <2>6 DEF drainVars
    <3>2. \/ clPc[t] = "close_retire" /\ clPc'[t] = "close_send"
          \/ clPc[t] = "reset_retire" /\ clPc'[t] = "reset_send"
      BY <1>3, <2>6 DEF Parts, EndsType
    <3>3. state[t] = "closed"
      BY <2>4, <3>2 DEF Good, ServerEnd, ResetDue
    <3>4. (CloseDue(t)' <=> CloseDue(t)) /\ (ResetDue(t)' <=> ResetDue(t))
      BY <2>1, <2>2, <3>2 DEF CloseDue, ResetDue, DrainSame, DownSame
    <3>5. ServerEnd(t)'
      BY <2>4, <3>1, <3>2, <3>3 DEF Good, ServerEnd
    <3>6. ClientEnd(t)'
      BY <2>1, <2>4 DEF Good, ClientEnd, UpSame, ClientSame
    <3>7. ASSUME Healthy' PROVE Mirrored(t)'
      <4>1. Mirrored(t)
        BY <1>2, <2>4, <3>3, <3>7 DEF Good
      <4>2. ClientView(t)' = ClientView(t)
        BY <2>1 DEF ClientView, ClientSame
      <4> QED
        BY <2>1, <2>3, <3>1, <3>4, <4>1, <4>2 DEF Mirrored, ClientSame, UpSame
    <3> QED
      BY <3>5, <3>6, <3>7 DEF Good
  <2> QED
    BY <2>5, <2>6
<1> QED
  BY <1>1, <1>2, <1>5, <1>6, <1>7, TablesFrom DEF Parts, drainVars

\* The frame that was due is on its way, or the connection is closed.
LEMMA SendCloseOrResetTables ==
  ASSUME Parts, NEW s \in Ids, SendCloseOrReset(s)
  PROVE  TablesInv'
<1>1. UNCHANGED <<nextStreamID, highestOpened, streams, state, connErr, closed, clientVars, up, drainVars,
                  down, opPc, opId>>
  BY DEF SendCloseOrReset, connVars, streamVars, openVars
<1>2. Healthy' <=> Healthy
  BY <1>1, ErrKept
<1>3. PICK y \in {"CLOSE", "RESET"} :
        /\ clPc[s] = IF y = "CLOSE" THEN "close_send" ELSE "reset_send"
        /\ SendControlFrame(Frame(y, s))
  BY DEF SendCloseOrReset
<1>4. clPc' = [clPc EXCEPT ![s] = "idle"]
  BY DEF SendCloseOrReset
<1>5. Frame(y, s) \in Frames /\ Frame(y, s).type = y /\ Frame(y, s).id = s
  BY FrameOK, IdsNat
<1>6. \/ \A x, t : Sent(x, t)' <=> Sent(x, t) \/ (x = y /\ t = s)
      \/ closed /\ \A x, t : Sent(x, t)' <=> Sent(x, t)
  BY <1>1, <1>3, <1>5, SendSent DEF Parts
<1>7. \A t : Sent("OPEN", t)' <=> Sent("OPEN", t)
  BY <1>6
<1>8. CountInv'
  BY <1>1, <1>7, CountKept DEF Parts
<1>9. EndsType'
  BY <1>1, <1>4 DEF Parts, EndsType, drainVars, clientVars
<1>10. ASSUME NEW t \in Ids PROVE Good(t)'
  <2>1. DrainSame(t) /\ UpSame(t) /\ ClientSame(t)
    BY <1>1 DEF DrainSame, UpSame, ClientSame, drainVars, clientVars
  <2>3. OpenDue(t) => OpenDue(t)'
    BY <1>1, <1>7, OpenDueKept
  <2>4. Good(t)
    BY DEF Parts
  <2>5. CASE t # s
    <3>1. ServerSame(t)
      BY <1>1, <1>4, <2>5 DEF ServerSame, Parts, EndsType, drainVars
    <3>2. DownSame(t)
      BY <1>6, <2>5 DEF DownSame
    <3> QED
      BY <1>2, <2>1, <2>3, <2>4, <3>1, <3>2, GoodKept
  <2>6. CASE t = s
    <3>1. /\ t \in streams' <=> t \in streams
          /\ state'[t] = state[t] /\ highestOpened' = highestOpened
          /\ t \in survivors' <=> t \in survivors
      BY <1>1 DEF drainVars
    <3>2. clPc'[t] = "idle"
      BY <1>4, <2>6 DEF Parts, EndsType
    <3>3. /\ Sent("CLOSE", t)' => CloseDue(t)
          /\ Sent("RESET", t)' => Sent("RESET", t) \/ clPc[t] = "reset_send"
          /\ CloseDue(t)' => CloseDue(t)
          /\ ResetDue(t)' => ResetDue(t)
      BY <1>3, <1>6, <2>1, <2>6, <3>2 DEF CloseDue, ResetDue, DrainSame
    <3>4. ASSUME Healthy' PROVE (CloseDue(t)' <=> CloseDue(t)) /\ (ResetDue(t)' <=> ResetDue(t))
      BY <1>2, <1>3, <1>6, <2>1, <2>6, <3>2, <3>3, <3>4 DEF CloseDue, ResetDue, DrainSame, Parts
    <3>5. ServerEnd(t)'
      <4>1. clPc[t] \in {"close_send", "reset_send"}
        BY <1>3, <2>6
      <4> QED
        BY <2>1, <2>4, <3>1, <3>2, <3>3, <4>1 DEF Good, ServerEnd, DrainSame
    <3>6. ClientEnd(t)'
      BY <2>1, <2>4 DEF Good, ClientEnd, UpSame, ClientSame
    <3>7. ASSUME Healthy', state'[t] # "none" PROVE Mirrored(t)'
      <4>1. Mirrored(t)
        BY <1>2, <2>4, <3>1, <3>7 DEF Good
      <4>2. ClientView(t)' = ClientView(t)
        BY <2>1 DEF ClientView, ClientSame
      <4> QED
        BY <2>1, <2>3, <3>1, <3>4, <3>7, <4>1, <4>2 DEF Mirrored, ClientSame, UpSame
    <3> QED
      BY <3>5, <3>6, <3>7 DEF Good
  <2> QED
    BY <2>5, <2>6
<1> QED
  BY <1>1, <1>2, <1>8, <1>9, <1>10, TablesFrom DEF Parts, drainVars

\* Steps of Drain that touch no stream: its mark, its DRAIN frame, the end of its wait and
\* its Close; and c.closed.
LEMMA DrainMoves ==
  ASSUME Parts,
         UNCHANGED <<nextStreamID, highestOpened, streams, state, clPc, clientVars, up, sweeping, opPc, opId>>,
         \A x, t : x # "DRAIN" => (Sent(x, t)' <=> Sent(x, t)),
         drPc' = drPc \/ (drPc \notin {"retire", "reset_send"} /\ drPc' \notin {"retire", "reset_send"}),
         survivors' \subseteq survivors \cup streams,
         Healthy' => Healthy, closed' \in BOOLEAN, closed' => ~Healthy'
  PROVE  TablesInv'
<1>1. CountInv'
  BY CountKept DEF Parts
<1>2. EndsType'
  BY DEF Parts, EndsType, clientVars
<1>3. ASSUME NEW t \in Ids PROVE Good(t)'
  <2>1. DrainSame(t) /\ UpSame(t) /\ ClientSame(t) /\ DownSame(t)
    BY DEF DrainSame, UpSame, ClientSame, DownSame, clientVars
  <2>2. OpenDue(t) => OpenDue(t)'
    BY OpenDueKept
  <2>3. Good(t)
    BY DEF Parts
  <2>4. CASE t \in survivors' => t \in survivors
    <3>1. ServerSame(t)
      BY <2>4 DEF ServerSame
    <3> QED
      BY <2>1, <2>2, <2>3, <3>1, GoodKept
  <2>5. CASE t \in streams
    <3>1. t <= highestOpened
      <4>1. t \in Nat /\ highestOpened \in Nat
        BY IdsNat DEF Parts, IdType
      <4> QED
        BY <2>3, <2>5, <4>1 DEF Good, ServerEnd
    <3>2. (CloseDue(t)' <=> CloseDue(t)) /\ (ResetDue(t)' <=> ResetDue(t))
      BY <2>1 DEF CloseDue, ResetDue, DrainSame, DownSame
    <3>3. ServerEnd(t)'
      BY <2>1, <2>3, <3>1, <3>2 DEF Good, ServerEnd, DrainSame, DownSame
    <3>4. ClientEnd(t)'
      BY <2>1, <2>3 DEF Good, ClientEnd, UpSame, ClientSame
    <3>5. ASSUME Healthy', state'[t] # "none" PROVE Mirrored(t)'
      <4>1. Mirrored(t)
        BY <2>3, <3>5 DEF Good
      <4>2. ClientView(t)' = ClientView(t)
        BY <2>1 DEF ClientView, ClientSame
      <4> QED
        BY <2>1, <2>2, <3>2, <4>1, <4>2 DEF Mirrored, ClientSame, UpSame
    <3> QED
      BY <3>3, <3>4, <3>5 DEF Good
  <2> QED
    BY <2>4, <2>5
<1> QED
  BY <1>1, <1>2, <1>3, TablesFrom DEF Parts

\* These steps, one by one.
LEMMA DrainTables ==
  ASSUME Parts, Drain \/ SendDrain \/ DrainWaitOver \/ DrainClose \/ ConnEnds
  PROVE  TablesInv'
<1>0. /\ closed \in BOOLEAN /\ (closed => ~Healthy)
      /\ connErr \in [server : Errors, client : Errors]
  BY DEF Parts, EndsType, OtherType
<1>1. CASE Drain
  <2>1. UNCHANGED <<nextStreamID, highestOpened, streams, state, clPc, clientVars, up, sweeping, opPc, opId,
                    controlQueue, down, connErr, closed, survivors>>
    BY <1>1 DEF Drain, streamVars, openVars
  <2>2. drPc \notin {"retire", "reset_send"} /\ drPc' \notin {"retire", "reset_send"}
    BY <1>1 DEF Drain
  <2> QED
    BY <1>0, <2>1, <2>2, QueuesSame, ErrKept, DrainMoves
<1>2. CASE SendDrain
  <2>1. UNCHANGED <<nextStreamID, highestOpened, streams, state, clPc, clientVars, up, sweeping, opPc, opId,
                    down, connErr, closed, survivors>>
    BY <1>2 DEF SendDrain, connVars, streamVars, openVars
  <2>2. drPc \notin {"retire", "reset_send"} /\ drPc' \notin {"retire", "reset_send"}
    BY <1>2 DEF SendDrain
  <2>3. Frame("DRAIN", announcedLastID) \in Frames /\ Frame("DRAIN", announcedLastID).type = "DRAIN"
    BY FrameOK DEF Parts, IdType
  <2>4. \A x, t : x # "DRAIN" => (Sent(x, t)' <=> Sent(x, t))
    BY <1>2, <2>1, <2>3, SendSent DEF SendDrain, Parts
  <2> QED
    BY <1>0, <2>1, <2>2, <2>4, ErrKept, DrainMoves
<1>3. CASE DrainWaitOver
  <2>1. UNCHANGED <<nextStreamID, highestOpened, streams, state, clPc, clientVars, up, sweeping, opPc, opId,
                    controlQueue, down, connErr, closed>>
    BY <1>3 DEF DrainWaitOver, connVars, streamVars, openVars
  <2>2. /\ drPc \notin {"retire", "reset_send"} /\ drPc' \notin {"retire", "reset_send"}
        /\ survivors' \subseteq survivors \cup streams
    BY <1>3 DEF DrainWaitOver
  <2> QED
    BY <1>0, <2>1, <2>2, QueuesSame, ErrKept, DrainMoves
<1>4. CASE DrainClose
  <2>1. UNCHANGED <<nextStreamID, highestOpened, streams, state, clPc, clientVars, up, sweeping, opPc, opId,
                    controlQueue, down, closed, survivors>>
    BY <1>4 DEF DrainClose, streamVars, openVars
  <2>2. drPc \notin {"retire", "reset_send"} /\ drPc' \notin {"retire", "reset_send"}
    BY <1>4 DEF DrainClose
  <2>3. ~Healthy'
    BY <1>0, <1>4 DEF DrainClose, Healthy
  <2> QED
    BY <1>0, <2>1, <2>2, <2>3, QueuesSame, DrainMoves
<1>5. CASE ConnEnds
  <2>1. UNCHANGED <<nextStreamID, highestOpened, streams, state, clPc, clientVars, up, sweeping, opPc, opId,
                    controlQueue, down, connErr, drPc, survivors>>
    BY <1>5 DEF ConnEnds, streamVars, openVars, drainVars
  <2>2. closed' = TRUE /\ ~Healthy
    BY <1>5 DEF ConnEnds, Healthy
  <2> QED
    BY <1>0, <2>1, <2>2, QueuesSame, ErrKept, DrainMoves
<1> QED
  BY <1>1, <1>2, <1>3, <1>4, <1>5

\* Drain resets a survivor that is not closed yet.
LEMMA ResetSurvivorTables ==
  ASSUME Parts, NEW s \in Ids, ResetSurvivor(s)
  PROVE  TablesInv'
<1>1. UNCHANGED <<nextStreamID, highestOpened, streams, connErr, closed, clPc, clientVars, up, controlQueue,
                  down, opPc, opId>>
  BY DEF ResetSurvivor, connVars, openVars
<1>2. (\A x, t : Sent(x, t)' <=> Sent(x, t)) /\ (Healthy' <=> Healthy)
  BY <1>1, QueuesSame, ErrKept
<1>3. drPc = "sweep" /\ s \in survivors /\ survivors' = survivors \ {s}
  BY DEF ResetSurvivor
<1>4. \/ UNCHANGED <<state, drPc, sweeping>>
      \/ /\ state[s] # "closed" /\ state' = [state EXCEPT ![s] = "closed"]
         /\ drPc' = "retire" /\ sweeping' = s
  BY DEF ResetSurvivor
<1>5. CountInv'
  BY <1>1, <1>2, CountKept DEF Parts
<1>6. EndsType'
  BY <1>1, <1>3, <1>4 DEF Parts, EndsType, StreamStates, clientVars
<1>7. ASSUME NEW t \in Ids PROVE Good(t)'
  <2>1. UpSame(t) /\ ClientSame(t)
    BY <1>1 DEF UpSame, ClientSame, clientVars
  <2>2. DownSame(t)
    BY <1>2 DEF DownSame
  <2>3. OpenDue(t) => OpenDue(t)'
    BY <1>1, <1>2, OpenDueKept
  <2>4. Good(t)
    BY DEF Parts
  <2>5. CASE t # s \/ UNCHANGED <<state, drPc, sweeping>>
    <3>1. ServerSame(t)
      BY <1>1, <1>3, <1>4, <2>5 DEF ServerSame, Parts, EndsType
    <3>2. DrainSame(t)
      BY <1>3, <1>4, <2>5 DEF DrainSame
    <3> QED
      BY <1>2, <2>1, <2>2, <2>3, <2>4, <3>1, <3>2, GoodKept
  <2>6. CASE t = s /\ state[s] # "closed" /\ state' = [state EXCEPT ![s] = "closed"]
             /\ drPc' = "retire" /\ sweeping' = s
    <3>1. /\ t \in streams' <=> t \in streams
          /\ t \in survivors' => t \in survivors
          /\ highestOpened' = highestOpened /\ clPc'[t] = clPc[t]
      BY <1>1, <1>3
    <3>2. t \in Nat /\ highestOpened \in Nat
      BY IdsNat DEF Parts, IdType
    <3>3. state[t] # "closed" /\ state[t] # "none" /\ state'[t] = "closed"
      BY <1>3, <2>4, <2>6, <3>2 DEF Good, ServerEnd, Parts, EndsType
    <3> QED
      BY <1>2, <2>1, <2>2, <2>3, <2>6, <3>1, <3>3, ClosedByReset
  <2> QED
    BY <1>4, <2>5, <2>6
<1> QED
  BY <1>1, <1>2, <1>4, <1>5, <1>6, <1>7, TablesFrom DEF Parts

\* ...retires it...
LEMMA RetireSurvivorTables ==
  ASSUME Parts, RetireSurvivor
  PROVE  TablesInv'
<1>1. UNCHANGED <<nextStreamID, highestOpened, state, connErr, closed, clPc, clientVars, up, survivors, sweeping,
                  controlQueue, down, opId>>
  BY DEF RetireSurvivor, streamVars
<1>2. (\A x, t : Sent(x, t)' <=> Sent(x, t)) /\ (Healthy' <=> Healthy)
  BY <1>1, QueuesSame, ErrKept
<1>3. drPc = "retire" /\ drPc' = "reset_send" /\ RetireStream(sweeping) /\ sweeping \in Ids
  BY DEF RetireSurvivor, Parts
<1>4. /\ streams' = streams \ {sweeping}
      /\ \A o \in Openers : opPc[o] \in {"enqueue", "opened"} => opPc'[o] = opPc[o]
      /\ \A o \in Openers : opPc'[o] \notin {"enqueue", "opened"} => opPc[o] \notin {"enqueue", "opened"}
  BY <1>3, RetireOpeners
<1>5. CountInv'
  BY <1>1, <1>2, <1>4, CountKept DEF Parts
<1>6. EndsType'
  BY <1>1, <1>3, <1>4 DEF Parts, EndsType, clientVars
<1>7. ASSUME NEW t \in Ids PROVE Good(t)'
  <2>1. UpSame(t) /\ ClientSame(t)
    BY <1>1 DEF UpSame, ClientSame, clientVars
  <2>2. DownSame(t)
    BY <1>2 DEF DownSame
  <2>3. OpenDue(t) => OpenDue(t)'
    BY <1>1, <1>2, <1>4, OpenDueKept
  <2>4. Good(t)
    BY DEF Parts
  <2>5. CASE t # sweeping
    <3>1. ServerSame(t)
      BY <1>1, <1>4, <2>5 DEF ServerSame
    <3>2. DrainSame(t)
      BY <1>1, <2>5 DEF DrainSame
    <3> QED
      BY <1>2, <2>1, <2>2, <2>3, <2>4, <3>1, <3>2, GoodKept
  <2>6. CASE t = sweeping
    <3>1. /\ t \notin streams' /\ state'[t] = state[t] /\ highestOpened' = highestOpened
          /\ t \in survivors' <=> t \in survivors
          /\ clPc'[t] = clPc[t]
      BY <1>1, <1>4, <2>6
    <3>2. ResetDue(t) /\ ResetDue(t)' /\ state[t] = "closed"
      BY <1>1, <1>3, <2>4, <2>6 DEF Good, ServerEnd, ResetDue
    <3>3. CloseDue(t)' <=> CloseDue(t)
      BY <2>2, <3>1 DEF CloseDue, DownSame
    <3>4. ServerEnd(t)'
      BY <2>4, <3>1, <3>2 DEF Good, ServerEnd
    <3>5. ClientEnd(t)'
      BY <2>1, <2>4 DEF Good, ClientEnd, UpSame, ClientSame
    <3>6. ASSUME Healthy' PROVE Mirrored(t)'
      <4>1. Mirrored(t)
        BY <1>2, <2>4, <3>2, <3>6 DEF Good
      <4> QED
        BY <2>1, <2>3, <3>1, <3>2, <4>1 DEF Mirrored, ClientSame
    <3> QED
      BY <3>4, <3>5, <3>6 DEF Good
  <2> QED
    BY <2>5, <2>6
<1> QED
  BY <1>1, <1>2, <1>3, <1>5, <1>6, <1>7, TablesFrom DEF Parts

\* ...and queues its RESET.
LEMMA SendSurvivorResetTables ==
  ASSUME Parts, SendSurvivorReset
  PROVE  TablesInv'
<1>1. UNCHANGED <<nextStreamID, highestOpened, streams, state, connErr, closed, clPc, clientVars, up, survivors,
                  down, opPc, opId>>
  BY DEF SendSurvivorReset, connVars, streamVars, openVars
<1>2. Healthy' <=> Healthy
  BY <1>1, ErrKept
<1>3. /\ drPc = "reset_send" /\ drPc' = "sweep" /\ sweeping \in Ids /\ sweeping' = None
      /\ SendControlFrame(Frame("RESET", sweeping))
  BY DEF SendSurvivorReset, Parts
<1>4. /\ Frame("RESET", sweeping) \in Frames
      /\ Frame("RESET", sweeping).type = "RESET" /\ Frame("RESET", sweeping).id = sweeping
  BY <1>3, FrameOK, IdsNat
<1>5. \/ \A x, t : Sent(x, t)' <=> Sent(x, t) \/ (x = "RESET" /\ t = sweeping)
      \/ closed /\ \A x, t : Sent(x, t)' <=> Sent(x, t)
  BY <1>1, <1>3, <1>4, SendSent DEF Parts
<1>6. \A t : /\ Sent("OPEN", t)' <=> Sent("OPEN", t)
             /\ Sent("CLOSE", t)' <=> Sent("CLOSE", t)
  BY <1>5
<1>7. CountInv'
  BY <1>1, <1>6, CountKept DEF Parts
<1>8. EndsType'
  BY <1>1, <1>3 DEF Parts, EndsType, clientVars
<1>9. ASSUME NEW t \in Ids PROVE Good(t)'
  <2>1. UpSame(t) /\ ClientSame(t)
    BY <1>1 DEF UpSame, ClientSame, clientVars
  <2>2. OpenDue(t) => OpenDue(t)'
    BY <1>1, <1>6, OpenDueKept
  <2>3. Good(t)
    BY DEF Parts
  <2>4. t # None
    BY IdsNat DEF None
  <2>5. CASE t # sweeping
    <3>1. ServerSame(t)
      BY <1>1 DEF ServerSame
    <3>2. DrainSame(t)
      BY <1>3, <2>5 DEF DrainSame
    <3>3. DownSame(t)
      BY <1>5, <2>5 DEF DownSame
    <3> QED
      BY <1>2, <2>1, <2>2, <2>3, <3>1, <3>2, <3>3, GoodKept
  <2>6. CASE t = sweeping
    <3>1. /\ t \notin streams' /\ state'[t] = state[t] /\ highestOpened' = highestOpened
          /\ t \in survivors' <=> t \in survivors
          /\ clPc'[t] = clPc[t] /\ state[t] = "closed" /\ t \notin streams
      BY <1>1, <1>3, <2>3, <2>6 DEF Good, ServerEnd, ResetDue
    <3>2. CloseDue(t)' <=> CloseDue(t)
      BY <1>6, <3>1 DEF CloseDue
    <3>3. Healthy' => ResetDue(t)'
      BY <1>2, <1>5, <2>6 DEF ResetDue, Parts
    <3>4. ServerEnd(t)'
      BY <2>3, <3>1, <3>2 DEF Good, ServerEnd
    <3>5. ClientEnd(t)'
      BY <2>1, <2>3 DEF Good, ClientEnd, UpSame, ClientSame
    <3>6. ASSUME Healthy' PROVE Mirrored(t)'
      <4>1. Mirrored(t)
        BY <1>2, <2>3, <3>1, <3>6 DEF Good
      <4> QED
        BY <2>1, <2>2, <3>1, <3>3, <3>6, <4>1 DEF Mirrored, ClientSame
    <3> QED
      BY <3>4, <3>5, <3>6 DEF Good
  <2> QED
    BY <2>5, <2>6
<1> QED
  BY <1>1, <1>2, <1>3, <1>7, <1>8, <1>9, TablesFrom DEF Parts

\* The writer loop moves frames from the control queue to the wire, DATA among them.
LEMMA WriterTables ==
  ASSUME Parts, UNCHANGED <<nextStreamID, highestOpened, streams, connErr, closed, state, clPc, clientVars, up,
                            drainVars, opPc, opId>>,
         \A x, t : x # "DATA" => (Sent(x, t)' <=> Sent(x, t))
  PROVE  TablesInv'
<1>1. /\ drPc' = drPc /\ sweeping' = sweeping /\ survivors' = survivors
      /\ closed \in BOOLEAN /\ (closed => ~Healthy)
  BY DEF drainVars, Parts, EndsType
<1>2. CountInv'
  BY CountKept DEF Parts
<1>3. EndsType'
  BY DEF Parts, EndsType, drainVars, clientVars
<1>4. Healthy' <=> Healthy
  BY ErrKept
<1>5. ASSUME NEW t \in Ids PROVE Good(t)'
  <2>1. ServerSame(t) /\ DrainSame(t) /\ DownSame(t) /\ UpSame(t) /\ ClientSame(t)
    BY <1>1 DEF ServerSame, DrainSame, DownSame, UpSame, ClientSame, clientVars
  <2>2. OpenDue(t) => OpenDue(t)'
    BY OpenDueKept
  <2> QED
    BY <1>4, <2>1, <2>2, GoodKept DEF Parts
<1> QED
  BY <1>1, <1>2, <1>3, <1>4, <1>5, TablesFrom DEF Parts

\* The steps of the loop that write.
LEMMA WriterLoopTables ==
  ASSUME Parts, TurnType, DrainControl \/ Select \/ WriteData
  PROVE  TablesInv'
<1>1. UNCHANGED <<nextStreamID, highestOpened, streams, connErr, closed, state, clPc, clientVars, up, drainVars, opPc, opId>>
  BY DEF DrainControl, Select, WriteData, connVars, streamVars, openVars
<1>2. CASE DrainControl \/ Select
  <2>1. WriteHead \/ UNCHANGED <<controlQueue, down>>
    BY <1>2 DEF DrainControl, Select
  <2>2. \A x, t : Sent(x, t)' <=> Sent(x, t)
    BY <2>1, WriteHeadSent, QueuesSame DEF Parts
  <2> QED
    BY <1>1, <2>2, WriterTables
<1>3. CASE WriteData
  <2>1. turn \in Nat /\ UNCHANGED controlQueue /\ down' = Append(down, Frame("DATA", turn))
    BY <1>3, IdsNat DEF WriteData, TurnType
  <2>2. Frame("DATA", turn) \in Frames /\ Frame("DATA", turn).type = "DATA"
    BY <2>1, FrameOK
  <2>3. \A x, t : x # "DATA" => (Sent(x, t)' <=> Sent(x, t))
    BY <2>1, <2>2, WriteDataSent DEF Parts
  <2> QED
    BY <1>1, <2>3, WriterTables
<1> QED
  BY <1>2, <1>3

\* The server reads a CLOSE: the half-close of an open stream, the end of one it has
\* half-closed itself, whose CLOSE is then due, or a duplicate, answered with RESET.
LEMMA HandleCloseTables ==
  ASSUME Parts, HandleClose
  PROVE  TablesInv'
<1>1. UNCHANGED <<nextStreamID, highestOpened, closed, clPc, clientVars, drainVars, down, opId>>
  BY DEF HandleClose
<1>2. /\ up # <<>> /\ Head(up).type = "CLOSE" /\ up' = Tail(up)
  BY DEF HandleClose, ServerDispatching
<1>3. PICK s \in Ids : s = Head(up).id
  BY <1>2, UpTail DEF Parts
<1>4. /\ up' \in Seq(UpFrames)
      /\ \A x, t : Carries(up, x, t) <=> Carries(up', x, t) \/ (x = "CLOSE" /\ t = s)
  BY <1>2, <1>3, UpTail DEF Parts
<1>5. Good(s) /\ Carries(up, "CLOSE", s) /\ s \in Nat /\ highestOpened \in Nat /\ cHighest \in Nat /\ s <= cHighest
  BY <1>4, IdsNat DEF Parts, Good, ClientEnd, IdType
<1>6. /\ state \in [Ids -> StreamStates] /\ streams \subseteq Ids /\ connErr \in [server : Errors, client : Errors]
      /\ up \in Seq(UpFrames)
  BY DEF Parts, EndsType, OtherType, UpFrames
<1>7. CASE UNCHANGED <<streams, state, opPc, controlQueue>>
  <2>1. s \notin streams
    <3>1. NeverOpened(s, highestOpened) \/ s \notin streams \/ state'[s] = AfterClose(state[s])
      BY <1>3, <1>6 DEF HandleClose
    <3>2. s > highestOpened => s \notin streams
      BY <1>5 DEF Good, ServerEnd
    <3>3. state[s] \in StreamStates
      BY <1>6
    <3>4. AfterClose(state[s]) # state[s] \/ state[s] = "closed"
      BY <3>3 DEF AfterClose, StreamStates
    <3>5. ASSUME s \in streams, state[s] = "closed" PROVE FALSE
      <4>1. ~NeverOpened(s, highestOpened)
        BY <3>2, <3>5 DEF NeverOpened
      <4>2. RetireStream(s)
        BY <1>3, <3>5, <4>1 DEF HandleClose, AfterClose
      <4> QED
        BY <1>7, <3>5, <4>2 DEF RetireStream
    <3> QED
      BY <1>7, <3>1, <3>2, <3>4, <3>5 DEF NeverOpened
  <2>2. (\A x, t : Sent(x, t)' <=> Sent(x, t)) /\ (Healthy' => Healthy)
    <3>1. UNCHANGED connErr \/ connErr' = [connErr EXCEPT !.server = IF @ = "none" THEN "never_opened" ELSE @]
      BY DEF HandleClose
    <3>2. Healthy' => Healthy
      BY <1>6, <3>1 DEF Healthy
    <3> QED
      BY <1>1, <1>7, <3>2, QueuesSame
  <2>3. CountInv'
    BY <1>1, <1>7, <2>2, CountKept DEF Parts
  <2>4. EndsType'
    BY <1>1, <1>4, <1>7 DEF Parts, EndsType, UpFrames, drainVars, clientVars
  <2>5. ASSUME NEW t \in Ids PROVE Good(t)'
    <3>1. ServerSame(t) /\ DrainSame(t) /\ ClientSame(t) /\ DownSame(t)
      BY <1>1, <1>7, <2>2 DEF ServerSame, DrainSame, ClientSame, DownSame, drainVars, clientVars
    <3>2. OpenDue(t) => OpenDue(t)'
      BY <1>1, <1>7, <2>2, OpenDueKept
    <3>3. Good(t)
      BY DEF Parts
    <3>4. CASE t # s
      <4>1. UpSame(t)
        BY <1>4, <3>4 DEF UpSame
      <4> QED
        BY <2>2, <3>1, <3>2, <3>3, <4>1, GoodKept
    <3>5. CASE t = s
      <4>1. (CloseDue(t)' <=> CloseDue(t)) /\ (ResetDue(t)' <=> ResetDue(t))
        BY <3>1 DEF CloseDue, ResetDue, ServerSame, DrainSame, DownSame
      <4>2. ServerEnd(t)'
        BY <3>1, <3>3, <4>1 DEF Good, ServerEnd, ServerSame, DrainSame, DownSame
      <4>3. ClientEnd(t)'
        BY <1>4, <3>1, <3>3 DEF Good, ClientEnd, ClientSame
      <4>4. ASSUME Healthy', state'[t] # "none" PROVE Mirrored(t)'
        <5>1. Mirrored(t)
          BY <2>2, <3>1, <3>3, <4>4 DEF Good, ServerSame
        <5>2. ClientView(t)' = ClientView(t)
          BY <3>1 DEF ClientView, ClientSame
        <5>3. state'[t] = state[t] /\ state[t] = "closed"
          BY <2>1, <3>1, <3>3, <3>5, <4>4 DEF Good, ServerEnd, ServerSame
        <5> QED
          BY <3>1, <3>2, <4>1, <5>1, <5>2, <5>3 DEF Mirrored, ClientSame
      <4> QED
        BY <4>2, <4>3, <4>4 DEF Good
    <3> QED
      BY <3>4, <3>5
  <2>6. closed' => ~Healthy'
    BY <1>1, <2>2 DEF Parts
  <2> QED
    BY <1>1, <2>3, <2>4, <2>5, <2>6, TablesFrom DEF Parts, drainVars
<1>8. CASE /\ s \in streams /\ UNCHANGED connErr
           /\ state' = [state EXCEPT ![s] = AfterClose(@)]
           /\ IF AfterClose(state[s]) = "closed" THEN RetireStream(s) ELSE UNCHANGED <<streams, opPc>>
           /\ IF state[s] = "half_closed_remote" THEN SendControlFrame(Frame("RESET", s)) ELSE UNCHANGED controlQueue
  <2>1. Healthy' <=> Healthy
    BY <1>8, ErrKept
  <2>2. /\ streams' = IF AfterClose(state[s]) = "closed" THEN streams \ {s} ELSE streams
        /\ \A o \in Openers : opPc[o] \in {"enqueue", "opened"} => opPc'[o] = opPc[o]
        /\ \A o \in Openers : opPc'[o] \notin {"enqueue", "opened"} => opPc[o] \notin {"enqueue", "opened"}
    BY <1>8, RetireOpeners
  <2>3. \/ /\ state[s] = "half_closed_remote"
           /\ \A x, t : Sent(x, t)' <=> Sent(x, t) \/ (x = "RESET" /\ t = s)
        \/ /\ state[s] # "half_closed_remote" \/ closed
           /\ \A x, t : Sent(x, t)' <=> Sent(x, t)
    <3>1. Frame("RESET", s) \in Frames /\ Frame("RESET", s).type = "RESET" /\ Frame("RESET", s).id = s
      BY <1>5, FrameOK
    <3> QED
      BY <1>1, <1>8, <3>1, SendSent, QueuesSame DEF Parts
  <2>4. \A t : /\ Sent("OPEN", t)' <=> Sent("OPEN", t)
               /\ Sent("CLOSE", t)' <=> Sent("CLOSE", t)
    BY <2>3
  <2>5. CountInv'
    BY <1>1, <2>2, <2>4, CountKept DEF Parts
  <2>6. EndsType'
    <3>1. AfterClose(state[s]) \in StreamStates
      BY DEF AfterClose, StreamStates
    <3> QED
      BY <1>1, <1>4, <1>6, <1>8, <2>2, <3>1 DEF Parts, EndsType, UpFrames, drainVars, clientVars
  <2>7. ASSUME NEW t \in Ids PROVE Good(t)'
    <3>1. DrainSame(t) /\ ClientSame(t)
      BY <1>1 DEF DrainSame, ClientSame, drainVars, clientVars
    <3>2. OpenDue(t) => OpenDue(t)'
      BY <1>1, <2>2, <2>4, OpenDueKept
    <3>3. Good(t)
      BY DEF Parts
    <3>4. CASE t # s
      <4>1. UpSame(t)
        BY <1>4, <3>4 DEF UpSame
      <4>2. DownSame(t)
        BY <2>3, <3>4 DEF DownSame
      <4>3. ServerSame(t)
        BY <1>1, <1>6, <1>8, <2>2, <3>4 DEF ServerSame, drainVars
      <4> QED
        BY <2>1, <3>1, <3>2, <3>3, <4>1, <4>2, <4>3, GoodKept
    <3>5. CASE t = s
      <4>1. /\ clPc'[t] = clPc[t] /\ highestOpened' = highestOpened
            /\ t \in survivors' <=> t \in survivors
        BY <1>1 DEF drainVars
      <4>2. /\ state'[t] = IF state[t] = "open" THEN "half_closed_remote" ELSE "closed"
            /\ t \in streams' <=> state[t] = "open"
        BY <1>6, <1>8, <2>2, <3>5 DEF AfterClose
      <4>3. t \in streams /\ state[t] # "none"
        BY <1>8, <3>3, <3>5 DEF Good, ServerEnd
      <4>4. CloseDue(t)' <=> CloseDue(t)
        BY <2>4, <4>1 DEF CloseDue
      <4>5. /\ Sent("RESET", t)' => Sent("RESET", t) \/ state[t] = "half_closed_remote"
            /\ ResetDue(t)' => ResetDue(t) \/ state[t] = "half_closed_remote"
            /\ ResetDue(t) => ResetDue(t)'
        BY <2>3, <3>1, <3>5, <4>1 DEF ResetDue, DrainSame
      <4>6. ServerEnd(t)'
        BY <2>4, <3>1, <3>3, <4>1, <4>2, <4>3, <4>4, <4>5 DEF Good, ServerEnd, DrainSame
      <4>7. ClientEnd(t)'
        BY <1>4, <3>1, <3>3 DEF Good, ClientEnd, ClientSame
      <4>8. ASSUME Healthy' PROVE Mirrored(t)'
        <5>1. Mirrored(t) /\ ~closed
          BY <2>1, <3>3, <4>3, <4>8 DEF Good, Parts
        <5>2. ClientView(t)' = ClientView(t) /\ ClientView(t) \in {"half_closed_local", "closed"}
          BY <1>5, <3>1, <3>5 DEF ClientView, ClientSame, Good, ClientEnd
        <5>3. state[t] = "half_closed_remote" => ResetDue(t)'
          BY <2>3, <3>5, <5>1 DEF ResetDue
        <5>4. Carries(up, "RESET", t) => Carries(up', "RESET", t)
          BY <1>4
        <5>5. ~(t > cHighest) /\ cHighest' = cHighest
          BY <1>5, <3>1, <3>5 DEF ClientSame
        <5> QED
          BY <4>2, <4>4, <4>5, <5>1, <5>2, <5>3, <5>4, <5>5 DEF Mirrored
      <4> QED
        BY <4>6, <4>7, <4>8 DEF Good
    <3> QED
      BY <3>4, <3>5
  <2> QED
    BY <1>1, <2>1, <2>5, <2>6, <2>7, TablesFrom DEF Parts, drainVars
<1> QED
  BY <1>3, <1>7, <1>8 DEF HandleClose

\* The server reads a RESET: the client has let go of the stream already.
LEMMA HandleResetTables ==
  ASSUME Parts, HandleReset
  PROVE  TablesInv'
<1>1. UNCHANGED <<nextStreamID, highestOpened, closed, clPc, clientVars, drainVars, controlQueue, down, opId>>
  BY DEF HandleReset
<1>2. /\ up # <<>> /\ Head(up).type = "RESET" /\ up' = Tail(up)
  BY DEF HandleReset, ServerDispatching
<1>3. PICK s \in Ids : s = Head(up).id
  BY <1>2, UpTail DEF Parts
<1>4. /\ up' \in Seq(UpFrames)
      /\ \A x, t : Carries(up, x, t) <=> Carries(up', x, t) \/ (x = "RESET" /\ t = s)
  BY <1>2, <1>3, UpTail DEF Parts
<1>5. Good(s) /\ Carries(up, "RESET", s) /\ s \notin cStreams /\ s \in Nat /\ highestOpened \in Nat
      /\ cHighest \in Nat /\ s <= cHighest
  BY <1>4, IdsNat DEF Parts, Good, ClientEnd, IdType
<1>6. /\ state \in [Ids -> StreamStates] /\ streams \subseteq Ids /\ connErr \in [server : Errors, client : Errors]
  BY DEF Parts, EndsType, OtherType
<1>7. UNCHANGED connErr \/ connErr' = [connErr EXCEPT !.server = IF @ = "none" THEN "never_opened" ELSE @]
  BY DEF HandleReset
<1>8. (\A x, t : Sent(x, t)' <=> Sent(x, t)) /\ (Healthy' => Healthy)
  <2>1. Healthy' => Healthy
    BY <1>6, <1>7 DEF Healthy
  <2> QED
    BY <1>1, <2>1, QueuesSame
<1>9. \/ s \notin streams /\ UNCHANGED <<streams, state, opPc>>
      \/ s \in streams /\ state' = [state EXCEPT ![s] = "closed"] /\ RetireStream(s)
  <2>1. s > highestOpened => s \notin streams
    BY <1>5 DEF Good, ServerEnd
  <2> QED
    BY <1>3, <2>1 DEF HandleReset, NeverOpened
<1>10. /\ streams' = streams \ {s}
       /\ \A o \in Openers : opPc[o] \in {"enqueue", "opened"} => opPc'[o] = opPc[o]
       /\ \A o \in Openers : opPc'[o] \notin {"enqueue", "opened"} => opPc[o] \notin {"enqueue", "opened"}
  BY <1>9, RetireOpeners
<1>11. CountInv'
  BY <1>1, <1>8, <1>10, CountKept DEF Parts
<1>12. EndsType'
  BY <1>1, <1>4, <1>6, <1>9, <1>10 DEF Parts, EndsType, StreamStates, UpFrames, drainVars, clientVars
<1>13. ASSUME NEW t \in Ids PROVE Good(t)'
  <2>1. DrainSame(t) /\ ClientSame(t) /\ DownSame(t)
    BY <1>1, <1>8 DEF DrainSame, ClientSame, DownSame, drainVars, clientVars
  <2>2. OpenDue(t) => OpenDue(t)'
    BY <1>1, <1>8, <1>10, OpenDueKept
  <2>3. Good(t)
    BY DEF Parts
  <2>4. CASE t # s
    <3>1. UpSame(t)
      BY <1>4, <2>4 DEF UpSame
    <3>2. ServerSame(t)
      BY <1>1, <1>6, <1>9, <1>10, <2>4 DEF ServerSame, drainVars
    <3> QED
      BY <1>8, <2>1, <2>2, <2>3, <3>1, <3>2, GoodKept
  <2>5. CASE t = s
    <3>1. /\ clPc'[t] = clPc[t] /\ highestOpened' = highestOpened /\ t \notin streams'
          /\ t \in survivors' <=> t \in survivors
      BY <1>1, <1>10, <2>5 DEF drainVars
    <3>2. \/ t \in streams /\ state[t] # "none" /\ state'[t] = "closed"
          \/ t \notin streams /\ state'[t] = state[t] /\ state[t] \in {"none", "closed"}
      BY <1>6, <1>9, <2>3, <2>5 DEF Good, ServerEnd
    <3>3. (CloseDue(t)' <=> CloseDue(t)) /\ (ResetDue(t)' <=> ResetDue(t))
      BY <2>1, <3>1 DEF CloseDue, ResetDue, DrainSame, DownSame
    <3>4. ServerEnd(t)'
      BY <2>1, <2>3, <3>1, <3>2, <3>3 DEF Good, ServerEnd, DrainSame, DownSame
    <3>5. ClientEnd(t)'
      BY <1>4, <2>1, <2>3 DEF Good, ClientEnd, ClientSame
    <3>6. ASSUME state'[t] # "none" PROVE Mirrored(t)'
      <4>1. ClientView(t)' = "closed" /\ ~(t > cHighest)' /\ state'[t] = "closed"
        BY <1>5, <2>1, <2>5, <3>2, <3>6 DEF ClientView, ClientSame
      <4> QED
        BY <4>1 DEF Mirrored
    <3> QED
      BY <3>4, <3>5, <3>6 DEF Good
  <2> QED
    BY <2>4, <2>5
<1>14. closed' => ~Healthy'
  BY <1>1, <1>8 DEF Parts
<1> QED
  BY <1>1, <1>11, <1>12, <1>13, <1>14, TablesFrom DEF Parts, drainVars

\* A step of the client leaves the server alone.
LEMMA ClientStep ==
  ASSUME Parts, UNCHANGED serverVars, \A x, t : Sent(x, t)' => Sent(x, t)
  PROVE  /\ UNCHANGED <<nextStreamID, highestOpened, streams, closed, state, clPc, drPc, survivors, sweeping, opPc, opId>>
         /\ CountInv'
         /\ \A t \in Ids : ServerEnd(t)'
         /\ \A t \in Ids : (CloseDue(t)' => CloseDue(t)) /\ (ResetDue(t)' => ResetDue(t))
<1>1. UNCHANGED <<nextStreamID, highestOpened, streams, closed, state, clPc, drPc, survivors, sweeping, opPc, opId>>
  BY DEF serverVars, streamVars, openVars, drainVars
<1>2. CountInv'
  BY <1>1, CountKept DEF Parts
<1>3. ASSUME NEW t \in Ids
      PROVE  ServerEnd(t)' /\ (CloseDue(t)' => CloseDue(t)) /\ (ResetDue(t)' => ResetDue(t))
  <2>1. (CloseDue(t)' => CloseDue(t)) /\ (ResetDue(t)' => ResetDue(t)) /\ (Sent("RESET", t)' => Sent("RESET", t))
    BY <1>1 DEF CloseDue, ResetDue
  <2>2. ServerEnd(t)
    BY DEF Parts, Good
  <2> QED
    BY <1>1, <2>1, <2>2 DEF ServerEnd
<1> QED
  BY <1>1, <1>2, <1>3

\* A stream that keeps its place at the client and what is due.
LEMMA ClientKeeps ==
  ASSUME Parts, NEW t \in Ids, UNCHANGED serverVars, \A x, y : Sent(x, y)' => Sent(x, y),
         UpSame(t), cState'[t] = cState[t], t \in cStreams' <=> t \in cStreams,
         cHighest' \in Nat, cHighest <= cHighest', t > cHighest /\ state[t] # "none" /\ Healthy' => t > cHighest',
         Healthy' => /\ Healthy /\ DownSame(t)
                     /\ t > cHighest => (Sent("OPEN", t) => Sent("OPEN", t)')
  PROVE  Good(t)'
<1>1. /\ UNCHANGED <<streams, state, clPc, drPc, sweeping, opPc, opId>>
      /\ ServerEnd(t)' /\ Good(t)
  BY ClientStep DEF Parts
<1>2. t \in Nat /\ cHighest \in Nat
  BY IdsNat DEF Parts, IdType
<1>3. ClientEnd(t)'
  BY <1>1, <1>2 DEF Good, ClientEnd, UpSame
<1>4. ASSUME Healthy', state'[t] # "none" PROVE Mirrored(t)'
  <2>1. Mirrored(t) /\ DownSame(t) /\ (t > cHighest' <=> t > cHighest)
    BY <1>1, <1>2, <1>4 DEF Good
  <2>2. ClientView(t)' = ClientView(t)
    BY <2>1 DEF ClientView
  <2>3. (CloseDue(t)' <=> CloseDue(t)) /\ (ResetDue(t)' <=> ResetDue(t))
    BY <1>1, <2>1 DEF CloseDue, ResetDue, DownSame
  <2>4. t > cHighest /\ OpenDue(t) => OpenDue(t)'
    BY <1>1, <1>4 DEF OpenDue
  <2> QED
    BY <1>1, <2>1, <2>2, <2>3, <2>4 DEF Mirrored, UpSame
<1> QED
  BY <1>1, <1>3, <1>4 DEF Good

\* The client lets go of a stream and says so.
LEMMA ClientLetsGo ==
  ASSUME Parts, NEW s \in Ids, s \in cStreams, UNCHANGED <<serverVars, cHighest>>, \A x, t : Sent(x, t)' => Sent(x, t),
         cState'[s] = "closed", s \notin cStreams', Carries(up', "RESET", s)
  PROVE  Good(s)'
<1>1. ServerEnd(s)' /\ s <= cHighest /\ s \in Nat /\ cHighest \in Nat /\ cHighest' = cHighest
  BY ClientStep, IdsNat DEF Parts, Good, ClientEnd, IdType
<1>2. ClientEnd(s)'
  BY <1>1 DEF ClientEnd
<1>3. Mirrored(s)'
  <2>1. ClientView(s)' = "closed" /\ ~(s > cHighest')
    BY <1>1 DEF ClientView
  <2> QED
    BY <2>1 DEF Mirrored
<1> QED
  BY <1>1, <1>2, <1>3 DEF Good

\* What it takes for the tables after a step of the client.
LEMMA ClientTables ==
  ASSUME Parts, UNCHANGED serverVars, \A x, t : Sent(x, t)' => Sent(x, t), Healthy' => Healthy,
         cState' \in [Ids -> StreamStates], cStreams' \subseteq Ids, up' \in Seq(UpFrames),
         \A t \in Ids : Good(t)'
  PROVE  TablesInv'
<1>1. UNCHANGED <<streams, closed, state, clPc, drPc, survivors, sweeping>> /\ CountInv'
  BY ClientStep
<1>2. EndsType'
  BY <1>1 DEF Parts, EndsType, UpFrames
<1>3. closed' => ~Healthy'
  BY <1>1 DEF Parts
<1> QED
  BY <1>1, <1>2, <1>3, TablesFrom DEF Parts

\* The client's types, and the frame at the head of the wire.
LEMMA ClientTypes ==
  ASSUME Parts
  PROVE  /\ cState \in [Ids -> StreamStates] /\ cStreams \subseteq Ids /\ up \in Seq(UpFrames)
         /\ connErr \in [server : Errors, client : Errors] /\ cHighest \in Nat /\ highestOpened \in Nat
  BY DEF Parts, EndsType, UpFrames, OtherType, IdType

\* An OPEN that the client takes is the first of those that are due.
LEMMA OpenIsFirst ==
  ASSUME Parts, Dispatching("OPEN")
  PROVE  LET id == Head(down).id IN
           /\ id \in Ids /\ id > cHighest /\ id <= highestOpened
           /\ \A t \in Ids : OpenDue(t) => t >= id
<1> DEFINE id == Head(down).id
<1>1. down # <<>> /\ Head(down).type = "OPEN"
  BY DEF Dispatching
<1>2. Head(down) = down[1] /\ 1 \in 1..Len(down) /\ Len(down) \in Nat \ {0} /\ down[1].id \in Nat
  <2>1. Head(down) = down[1] /\ Len(down) \in Nat \ {0}
    BY <1>1, SeqTail DEF Parts, QueueType
  <2> QED
    BY <2>1, FrameIds DEF Parts, QueueType
<1>3. id \in Ids
  BY <1>1, <1>2 DEF Parts, CountInv
<1>4. cHighest < id /\ id < Newest /\ id \in Nat /\ cHighest \in Nat /\ highestOpened \in Nat
  BY <1>1, <1>2 DEF Parts, OrderInv, IdType
<1>5. id <= highestOpened /\ Newest <= highestOpened + 1
  BY <1>4 DEF Newest
<1>6. ASSUME NEW t \in Ids, OpenDue(t) PROVE t >= id
  <2>1. t \in Nat
    BY IdsNat
  <2>2. CASE Carries(controlQueue, "OPEN", t)
    <3>1. PICK i \in 1..Len(controlQueue) : controlQueue[i].type = "OPEN" /\ controlQueue[i].id = t
      BY <2>2 DEF Carries
    <3>2. id < t
      BY <1>1, <1>2, <3>1 DEF Parts, OrderInv
    <3> QED
      BY <1>4, <2>1, <3>2
  <2>3. CASE Carries(down, "OPEN", t)
    <3>1. PICK i \in 1..Len(down) : down[i].type = "OPEN" /\ down[i].id = t
      BY <2>3 DEF Carries
    <3>2. i = 1 \/ 1 < i
      BY <3>1, <1>2
    <3>3. id = t \/ id < t
      BY <1>1, <1>2, <3>1, <3>2 DEF Parts, OrderInv
    <3> QED
      BY <1>4, <2>1, <3>3
  <2>4. CASE \E o \in Openers : opPc[o] = "enqueue" /\ opId[o] = t
    <3>1. PICK o \in Openers : opPc[o] = "enqueue" /\ opId[o] = t
      BY <2>4
    <3>2. openMu = o /\ t = highestOpened
      BY <3>1 DEF Parts, AllocInv
    <3> QED
      BY <1>4, <1>5, <3>2
  <2> QED
    BY <1>6, <2>2, <2>3, <2>4 DEF OpenDue, Sent
<1> QED
  BY <1>3, <1>4, <1>5, <1>6

\* The client reads an OPEN: the stream it took for open is open, or refused with RESET.
LEMMA RemoteOpenTables ==
  ASSUME Parts, HandleRemoteOpen
  PROVE  TablesInv'
<1>1. /\ Dispatching("OPEN") /\ down # <<>> /\ Head(down).type = "OPEN" /\ down' = Tail(down)
      /\ UNCHANGED serverVars /\ UNCHANGED controlQueue
  BY DEF HandleRemoteOpen, Dispatching, serverVars
<1>2. PICK id \in Ids : id = Head(down).id /\ id > cHighest /\ id <= highestOpened
                        /\ \A t \in Ids : OpenDue(t) => t >= id
  BY <1>1, OpenIsFirst
<1>3. \A x, t : Sent(x, t) <=> Sent(x, t)' \/ (x = "OPEN" /\ t = id)
  BY <1>1, <1>2, TakeSent DEF Parts
<1>4. /\ cState \in [Ids -> StreamStates] /\ cStreams \subseteq Ids /\ up \in Seq(UpFrames)
      /\ connErr \in [server : Errors, client : Errors] /\ cHighest \in Nat /\ highestOpened \in Nat /\ id \in Nat
  BY ClientTypes, IdsNat
<1>5. CASE \/ FailClient("open_not_increasing") /\ UNCHANGED <<up, cHighest, cStreams, cState, cRefused>>
           \/ FailClient("open_past_drain") /\ UNCHANGED <<up, cHighest, cStreams, cState, cRefused>>
  <2>1. ~Healthy'
    BY <1>4, <1>5 DEF FailClient, Healthy
  <2>2. ASSUME NEW t \in Ids PROVE Good(t)'
    BY <1>1, <1>3, <1>4, <1>5, <2>1, ClientKeeps DEF UpSame
  <2> QED
    BY <1>1, <1>3, <1>4, <1>5, <2>1, <2>2, ClientTables
<1>6. CASE /\ cHighest' = id
           /\ \/ /\ up' = Append(up, Frame("RESET", id)) /\ UNCHANGED <<cStreams, cState>>
              \/ /\ UNCHANGED up /\ cStreams' = cStreams \cup {id} /\ cState' = [cState EXCEPT ![id] = "open"]
           /\ UNCHANGED connErr \/ FailClient("enhance_your_calm")
  <2>1. Healthy' => Healthy
    BY <1>4, <1>6 DEF Healthy, FailClient
  <2>2. /\ up' \in Seq(UpFrames)
        /\ \A x, t : Carries(up', x, t) => Carries(up, x, t) \/ (x = "RESET" /\ t = id)
        /\ \A x, t : Carries(up, x, t) => Carries(up', x, t)
        /\ cStreams' = cStreams => Carries(up', "RESET", id)
        /\ cStreams' # cStreams => up' = up
    <3>1. CASE up' = Append(up, Frame("RESET", id)) /\ UNCHANGED <<cStreams, cState>>
      <4>1. /\ up' \in Seq(UpFrames)
            /\ \A x, t : Carries(up', x, t) <=> Carries(up, x, t) \/ (x = "RESET" /\ t = id)
        BY <3>1, UpAppend DEF Parts
      <4> QED
        BY <3>1, <4>1
    <3>2. CASE UNCHANGED up /\ cStreams' = cStreams \cup {id} /\ cState' = [cState EXCEPT ![id] = "open"]
      <4>1. id \notin cStreams
        BY <1>2, <1>4 DEF Parts, Good, ClientEnd
      <4> QED
        BY <1>4, <3>2, <4>1
    <3> QED
      BY <1>6, <3>1, <3>2
  <2>3. cState' \in [Ids -> StreamStates] /\ cStreams' \subseteq Ids
    BY <1>4, <1>6 DEF StreamStates
  <2>4. ASSUME NEW t \in Ids, t # id PROVE Good(t)'
    <3>1. UpSame(t) /\ cState'[t] = cState[t] /\ (t \in cStreams' <=> t \in cStreams)
      BY <1>4, <1>6, <2>2, <2>4 DEF UpSame
    <3>2. cHighest' \in Nat /\ cHighest <= cHighest'
      BY <1>2, <1>4, <1>6
    <3>3. ASSUME t > cHighest, state[t] # "none", Healthy' PROVE t > cHighest'
      <4>1. OpenDue(t)
        BY <2>1, <3>3 DEF Parts, Good, Mirrored
      <4>2. t >= id /\ t \in Nat
        BY <1>2, <4>1, IdsNat
      <4> QED
        BY <1>4, <1>6, <2>4, <4>2
    <3>4. DownSame(t) /\ (Sent("OPEN", t) => Sent("OPEN", t)')
      BY <1>3, <2>4 DEF DownSame
    <3> QED
      BY <1>1, <1>3, <2>1, <3>1, <3>2, <3>3, <3>4, ClientKeeps
  <2>5. Good(id)'
    <3>1. /\ UNCHANGED <<state, clPc, drPc, sweeping>> /\ ServerEnd(id)' /\ Good(id)
      BY <1>1, <1>3, ClientStep DEF Parts
    <3>2. (CloseDue(id)' <=> CloseDue(id)) /\ (ResetDue(id)' <=> ResetDue(id))
      BY <1>3, <3>1 DEF CloseDue, ResetDue
    <3>3. ~Carries(up, "CLOSE", id) /\ ~Carries(up, "RESET", id) /\ id \notin cStreams
          /\ ~(id <= cHighest)
      BY <1>2, <1>4, <3>1 DEF Good, ClientEnd
    <3>4. \/ cStreams' = cStreams /\ cState'[id] = cState[id]
          \/ id \in cStreams' /\ cState'[id] = "open" /\ up' = up
      BY <1>4, <1>6
    <3>5. ClientEnd(id)'
      BY <1>4, <1>6, <2>2, <3>1, <3>3, <3>4 DEF Good, ClientEnd
    <3>6. ASSUME Healthy' PROVE Mirrored(id)'
      <4>1. state[id] # "none"
        BY <1>2, <1>4, <3>1 DEF Good, ServerEnd
      <4>2. Mirrored(id) /\ ClientView(id) = "open"
        BY <1>2, <2>1, <3>1, <3>6, <4>1 DEF Good, ClientView
      <4>3. ~(id > cHighest')
        BY <1>4, <1>6
      <4>4. \/ ClientView(id)' = "open"
            \/ ClientView(id)' = "closed" /\ Carries(up', "RESET", id)
        BY <2>2, <3>3, <3>4, <4>3 DEF ClientView
      <4> QED
        BY <3>1, <3>2, <4>2, <4>3, <4>4 DEF Mirrored
    <3> QED
      BY <3>1, <3>5, <3>6 DEF Good
  <2> QED
    BY <1>1, <1>3, <2>1, <2>2, <2>3, <2>4, <2>5, ClientTables
<1> QED
  BY <1>2, <1>5, <1>6 DEF HandleRemoteOpen

\* DATA after the client let go of the stream, or after its CLOSE, which is answered with RESET.
LEMMA ClientDataTables ==
  ASSUME Parts, ClientData
  PROVE  TablesInv'
<1>1. /\ down # <<>> /\ Head(down).type = "DATA" /\ down' = Tail(down)
      /\ UNCHANGED serverVars /\ UNCHANGED controlQueue /\ UNCHANGED cHighest
  BY DEF ClientData, Dispatching, serverVars
<1>2. \A x, t : /\ Sent(x, t)' => Sent(x, t)
                /\ x # "DATA" => (Sent(x, t) <=> Sent(x, t)')
  <2>1. \A x, t : Sent(x, t) <=> Sent(x, t)' \/ (Head(down).type = x /\ Head(down).id = t)
    BY <1>1, TakeSent DEF Parts
  <2> QED
    BY <1>1, <2>1
<1>3. /\ cState \in [Ids -> StreamStates] /\ cStreams \subseteq Ids /\ up \in Seq(UpFrames)
      /\ connErr \in [server : Errors, client : Errors] /\ cHighest \in Nat
  BY ClientTypes
<1>4. Healthy' => Healthy
  <2>1. UNCHANGED connErr \/ FailClient("data_never_opened")
    BY DEF ClientData
  <2> QED
    BY <1>3, <2>1 DEF Healthy, FailClient
<1>5. ASSUME NEW t \in Ids, UpSame(t), cState'[t] = cState[t], t \in cStreams' <=> t \in cStreams PROVE Good(t)'
  <2>1. DownSame(t) /\ (Sent("OPEN", t) => Sent("OPEN", t)')
    BY <1>2 DEF DownSame
  <2> QED
    BY <1>1, <1>2, <1>3, <1>4, <1>5, <2>1, ClientKeeps
<1>6. CASE UNCHANGED <<cState, cStreams, up>>
  <2>1. \A t \in Ids : Good(t)'
    BY <1>5, <1>6 DEF UpSame
  <2> QED
    BY <1>1, <1>2, <1>3, <1>4, <1>6, <2>1, ClientTables
<1>7. CASE /\ Head(down).id \in cStreams
           /\ cState' = [cState EXCEPT ![Head(down).id] = "closed"] /\ cStreams' = cStreams \ {Head(down).id}
           /\ up' = Append(up, Frame("RESET", Head(down).id))
  <2>1. PICK s \in Ids : s = Head(down).id
    BY <1>3, <1>7
  <2>2. /\ up' \in Seq(UpFrames)
        /\ \A x, t : Carries(up', x, t) <=> Carries(up, x, t) \/ (x = "RESET" /\ t = s)
    BY <1>7, <2>1, UpAppend DEF Parts
  <2>3. cState' \in [Ids -> StreamStates] /\ cStreams' \subseteq Ids
    BY <1>3, <1>7 DEF StreamStates
  <2>4. ASSUME NEW t \in Ids, t # s PROVE Good(t)'
    BY <1>3, <1>5, <1>7, <2>1, <2>2, <2>4 DEF UpSame
  <2>5. Good(s)'
    BY <1>1, <1>2, <1>3, <1>7, <2>1, <2>2, ClientLetsGo
  <2> QED
    BY <1>1, <1>2, <1>4, <2>2, <2>3, <2>4, <2>5, ClientTables
<1> QED
  BY <1>6, <1>7 DEF ClientData

\* The client reads a CLOSE or a RESET.
LEMMA ClientCloseOrResetTables ==
  ASSUME Parts, ClientCloseOrReset
  PROVE  TablesInv'
<1>1. /\ down # <<>> /\ down' = Tail(down) /\ UNCHANGED serverVars /\ UNCHANGED controlQueue /\ UNCHANGED cHighest
  BY DEF ClientCloseOrReset, Dispatching, serverVars
<1>2. PICK y \in {"CLOSE", "RESET"} : y = Head(down).type
  BY DEF ClientCloseOrReset, Dispatching
<1>3. \A x, t : Sent(x, t) <=> Sent(x, t)' \/ (x = y /\ t = Head(down).id)
  BY <1>1, <1>2, TakeSent DEF Parts
<1>4. /\ cState \in [Ids -> StreamStates] /\ cStreams \subseteq Ids /\ up \in Seq(UpFrames)
      /\ connErr \in [server : Errors, client : Errors] /\ cHighest \in Nat
  BY ClientTypes
<1>5. Healthy' => Healthy
  <2>1. UNCHANGED connErr \/ FailClient("reset_never_opened") \/ FailClient("close_never_opened")
    BY DEF ClientCloseOrReset
  <2> QED
    BY <1>4, <2>1 DEF Healthy, FailClient
<1>6. ASSUME NEW t \in Ids, t # Head(down).id, UpSame(t), cState'[t] = cState[t], t \in cStreams' <=> t \in cStreams
      PROVE  Good(t)'
  <2>1. DownSame(t) /\ (Sent("OPEN", t) => Sent("OPEN", t)')
    BY <1>3, <1>6 DEF DownSame
  <2> QED
    BY <1>1, <1>3, <1>4, <1>5, <1>6, <2>1, ClientKeeps
<1>7. CASE Head(down).id \notin cStreams
  <2>1. UNCHANGED <<cState, cStreams, up>>
    BY <1>7 DEF ClientCloseOrReset
  <2>2. ASSUME NEW t \in Ids, t = Head(down).id PROVE Good(t)'
    <3>1. UNCHANGED state /\ ServerEnd(t)' /\ Good(t)
      BY <1>1, <1>3, ClientStep DEF Parts
    <3>2. ClientEnd(t)'
      BY <1>1, <2>1, <3>1 DEF Good, ClientEnd
    <3>3. ASSUME Healthy', state'[t] # "none" PROVE Mirrored(t)'
      <4>1. ~(t > cHighest)
        <5>1. NeverOpened(t, cHighest) => FailClient("reset_never_opened") \/ FailClient("close_never_opened")
          BY <2>2 DEF ClientCloseOrReset
        <5>2. FailClient("reset_never_opened") \/ FailClient("close_never_opened") => ~Healthy'
          BY <1>4 DEF FailClient, Healthy
        <5> QED
          BY <3>3, <5>1, <5>2 DEF NeverOpened
      <4>2. ClientView(t) = "closed" /\ ClientView(t)' = "closed"
        BY <1>1, <1>7, <2>1, <2>2, <4>1 DEF ClientView
      <4>3. Mirrored(t)
        BY <1>5, <3>1, <3>3 DEF Good
      <4> QED
        BY <1>1, <2>1, <3>1, <4>1, <4>2, <4>3 DEF Mirrored
    <3> QED
      BY <3>1, <3>2, <3>3 DEF Good
  <2>3. ASSUME NEW t \in Ids PROVE Good(t)'
    BY <1>6, <2>1, <2>2 DEF UpSame
  <2> QED
    BY <1>1, <1>3, <1>4, <1>5, <2>1, <2>3, ClientTables
<1>8. CASE Head(down).id \in cStreams
  <2>1. PICK s \in Ids : s = Head(down).id
    BY <1>4, <1>8
  <2>2. s \in cStreams /\ s <= cHighest /\ s \in Nat /\ Good(s) /\ Sent(y, s)
        /\ cState[s] \in {"open", "half_closed_local", "half_closed_remote"}
    BY <1>3, <1>8, <2>1, IdsNat DEF Parts, Good, ClientEnd
  <2> DEFINE p == IF y = "CLOSE" THEN AfterClose(cState[s]) ELSE "closed"
  <2>3. /\ cState' = [cState EXCEPT ![s] = p]
        /\ cStreams' = IF p = "closed" THEN cStreams \ {s} ELSE cStreams
        /\ up' = IF y = "CLOSE" /\ cState[s] = "half_closed_remote" THEN Append(up, Frame("RESET", s)) ELSE up
    BY <1>2, <1>8, <2>1 DEF ClientCloseOrReset
  <2>4. p \in {"half_closed_remote", "closed"} /\ (p = "closed" <=> ~(y = "CLOSE" /\ cState[s] = "open"))
    BY DEF AfterClose
  <2> HIDE DEF p
  <2>5. /\ up' \in Seq(UpFrames)
        /\ \A x, t : Carries(up', x, t) <=>
             Carries(up, x, t) \/ (x = "RESET" /\ t = s /\ y = "CLOSE" /\ cState[s] = "half_closed_remote")
    <3>1. CASE y = "CLOSE" /\ cState[s] = "half_closed_remote"
      <4>1. up' = Append(up, Frame("RESET", s))
        BY <2>3, <3>1
      <4> QED
        BY <3>1, <4>1, UpAppend DEF Parts
    <3>2. CASE ~(y = "CLOSE" /\ cState[s] = "half_closed_remote")
      <4>1. up' = up
        BY <2>3, <3>2
      <4> QED
        BY <1>4, <3>2, <4>1
    <3> QED
      BY <3>1, <3>2
  <2>6. cState' \in [Ids -> StreamStates] /\ cStreams' \subseteq Ids
    BY <1>4, <2>3, <2>4 DEF StreamStates
  <2>7. ASSUME NEW t \in Ids, t # s PROVE Good(t)'
    <3>1. UpSame(t) /\ cState'[t] = cState[t] /\ (t \in cStreams' <=> t \in cStreams)
      BY <1>4, <2>3, <2>4, <2>5, <2>7 DEF UpSame
    <3> QED
      BY <1>6, <2>1, <2>7, <3>1
  <2>8. Good(s)'
    <3>1. UNCHANGED <<state, clPc, drPc, sweeping>> /\ ServerEnd(s)'
      BY <1>1, <1>3, ClientStep
    <3>2. cState'[s] = p /\ (s \in cStreams' <=> p # "closed") /\ ~(s > cHighest') /\ s <= cHighest'
      BY <1>1, <1>4, <2>2, <2>3, <2>4
    <3>3. CASE y = "RESET"
      <4>1. state'[s] = "closed" /\ p = "closed"
        BY <2>2, <2>4, <3>1, <3>3 DEF Good, ServerEnd, ResetDue
      <4>2. ClientEnd(s)'
        BY <2>2, <2>5, <3>2, <3>3, <4>1 DEF Good, ClientEnd
      <4>3. Mirrored(s)'
        <5>1. ClientView(s)' = "closed"
          BY <3>2, <4>1 DEF ClientView
        <5> QED
          BY <3>2, <4>1, <5>1 DEF Mirrored
      <4> QED
        BY <3>1, <4>2, <4>3 DEF Good
    <3>4. CASE y = "CLOSE"
      <4>1. state[s] \in {"half_closed_local", "closed"}
        BY <2>2, <3>4 DEF Good, ServerEnd, CloseDue
      <4>2. ResetDue(s)' <=> ResetDue(s)
        BY <1>3, <3>1, <3>4 DEF ResetDue
      <4>3. ClientEnd(s)'
        BY <2>2, <2>4, <2>5, <3>2, <3>4 DEF Good, ClientEnd
      <4>4. ASSUME Healthy' PROVE Mirrored(s)'
        <5>1. Mirrored(s) /\ ClientView(s) = cState[s]
          BY <1>1, <1>5, <2>2, <3>2, <4>1, <4>4 DEF Good, ClientView
        <5>2. ClientView(s)' = p
          BY <2>4, <3>2 DEF ClientView
        <5> QED
          BY <2>2, <2>4, <2>5, <3>1, <3>2, <3>4, <4>1, <4>2, <5>1, <5>2 DEF Mirrored
      <4> QED
        BY <3>1, <4>3, <4>4 DEF Good
    <3> QED
      BY <3>3, <3>4
  <2> QED
    BY <1>1, <1>3, <1>5, <2>5, <2>6, <2>7, <2>8, ClientTables
<1> QED
  BY <1>7, <1>8

\* DRAIN is about no stream.
LEMMA HandleDrainTables ==
  ASSUME Parts, HandleDrain
  PROVE  TablesInv'
<1>1. /\ down # <<>> /\ Head(down).type = "DRAIN" /\ down' = Tail(down)
      /\ UNCHANGED serverVars /\ UNCHANGED controlQueue /\ UNCHANGED <<connErr, up, cHighest, cStreams, cState>>
  BY DEF HandleDrain, Dispatching, serverVars
<1>2. \A x, t : /\ Sent(x, t)' => Sent(x, t)
                /\ x # "DRAIN" => (Sent(x, t) <=> Sent(x, t)')
  <2>1. \A x, t : Sent(x, t) <=> Sent(x, t)' \/ (Head(down).type = x /\ Head(down).id = t)
    BY <1>1, TakeSent DEF Parts
  <2> QED
    BY <1>1, <2>1
<1>3. /\ cState \in [Ids -> StreamStates] /\ cStreams \subseteq Ids /\ up \in Seq(UpFrames) /\ cHighest \in Nat
  BY ClientTypes
<1>4. Healthy' <=> Healthy
  BY <1>1, ErrKept
<1>5. ASSUME NEW t \in Ids PROVE Good(t)'
  <2>1. DownSame(t) /\ UpSame(t) /\ (Sent("OPEN", t) => Sent("OPEN", t)')
    BY <1>1, <1>2 DEF DownSame, UpSame
  <2> QED
    BY <1>1, <1>2, <1>3, <1>4, <2>1, ClientKeeps
<1> QED
  BY <1>1, <1>2, <1>3, <1>4, <1>5, ClientTables

\* The client's application half-closes a stream.
LEMMA ClientCloseWriteTables ==
  ASSUME Parts, NEW s \in Ids, ClientCloseWrite(s)
  PROVE  TablesInv'
<1>1. /\ UNCHANGED serverVars /\ UNCHANGED <<connErr, down, cHighest>> /\ UNCHANGED controlQueue
      /\ cState[s] \in {"open", "half_closed_remote"}
      /\ cState' = [cState EXCEPT ![s] = IF @ = "open" THEN "half_closed_local" ELSE "closed"]
      /\ cStreams' = IF cState[s] = "open" THEN cStreams ELSE cStreams \ {s}
      /\ up' = Append(up, Frame("CLOSE", s))
  BY DEF ClientCloseWrite, serverVars
<1>2. (\A x, t : Sent(x, t)' <=> Sent(x, t)) /\ (Healthy' <=> Healthy)
  BY <1>1, QueuesSame, ErrKept
<1>3. /\ cState \in [Ids -> StreamStates] /\ cStreams \subseteq Ids /\ up \in Seq(UpFrames) /\ cHighest \in Nat
  BY ClientTypes
<1>4. /\ up' \in Seq(UpFrames)
      /\ \A x, t : Carries(up', x, t) <=> Carries(up, x, t) \/ (x = "CLOSE" /\ t = s)
  BY <1>1, UpAppend DEF Parts
<1>5. cState' \in [Ids -> StreamStates] /\ cStreams' \subseteq Ids
  BY <1>1, <1>3 DEF StreamStates
<1>6. ASSUME NEW t \in Ids, t # s PROVE Good(t)'
  <2>1. /\ DownSame(t) /\ UpSame(t) /\ (Sent("OPEN", t) => Sent("OPEN", t)')
        /\ cState'[t] = cState[t] /\ (t \in cStreams' <=> t \in cStreams)
    BY <1>1, <1>2, <1>3, <1>4, <1>6 DEF DownSame, UpSame
  <2> QED
    BY <1>1, <1>2, <1>3, <2>1, ClientKeeps
<1>7. Good(s)'
  <2>1. /\ UNCHANGED <<state, clPc, drPc, sweeping, streams>> /\ ServerEnd(s)' /\ Good(s)
    BY <1>1, <1>2, ClientStep DEF Parts
  <2>2. s \in cStreams /\ s <= cHighest /\ s \in Nat
    BY <1>1, <2>1, IdsNat DEF Good, ClientEnd
  <2>3. \/ cState[s] = "open" /\ cState'[s] = "half_closed_local" /\ s \in cStreams'
        \/ cState[s] = "half_closed_remote" /\ cState'[s] = "closed" /\ s \notin cStreams'
    BY <1>1, <1>3, <2>2
  <2>4. ~(s > cHighest) /\ cHighest' = cHighest
    BY <1>1, <1>3, <2>2
  <2>5. ClientEnd(s)'
    BY <1>4, <2>1, <2>2, <2>3, <2>4 DEF Good, ClientEnd
  <2>6. ASSUME Healthy', state'[s] # "none" PROVE Mirrored(s)'
    <3>1. Mirrored(s) /\ ClientView(s) = cState[s] /\ ClientView(s)' = cState'[s]
      BY <1>2, <2>1, <2>2, <2>3, <2>4, <2>6 DEF Good, ClientView
    <3>2. (CloseDue(s)' <=> CloseDue(s)) /\ (ResetDue(s)' <=> ResetDue(s))
      BY <1>2, <2>1 DEF CloseDue, ResetDue
    <3> QED
      BY <1>4, <2>1, <2>3, <2>4, <3>1, <3>2 DEF Mirrored
  <2> QED
    BY <2>1, <2>5, <2>6 DEF Good
<1> QED
  BY <1>1, <1>2, <1>4, <1>5, <1>6, <1>7, ClientTables

\* The client's application resets one.
LEMMA ClientResetTables ==
  ASSUME Parts, NEW s \in Ids, ClientReset(s)
  PROVE  TablesInv'
<1>1. /\ UNCHANGED serverVars /\ UNCHANGED <<connErr, down, cHighest>> /\ UNCHANGED controlQueue
      /\ s \in cStreams /\ cState' = [cState EXCEPT ![s] = "closed"] /\ cStreams' = cStreams \ {s}
      /\ up' = Append(up, Frame("RESET", s))
  BY DEF ClientReset, serverVars
<1>2. (\A x, t : Sent(x, t)' <=> Sent(x, t)) /\ (Healthy' <=> Healthy)
  BY <1>1, QueuesSame, ErrKept
<1>3. /\ cState \in [Ids -> StreamStates] /\ cStreams \subseteq Ids /\ up \in Seq(UpFrames) /\ cHighest \in Nat
  BY ClientTypes
<1>4. /\ up' \in Seq(UpFrames)
      /\ \A x, t : Carries(up', x, t) <=> Carries(up, x, t) \/ (x = "RESET" /\ t = s)
  BY <1>1, UpAppend DEF Parts
<1>5. cState' \in [Ids -> StreamStates] /\ cStreams' \subseteq Ids
  BY <1>1, <1>3 DEF StreamStates
<1>6. ASSUME NEW t \in Ids, t # s PROVE Good(t)'
  <2>1. /\ DownSame(t) /\ UpSame(t) /\ (Sent("OPEN", t) => Sent("OPEN", t)')
        /\ cState'[t] = cState[t] /\ (t \in cStreams' <=> t \in cStreams)
    BY <1>1, <1>2, <1>3, <1>4, <1>6 DEF DownSame, UpSame
  <2> QED
    BY <1>1, <1>2, <1>3, <2>1, ClientKeeps
<1>7. Good(s)'
  BY <1>1, <1>2, <1>3, <1>4, ClientLetsGo
<1> QED
  BY <1>1, <1>2, <1>4, <1>5, <1>6, <1>7, ClientTables

\* Every action preserves TablesInv.
LEMMA TablesStep ==
  ASSUME OpenInv, TurnType, TablesInv, [Next]_vars
  PROVE  TablesInv'
<1>0. Parts
  BY PartsOf
<1>1. ASSUME NEW o \in Openers, OpenSteps(o) \/ OpenCancelled(o) PROVE TablesInv'
  <2>1. CASE OpenStream(o) \/ CheckSlots(o) \/ OpenConnClosed(o) \/ OpenCancelled(o)
    <3>1. UNCHANGED <<nextStreamID, highestOpened, streams, connErr, closed, state, clPc, clientVars,
                      up, drainVars, controlQueue, down, opId>>
      BY <2>1 DEF OpenStream, CheckSlots, OpenConnClosed, OpenCancelled, connVars, streamVars
    <3>2. \A x \in Openers : opPc[x] \in {"enqueue", "opened"} => opPc'[x] = opPc[x]
      BY <1>0, <2>1 DEF OpenStream, CheckSlots, OpenConnClosed, OpenCancelled, Parts, OpenerType
    <3> QED
      BY <1>0, <3>1, <3>2, OpenerMoves
  <2> QED
    BY <1>0, <1>1, <2>1, AllocateTables, EnqueueOpenTables DEF OpenSteps
<1>2. ASSUME NEW s \in Ids, WriteSteps(s) \/ Write(s) \/ CancelWrite(s) PROVE TablesInv'
  <2>1. UNCHANGED tableVars
    BY <1>2 DEF WriteSteps, QueueChunk, MarkStreamReady, WakeWriter, ChunkDone, WriteConnClosed, Write, CancelWrite,
      connVars, streamVars, openVars, drainVars, clientVars, tableVars
  <2> QED
    BY <1>0, <2>1, TablesKept
<1>3. ASSUME NEW s \in Ids, CloseSteps(s) \/ CloseWrite(s) \/ Reset(s) PROVE TablesInv'
  BY <1>0, <1>3, CloseWriteTables, ResetTables, RetireTables, SendCloseOrResetTables DEF CloseSteps
<1>4. ASSUME NEW s \in Ids, ClientApp(s) PROVE TablesInv'
  BY <1>0, <1>4, ClientCloseWriteTables, ClientResetTables DEF ClientApp
<1>5. CASE Drain \/ DrainSteps \/ ConnEnds
  BY <1>0, <1>5, DrainTables, ResetSurvivorTables, RetireSurvivorTables, SendSurvivorResetTables DEF DrainSteps
<1>6. CASE WriterLoop
  <2>1. CASE PopReady \/ PopChunk \/ Requeue \/ WriterStops
    <3>1. UNCHANGED tableVars
      BY <2>1 DEF PopReady, PopChunk, Requeue, WriterStops, connVars, streamVars, openVars, drainVars, clientVars,
        tableVars
    <3> QED
      BY <1>0, <3>1, TablesKept
  <2> QED
    BY <1>0, <1>6, <2>1, WriterLoopTables DEF WriterLoop
<1>7. CASE ServerReads
  BY <1>0, <1>7, HandleCloseTables, HandleResetTables DEF ServerReads
<1>8. CASE ClientReads
  BY <1>0, <1>8, RemoteOpenTables, ClientDataTables, ClientCloseOrResetTables, HandleDrainTables DEF ClientReads
<1>9. CASE UNCHANGED vars
  <2>1. UNCHANGED tableVars
    BY <1>9 DEF vars, connVars, streamVars, openVars, drainVars, clientVars, tableVars
  <2> QED
    BY <1>0, <2>1, TablesKept
<1> QED
  BY <1>1, <1>2, <1>3, <1>4, <1>5, <1>6, <1>7, <1>8, <1>9 DEF Next, AppCalls

\* The two ends' tables differ, stream by stream, by the frames that are on their way between
\* them: OpenStream, CloseWrite, Reset, Drain, retireStream, the writer loop and both ends'
\* dispatch preserve it together, for any number of streams and any caps.
THEOREM TablesInvariant == Spec => []TablesInv
<1>1. Init => TablesInv
  BY TablesInit
<1>2. OpenInv /\ TurnType /\ TablesInv /\ [Next]_vars => TablesInv'
  BY TablesStep
<1>3. TurnType /\ TurnInv => TurnType
  OBVIOUS
<1> QED
  BY <1>1, <1>2, <1>3, OpenInvariant, RotationOrder, PTL DEF Spec

\* When nothing is in flight both ends have the same streams in mirrored states: racing
\* half-closes, resets, refusals and retirements never leak an id at either end.
THEOREM AlwaysTablesAgree == Spec => []TablesAgree
<1>1. OpenInv /\ TablesInv => TablesAgree
  <2> SUFFICES ASSUME OpenInv, TablesInv, Quiet
               PROVE  streams = cStreams /\ \A s \in streams : cState[s] = Mirror(state[s])
    BY DEF TablesAgree
  <2>1. Parts
    BY PartsOf
  <2>2. Healthy /\ cStreams \subseteq Ids /\ streams \subseteq Ids
    BY <2>1, ClientTypes DEF Quiet, Healthy, Parts, EndsType
  <2>3. ASSUME NEW s \in Ids
        PROVE  (s \in streams <=> s \in cStreams) /\ (s \in streams => cState[s] = Mirror(state[s]))
    <3>1. Good(s) /\ s \in Nat /\ cHighest \in Nat /\ highestOpened \in Nat /\ cHighest <= highestOpened
      <4>1. Good(s) /\ s \in Nat /\ cHighest \in Nat /\ highestOpened \in Nat
        BY <2>1, IdsNat DEF Parts, IdType
      <4>2. cHighest < Newest /\ Newest \in Nat /\ Newest <= highestOpened + 1
        BY <2>1, NewestNat DEF Parts, OrderInv
      <4> QED
        BY <4>1, <4>2
    <3>2. \A x : ~Sent(x, s) /\ ~Carries(up, x, s)
      BY DEF Quiet, Sent, Carries
    <3>3. ~OpenDue(s) /\ ~CloseDue(s) /\ ~ResetDue(s)
      BY <3>2 DEF Quiet, OpenDue, CloseDue, ResetDue
    <3>4. s \in streams => state[s] # "closed" /\ state[s] # "none"
      BY <3>1 DEF Quiet, Good, ServerEnd
    <3>5. s \in cStreams => state[s] # "none"
      BY <3>1 DEF Good, ServerEnd, ClientEnd
    <3>6. state[s] # "none" => Mirrored(s) /\ ~(s > cHighest)
      BY <2>2, <3>1, <3>3 DEF Good, Mirrored
    <3>7. s \in cStreams => cState[s] \in {"open", "half_closed_local", "half_closed_remote"} /\ ClientView(s) = cState[s]
      BY <3>1, <3>5, <3>6 DEF Good, ClientEnd, ClientView
    <3>8. state[s] # "none" /\ s \notin cStreams => ClientView(s) = "closed"
      BY <3>6 DEF ClientView
    <3>9. ASSUME s \in streams PROVE s \in cStreams
      BY <3>2, <3>4, <3>6, <3>8, <3>9 DEF Mirrored
    <3>10. ASSUME s \in cStreams PROVE s \in streams /\ cState[s] = Mirror(state[s])
      <4>1. \/ cState[s] = "open" /\ state[s] = "open"
            \/ cState[s] = "half_closed_local" /\ state[s] = "half_closed_remote"
            \/ cState[s] = "half_closed_remote" /\ state[s] = "half_closed_local"
        BY <3>2, <3>3, <3>5, <3>6, <3>7, <3>10 DEF Mirrored
      <4>2. s \in streams
        BY <3>1, <4>1 DEF Good, ServerEnd
      <4> QED
        BY <4>1, <4>2 DEF Mirror
    <3> QED
      BY <3>9, <3>10
  <2> QED
    BY <2>2, <2>3
<1> QED
  BY <1>1, OpenInvariant, TablesInvariant, PTL
=============================================================================
