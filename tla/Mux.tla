-------------------------------- MODULE Mux ---------------------------------
(***************************************************************************)
(* The multiplexer of one running connection, seen from the server, which  *)
(* is the end that opens streams: OpenStream (streams.go), the stream      *)
(* table, half-closes and resets (stream.go), Drain (drain.go) and the     *)
(* writer loop with its round-robin DATA rotation (sched.go); and the      *)
(* client's dispatch of what it reads (dispatch.go).                       *)
(*                                                                         *)
(* Goroutines of the server: openers inside OpenStream, one writer and one *)
(* closer per stream, one Drain, the writer loop and the read loop.        *)
(* Critical sections of c.mu, s.mu and sched.mu are atomic; openMu, which  *)
(* is held across a blocking send, is a variable.                          *)
(*                                                                         *)
(* The bytes and credits of a stream are module Stream's: here a Write is  *)
(* one chunk, always within its credit.  A chunk is "live" while its Write *)
(* waits for it and "abandoned" once that Write was cancelled.  The client *)
(* sends control frames only, so its queue, writer loop and socket are one *)
(* FIFO (up).                                                              *)
(***************************************************************************)
EXTENDS Integers, Sequences, FiniteSets, SequencesExt

CONSTANTS
  Openers,          \* goroutines that each call OpenStream once
  MaxStreamID,      \* maxStreamIDValue
  MaxStreams,       \* the cap the handshake declared; the server's maxStreams
  ClientMaxStreams, \* the client's maxStreams, which it may have lowered
  OutQueueCap,      \* streamOutQueueCap
  ControlQueueCap,  \* cap(controlQueue)
  LinkCap,          \* frames the transport buffers before a socket write blocks
  RefusedOpenLimit, \* refusedOpenLimit()
  MaxWrites,        \* bound on the Writes of a stream
  MaxCancels,       \* bound on the cancelled Writes of a stream
  ServerCalls,      \* which of "CloseWrite", "Reset" the server's application calls
  ClientCalls,      \* the same for the client's
  MayDrain          \* the server's application may call Drain

None == 0
\* Ids the openers can be given: odd, from 1.
Ids == {2 * k - 1 : k \in 1..Cardinality(Openers)}

ASSUME MuxAssumption ==
  /\ IsFiniteSet(Openers) /\ Openers # {} /\ None \notin Openers
  /\ MaxStreamID \in Nat \ {0}
  /\ MaxStreams \in Nat \ {0}
  /\ ClientMaxStreams \in 1..MaxStreams
  /\ OutQueueCap \in Nat \ {0}
  /\ ControlQueueCap \in Nat \ {0}
  /\ LinkCap \in Nat \ {0}
  /\ RefusedOpenLimit \in Nat \ {0}
  /\ MaxWrites \in Nat
  /\ MaxCancels \in Nat
  /\ ServerCalls \subseteq {"CloseWrite", "Reset"}
  /\ ClientCalls \subseteq {"CloseWrite", "Reset"}
  /\ MayDrain \in BOOLEAN

Frame(type, id) == [type |-> type, id |-> id]

VARIABLES
  \* the server's Conn
  nextStreamID, highestOpened,
  streams,        \* the ids in c.streams
  draining, announcedLastID,
  openMu,         \* the opener that holds it, or None
  controlQueue,
  ready,          \* sched.ready; inReady is the set of its elements
  workCh,         \* sched.workCh holds a token
  connErr,        \* c.err of each end
  closed,         \* c.closed of the server
  \* its Streams
  state, outQueue,
  \* its goroutines
  opPc, opId, wrPc, clPc, drPc, survivors, sweeping, wlPc, turn, held,
  \* the wire, and the client's Conn and Streams
  down, up, cHighest, cStreams, cState, cDrained, cLastID, cRefused,
  \* history
  writes, cancels,
  passed,         \* passed[s][t]: turns t has had since s went into the rotation
  dataSince       \* DATA frames written since the control queue was last empty

connVars   == <<nextStreamID, highestOpened, streams, draining, announcedLastID, openMu, connErr, closed>>
schedVars  == <<ready, workCh, passed>>
loopVars   == <<wlPc, turn, held, dataSince>>
streamVars == <<state, outQueue>>
openVars   == <<opPc, opId>>
writeVars  == <<wrPc, writes, cancels>>
drainVars  == <<drPc, survivors, sweeping>>
clientVars == <<cHighest, cStreams, cState, cDrained, cLastID, cRefused>>
vars == <<connVars, controlQueue, schedVars, loopVars, streamVars, openVars, writeVars, clPc,
          drainVars, down, up, clientVars>>

Init ==
  /\ nextStreamID = 1 /\ highestOpened = 0 /\ streams = {}
  /\ draining = FALSE /\ announcedLastID = 0 /\ openMu = None
  /\ controlQueue = <<>> /\ ready = <<>> /\ workCh = FALSE
  /\ connErr = [server |-> "none", client |-> "none"] /\ closed = FALSE
  /\ state = [s \in Ids |-> "none"] /\ outQueue = [s \in Ids |-> <<>>]
  /\ opPc = [o \in Openers |-> "call"] /\ opId = [o \in Openers |-> None]
  /\ wrPc = [s \in Ids |-> "idle"] /\ clPc = [s \in Ids |-> "idle"]
  /\ drPc = "idle" /\ survivors = {} /\ sweeping = None
  /\ wlPc = "control" /\ turn = None /\ held = "none"
  /\ down = <<>> /\ up = <<>>
  /\ cHighest = 0 /\ cStreams = {} /\ cState = [s \in Ids |-> "none"]
  /\ cDrained = FALSE /\ cLastID = 0 /\ cRefused = 0
  /\ writes = [s \in Ids |-> 0] /\ cancels = [s \in Ids |-> 0]
  /\ passed = [s \in Ids |-> [t \in Ids |-> 0]] /\ dataSince = 0

\* sendControlFrame: blocks while the queue is full, gives up once the conn is closed.
SendControlFrame(f) ==
  \/ Len(controlQueue) < ControlQueueCap /\ controlQueue' = Append(controlQueue, f)
  \/ closed /\ UNCHANGED controlQueue

\* Mutant: nobody is told of the free slot.
RetireSilently(s) == streams' = streams \ {s} /\ UNCHANGED opPc
\* retireStream: the entry goes, and every OpenStream parked on connNotifyCh rechecks.
RetireStream(s) ==
  /\ streams' = streams \ {s}
  /\ opPc' = [o \in Openers |-> IF opPc[o] = "wait" THEN "check" ELSE opPc[o]]
-----------------------------------------------------------------------------
(* OpenStream *)

\* A connection that has already ended is only noticed here...
OpenStream(o) ==
  /\ opPc[o] = "call"
  /\ opPc' = [opPc EXCEPT ![o] = IF closed THEN "failed" ELSE "check"]
  /\ UNCHANGED <<connVars, controlQueue, schedVars, loopVars, streamVars, opId, writeVars, clPc,
                 drainVars, down, up, clientVars>>

\* ...before the loop's look at the table, which parks the call while it is full.
CheckSlots(o) ==
  /\ opPc[o] = "check"
  /\ opPc' = [opPc EXCEPT ![o] =
       IF connErr.server # "none" \/ draining THEN "failed"
       ELSE IF Cardinality(streams) >= MaxStreams THEN "wait" ELSE "allocate"]
  /\ UNCHANGED <<connVars, controlQueue, schedVars, loopVars, streamVars, opId, writeVars, clPc,
                 drainVars, down, up, clientVars>>

\* Mutant: ids are allocated without openMu.
OpenMuIgnored == TRUE
OpenMuFree == openMu = None

\* c.err or c.draining refuses new streams.
Refuses == connErr.server # "none" \/ draining

\* Mutant: nor at the size of the table.
SlotAssumed == FALSE
SlotGone == Cardinality(streams) >= MaxStreams

\* Mutant: the error is returned and nothing else happens.
ExhaustedQuietly == drPc
\* go c.Drain("id_exhausted"), unless one is under way.
ExhaustedDrains == IF drPc = "idle" THEN "called" ELSE drPc

\* allocateStreamLocked under openMu: everything is checked again.
AllocateStream(o) ==
  /\ opPc[o] = "allocate" /\ OpenMuFree
  /\ IF Refuses
       THEN /\ opPc' = [opPc EXCEPT ![o] = "failed"]
            /\ UNCHANGED <<nextStreamID, highestOpened, streams, openMu, state, opId, drPc>>
     ELSE IF SlotGone
       THEN /\ opPc' = [opPc EXCEPT ![o] = "check"]
            /\ UNCHANGED <<nextStreamID, highestOpened, streams, openMu, state, opId, drPc>>
     ELSE IF nextStreamID > MaxStreamID
       THEN /\ opPc' = [opPc EXCEPT ![o] = "failed"]
            /\ drPc' = ExhaustedDrains
            /\ UNCHANGED <<nextStreamID, highestOpened, streams, openMu, state, opId>>
     ELSE /\ opId' = [opId EXCEPT ![o] = nextStreamID]
          /\ highestOpened' = nextStreamID
          /\ nextStreamID' = nextStreamID + 2
          /\ streams' = streams \cup {nextStreamID}
          /\ state' = [state EXCEPT ![nextStreamID] = "open"]
          /\ openMu' = o
          /\ opPc' = [opPc EXCEPT ![o] = "enqueue"]
          /\ UNCHANGED drPc
  /\ UNCHANGED <<draining, announcedLastID, connErr, closed, controlQueue, schedVars, loopVars,
                 outQueue, writeVars, clPc, survivors, sweeping, down, up, clientVars>>

\* OPEN is queued, still under openMu; the application has its stream.
EnqueueOpen(o) ==
  /\ opPc[o] = "enqueue"
  /\ SendControlFrame(Frame("OPEN", opId[o]))
  /\ openMu' = None
  /\ opPc' = [opPc EXCEPT ![o] = "opened"]
  /\ UNCHANGED <<nextStreamID, highestOpened, streams, draining, announcedLastID, connErr, closed,
                 schedVars, loopVars, streamVars, opId, writeVars, clPc, drainVars, down, up, clientVars>>

\* A parked call sees c.closed.
OpenConnClosed(o) ==
  /\ opPc[o] = "wait" /\ closed
  /\ opPc' = [opPc EXCEPT ![o] = "failed"]
  /\ UNCHANGED <<connVars, controlQueue, schedVars, loopVars, streamVars, opId, writeVars, clPc,
                 drainVars, down, up, clientVars>>

\* A parked call's context ends.
OpenCancelled(o) ==
  /\ opPc[o] = "wait"
  /\ opPc' = [opPc EXCEPT ![o] = "cancelled"]
  /\ UNCHANGED <<connVars, controlQueue, schedVars, loopVars, streamVars, opId, writeVars, clPc,
                 drainVars, down, up, clientVars>>

\* The streams OpenStream has returned to the application.
Opened == {opId[o] : o \in {x \in Openers : opPc[x] = "opened"}}
-----------------------------------------------------------------------------
(* WriteContext, one chunk *)

SendDone(s) == state[s] \in {"half_closed_local", "closed"}

\* reserveSendCredit lets the Write through.
Write(s) ==
  /\ s \in Opened /\ wrPc[s] = "idle" /\ writes[s] < MaxWrites
  /\ ~SendDone(s)
  /\ writes' = [writes EXCEPT ![s] = @ + 1]
  /\ wrPc' = [wrPc EXCEPT ![s] = "queue"]
  /\ UNCHANGED <<connVars, controlQueue, schedVars, loopVars, streamVars, openVars, cancels, clPc,
                 drainVars, down, up, clientVars>>

QueueChunk(s) ==
  /\ wrPc[s] = "queue" /\ Len(outQueue[s]) < OutQueueCap
  /\ outQueue' = [outQueue EXCEPT ![s] = Append(@, "live")]
  /\ wrPc' = [wrPc EXCEPT ![s] = "mark"]
  /\ UNCHANGED <<connVars, controlQueue, schedVars, loopVars, state, openVars, writes, cancels, clPc,
                 drainVars, down, up, clientVars>>

\* Mutant: the stream goes to the front of the rotation.
MarkReadyFirst(s) ==
  IF s \in ToSet(ready)
    THEN UNCHANGED <<ready, passed>>
    ELSE ready' = <<s>> \o ready /\ passed' = [passed EXCEPT ![s] = [t \in Ids |-> 0]]
\* markStreamReady's critical section: at most one entry per stream.
MarkReady(s) ==
  IF s \in ToSet(ready)
    THEN UNCHANGED <<ready, passed>>
    ELSE /\ ready' = Append(ready, s)
         /\ passed' = [passed EXCEPT ![s] = [t \in Ids |-> 0]]

MarkStreamReady(s) ==
  /\ wrPc[s] = "mark"
  /\ MarkReady(s)
  /\ wrPc' = [wrPc EXCEPT ![s] = "wake"]
  /\ UNCHANGED <<connVars, controlQueue, workCh, loopVars, streamVars, openVars, writes, cancels, clPc,
                 drainVars, down, up, clientVars>>

\* Mutant: no token.
WakeNot == UNCHANGED workCh
\* The token on workCh, dropped when one is there already.
Wake == workCh' = TRUE

\* ...and, after it, the token.
WakeWriter(s) ==
  /\ wrPc[s] = "wake"
  /\ Wake
  /\ wrPc' = [wrPc EXCEPT ![s] = "await"]
  /\ UNCHANGED <<connVars, controlQueue, ready, passed, loopVars, streamVars, openVars, writes, cancels,
                 clPc, drainVars, down, up, clientVars>>

\* ctx.Done while the chunk is queued: it may still be written.
CancelWrite(s) ==
  /\ wrPc[s] = "await" /\ cancels[s] < MaxCancels
  /\ cancels' = [cancels EXCEPT ![s] = @ + 1]
  /\ wrPc' = [wrPc EXCEPT ![s] = "idle"]
  /\ outQueue' = [outQueue EXCEPT ![s] = [i \in DOMAIN @ |-> "abandoned"]]
  /\ held' = IF turn = s /\ held # "none" THEN "abandoned" ELSE held
  /\ UNCHANGED <<connVars, controlQueue, schedVars, wlPc, turn, dataSince, state, openVars, writes, clPc,
                 drainVars, down, up, clientVars>>

\* A Write at outQueue or on its chunk sees c.closed.
WriteConnClosed(s) ==
  /\ wrPc[s] \in {"queue", "await"} /\ closed
  /\ wrPc' = [wrPc EXCEPT ![s] = "idle"]
  /\ UNCHANGED <<connVars, controlQueue, schedVars, loopVars, streamVars, openVars, writes, cancels, clPc,
                 drainVars, down, up, clientVars>>

\* done was closed: the chunk was written, or completed with the stream's error.
ChunkDone(s) ==
  /\ wrPc[s] = "await"
  /\ "live" \notin ToSet(outQueue[s]) /\ ~(turn = s /\ held = "live")
  /\ wrPc' = [wrPc EXCEPT ![s] = "idle"]
  /\ UNCHANGED <<connVars, controlQueue, schedVars, loopVars, streamVars, openVars, writes, cancels, clPc,
                 drainVars, down, up, clientVars>>
-----------------------------------------------------------------------------
(* CloseWrite and Reset, by the server's application *)

CloseWrite(s) ==
  /\ s \in Opened /\ clPc[s] = "idle" /\ "CloseWrite" \in ServerCalls
  /\ state[s] \in {"open", "half_closed_remote"}
  /\ state' = [state EXCEPT ![s] = IF @ = "open" THEN "half_closed_local" ELSE "closed"]
  /\ clPc' = [clPc EXCEPT ![s] = IF state[s] = "open" THEN "close_send" ELSE "close_retire"]
  /\ UNCHANGED <<connVars, controlQueue, schedVars, loopVars, outQueue, openVars, writeVars,
                 drainVars, down, up, clientVars>>

Reset(s) ==
  /\ s \in Opened /\ clPc[s] = "idle" /\ "Reset" \in ServerCalls
  /\ state[s] # "closed"
  /\ state' = [state EXCEPT ![s] = "closed"]
  /\ clPc' = [clPc EXCEPT ![s] = "reset_retire"]
  /\ UNCHANGED <<connVars, controlQueue, schedVars, loopVars, outQueue, openVars, writeVars,
                 drainVars, down, up, clientVars>>

\* Both retire a stream that is now closed before they queue the frame.
Retire(s) ==
  /\ clPc[s] \in {"close_retire", "reset_retire"}
  /\ RetireStream(s)
  /\ clPc' = [clPc EXCEPT ![s] = IF @ = "close_retire" THEN "close_send" ELSE "reset_send"]
  /\ UNCHANGED <<nextStreamID, highestOpened, draining, announcedLastID, openMu, connErr, closed,
                 controlQueue, schedVars, loopVars, streamVars, opId, writeVars, drainVars, down, up, clientVars>>

SendCloseOrReset(s) ==
  /\ clPc[s] \in {"close_send", "reset_send"}
  /\ SendControlFrame(Frame(IF clPc[s] = "close_send" THEN "CLOSE" ELSE "RESET", s))
  /\ clPc' = [clPc EXCEPT ![s] = "idle"]
  /\ UNCHANGED <<connVars, schedVars, loopVars, streamVars, openVars, writeVars, drainVars, down, up, clientVars>>
-----------------------------------------------------------------------------
(* Drain *)

\* Called by the application, or by allocateStreamLocked when the ids ran out.
Drain ==
  /\ drPc = "called" \/ (drPc = "idle" /\ MayDrain)
  /\ draining' = TRUE
  /\ announcedLastID' = highestOpened
  /\ drPc' = "send"
  /\ UNCHANGED <<nextStreamID, highestOpened, streams, openMu, connErr, closed, controlQueue, schedVars,
                 loopVars, streamVars, openVars, writeVars, clPc, survivors, sweeping, down, up, clientVars>>

SendDrain ==
  /\ drPc = "send"
  /\ SendControlFrame(Frame("DRAIN", announcedLastID))
  /\ drPc' = "wait"
  /\ UNCHANGED <<connVars, schedVars, loopVars, streamVars, openVars, writeVars, clPc,
                 survivors, sweeping, down, up, clientVars>>

\* Mutant: only an empty table ends the wait.
WaitOverWhenEmpty == streams = {}
\* The deadline or ctx can end the wait at any time, an empty table among them.
WaitOver == TRUE

\* The table is empty, the deadline has passed or ctx is done; or c.closed ends the call.
DrainWaitOver ==
  /\ drPc = "wait"
  /\ \/ WaitOver /\ drPc' = "sweep" /\ survivors' = streams
     \/ closed /\ drPc' = "done" /\ UNCHANGED survivors
  /\ UNCHANGED <<connVars, controlQueue, schedVars, loopVars, streamVars, openVars, writeVars, clPc,
                 sweeping, down, up, clientVars>>

\* Reset(CANCEL) of one survivor, in the order the map's iteration gives them...
ResetSurvivor(s) ==
  /\ drPc = "sweep" /\ s \in survivors
  /\ survivors' = survivors \ {s}
  /\ IF state[s] = "closed"
       THEN UNCHANGED <<state, drPc, sweeping>>
       ELSE /\ state' = [state EXCEPT ![s] = "closed"]
            /\ drPc' = "retire" /\ sweeping' = s
  /\ UNCHANGED <<connVars, controlQueue, schedVars, loopVars, outQueue, openVars, writeVars, clPc,
                 down, up, clientVars>>

RetireSurvivor ==
  /\ drPc = "retire"
  /\ RetireStream(sweeping)
  /\ drPc' = "reset_send"
  /\ UNCHANGED <<nextStreamID, highestOpened, draining, announcedLastID, openMu, connErr, closed,
                 controlQueue, schedVars, loopVars, streamVars, opId, writeVars, clPc,
                 survivors, sweeping, down, up, clientVars>>

SendSurvivorReset ==
  /\ drPc = "reset_send"
  /\ SendControlFrame(Frame("RESET", sweeping))
  /\ drPc' = "sweep" /\ sweeping' = None
  /\ UNCHANGED <<connVars, schedVars, loopVars, streamVars, openVars, writeVars, clPc,
                 survivors, down, up, clientVars>>

\* ...and Close(GOING_AWAY), which records c.err now and closes c.closed a little later.
DrainClose ==
  /\ drPc = "sweep" /\ survivors = {}
  /\ drPc' = "done"
  /\ connErr' = [connErr EXCEPT !.server = IF @ = "none" THEN "going_away" ELSE @]
  /\ UNCHANGED <<nextStreamID, highestOpened, streams, draining, announcedLastID, openMu, closed,
                 controlQueue, schedVars, loopVars, streamVars, openVars, writeVars, clPc,
                 survivors, sweeping, down, up, clientVars>>

\* c.closed, after either end has failed or closed the connection.
ConnEnds ==
  /\ ~closed /\ (connErr.server # "none" \/ connErr.client # "none")
  /\ closed' = TRUE
  /\ UNCHANGED <<nextStreamID, highestOpened, streams, draining, announcedLastID, openMu, connErr,
                 controlQueue, schedVars, loopVars, streamVars, openVars, writeVars, clPc,
                 drainVars, down, up, clientVars>>
-----------------------------------------------------------------------------
(* writerLoop *)

\* writeMessage of the control frame at the head of the queue.
WriteHead ==
  /\ controlQueue # <<>> /\ Len(down) < LinkCap
  /\ down' = Append(down, Head(controlQueue))
  /\ controlQueue' = Tail(controlQueue)
  /\ dataSince' = IF Len(controlQueue) = 1 THEN 0 ELSE dataSince

\* The non-blocking drain of the control queue, and its end.
DrainControl ==
  /\ wlPc = "control"
  /\ \/ WriteHead /\ UNCHANGED wlPc
     \/ controlQueue = <<>> /\ wlPc' = "rotation" /\ UNCHANGED <<down, controlQueue, dataSince>>
  /\ UNCHANGED <<connVars, schedVars, turn, held, streamVars, openVars, writeVars, clPc,
                 drainVars, up, clientVars>>

\* nextChunk: the stream at the front of the rotation, if there is one...
PopReady ==
  /\ wlPc = "rotation"
  /\ IF ready = <<>>
       THEN wlPc' = "select" /\ UNCHANGED <<ready, turn, passed>>
       ELSE /\ wlPc' = "chunk" /\ turn' = Head(ready) /\ ready' = Tail(ready)
            /\ passed' = [s \in Ids |-> [passed[s] EXCEPT ![Head(ready)] = @ + 1]]
  /\ UNCHANGED <<connVars, controlQueue, workCh, held, dataSince, streamVars, openVars, writeVars,
                 clPc, drainVars, down, up, clientVars>>

\* ...its oldest chunk: none left, dropped because the stream may send no more
\* DATA (completed with its error), or taken...
PopChunk ==
  /\ wlPc = "chunk"
  /\ IF outQueue[turn] = <<>>
       THEN wlPc' = "rotation" /\ turn' = None /\ UNCHANGED <<outQueue, held>>
     ELSE /\ outQueue' = [outQueue EXCEPT ![turn] = Tail(@)]
          /\ IF SendDone(turn)
               THEN wlPc' = "rotation" /\ turn' = None /\ UNCHANGED held
               ELSE wlPc' = "requeue" /\ held' = Head(outQueue[turn]) /\ UNCHANGED turn
  /\ UNCHANGED <<connVars, controlQueue, schedVars, dataSince, state, openVars, writeVars, clPc,
                 drainVars, down, up, clientVars>>

\* ...and the stream back to the end of the rotation while it has more.
Requeue ==
  /\ wlPc = "requeue"
  /\ wlPc' = "write"
  /\ IF outQueue[turn] # <<>>
       THEN MarkReady(turn) /\ Wake
       ELSE UNCHANGED <<ready, passed, workCh>>
  /\ UNCHANGED <<connVars, controlQueue, turn, held, dataSince, streamVars, openVars, writeVars, clPc,
                 drainVars, down, up, clientVars>>

\* After a chunk the loop looks at the control queue again.
AfterData == "control"

WriteData ==
  /\ wlPc = "write" /\ Len(down) < LinkCap
  /\ down' = Append(down, Frame("DATA", turn))
  /\ dataSince' = IF controlQueue = <<>> THEN 0 ELSE dataSince + 1
  /\ wlPc' = AfterData /\ turn' = None /\ held' = "none"
  /\ UNCHANGED <<connVars, controlQueue, schedVars, streamVars, openVars, writeVars, clPc,
                 drainVars, up, clientVars>>

\* No stream is ready: a control frame, the token, or c.closed.
Select ==
  /\ wlPc = "select"
  /\ \/ WriteHead /\ wlPc' = "control" /\ UNCHANGED workCh
     \/ workCh /\ workCh' = FALSE /\ wlPc' = "control" /\ UNCHANGED <<down, controlQueue, dataSince>>
  /\ UNCHANGED <<connVars, ready, passed, turn, held, streamVars, openVars, writeVars, clPc,
                 drainVars, up, clientVars>>

\* The loop returns from its select, or from a write that fails on the closed socket.
WriterStops ==
  /\ closed /\ wlPc \in {"control", "select", "write"}
  /\ wlPc' = "stopped" /\ turn' = None /\ held' = "none"
  /\ UNCHANGED <<connVars, controlQueue, schedVars, dataSince, streamVars, openVars, writeVars, clPc,
                 drainVars, down, up, clientVars>>
-----------------------------------------------------------------------------
(* The server's dispatch of what the client sends *)

\* The read loop ends with its own error; Drain's Close leaves it running.
ServerDispatching(type) == up # <<>> /\ Head(up).type = type /\ connErr.server \in {"none", "going_away"}

\* lookupLiveStream: the ids of frames a read loop may pass on to a stream.
NeverOpened(id, highest) == id > highest

\* Mutant: the second side's CLOSE does not close the stream.
AfterCloseHalf(p) == IF p = "half_closed_local" THEN p ELSE "half_closed_remote"
\* handleClose's transition.
AfterClose(p) == IF p = "open" THEN "half_closed_remote" ELSE "closed"

\* handleStreamClose, with handleClose and retireStream or resetStream behind it.
HandleClose ==
  /\ ServerDispatching("CLOSE")
  /\ up' = Tail(up)
  /\ LET s == Head(up).id IN
       IF NeverOpened(s, highestOpened)
         THEN /\ connErr' = [connErr EXCEPT !.server = IF @ = "none" THEN "never_opened" ELSE @]
              /\ UNCHANGED <<streams, state, opPc, controlQueue>>
       ELSE /\ UNCHANGED connErr
            /\ IF s \notin streams
                 THEN UNCHANGED <<streams, state, opPc, controlQueue>>
               ELSE /\ state' = [state EXCEPT ![s] = AfterClose(@)]
                    /\ IF AfterClose(state[s]) = "closed"
                         THEN RetireStream(s) ELSE UNCHANGED <<streams, opPc>>
                    /\ IF state[s] = "half_closed_remote"     \* duplicate CLOSE
                         THEN SendControlFrame(Frame("RESET", s))
                         ELSE UNCHANGED controlQueue
  /\ UNCHANGED <<nextStreamID, highestOpened, draining, announcedLastID, openMu, closed,
                 schedVars, loopVars, outQueue, opId, writeVars, clPc, drainVars, down, clientVars>>

\* handleStreamReset.
HandleReset ==
  /\ ServerDispatching("RESET")
  /\ up' = Tail(up)
  /\ LET s == Head(up).id IN
       IF NeverOpened(s, highestOpened)
         THEN /\ connErr' = [connErr EXCEPT !.server = IF @ = "none" THEN "never_opened" ELSE @]
              /\ UNCHANGED <<streams, state, opPc>>
       ELSE /\ UNCHANGED connErr
            /\ IF s \notin streams
                 THEN UNCHANGED <<streams, state, opPc>>
                 ELSE state' = [state EXCEPT ![s] = "closed"] /\ RetireStream(s)
  /\ UNCHANGED <<nextStreamID, highestOpened, draining, announcedLastID, openMu, closed, controlQueue,
                 schedVars, loopVars, outQueue, opId, writeVars, clPc, drainVars, down, clientVars>>
-----------------------------------------------------------------------------
(* The client: its dispatch, and its application's half-closes and resets *)

serverVars == <<nextStreamID, highestOpened, streams, draining, announcedLastID, openMu, closed,
                controlQueue, schedVars, loopVars, streamVars, openVars, writeVars, clPc, drainVars>>

Dispatching(type) == down # <<>> /\ Head(down).type = type /\ connErr.client = "none"
FailClient(code) == connErr' = [connErr EXCEPT !.client = code]

\* handleRemoteOpen: not above the highest id, above the announced last one, refused
\* because the table is full, or opened.  Refusals that exceed the declared cap too
\* are counted towards ENHANCE_YOUR_CALM.
HandleRemoteOpen ==
  /\ Dispatching("OPEN")
  /\ down' = Tail(down)
  /\ LET id == Head(down).id
         full == Cardinality(cStreams) >= ClientMaxStreams
         misbehaved == full /\ Cardinality(cStreams) >= MaxStreams
     IN IF id <= cHighest
          THEN FailClient("open_not_increasing") /\ UNCHANGED <<up, cHighest, cStreams, cState, cRefused>>
        ELSE IF cDrained /\ id > cLastID
          THEN FailClient("open_past_drain") /\ UNCHANGED <<up, cHighest, cStreams, cState, cRefused>>
        ELSE /\ cHighest' = id
             /\ up' = IF full THEN Append(up, Frame("RESET", id)) ELSE up
             /\ cStreams' = IF full THEN cStreams ELSE cStreams \cup {id}
             /\ cState' = IF full THEN cState ELSE [cState EXCEPT ![id] = "open"]
             /\ cRefused' = IF misbehaved THEN cRefused + 1 ELSE cRefused
             /\ IF misbehaved /\ cRefused + 1 >= RefusedOpenLimit
                  THEN FailClient("enhance_your_calm")
                  ELSE UNCHANGED connErr
  /\ UNCHANGED <<serverVars, cDrained, cLastID>>

\* handleStreamData: after the peer's CLOSE it is answered with RESET.
ClientData ==
  /\ Dispatching("DATA")
  /\ down' = Tail(down)
  /\ LET s == Head(down).id
         late == s \in cStreams /\ cState[s] \notin {"open", "half_closed_local"}
     IN /\ IF NeverOpened(s, cHighest) THEN FailClient("data_never_opened") ELSE UNCHANGED connErr
        /\ IF late
             THEN /\ cState' = [cState EXCEPT ![s] = "closed"] /\ cStreams' = cStreams \ {s}
                  /\ up' = Append(up, Frame("RESET", s))
             ELSE UNCHANGED <<cState, cStreams, up>>
  /\ UNCHANGED <<serverVars, cHighest, cDrained, cLastID, cRefused>>

\* handleStreamClose and handleStreamReset; a stream closed both ways is retired.
ClientCloseOrReset ==
  /\ Dispatching("CLOSE") \/ Dispatching("RESET")
  /\ down' = Tail(down)
  /\ LET s == Head(down).id IN
       /\ IF NeverOpened(s, cHighest)
            THEN FailClient(IF Head(down).type = "RESET" THEN "reset_never_opened" ELSE "close_never_opened")
            ELSE UNCHANGED connErr
       /\ LET p == IF Head(down).type = "CLOSE" THEN AfterClose(cState[s]) ELSE "closed" IN
            IF s \notin cStreams
              THEN UNCHANGED <<cState, cStreams>>
              ELSE /\ cState' = [cState EXCEPT ![s] = p]
                   /\ cStreams' = IF p = "closed" THEN cStreams \ {s} ELSE cStreams
       /\ up' = IF s \in cStreams /\ Head(down).type = "CLOSE" /\ cState[s] = "half_closed_remote"
                  THEN Append(up, Frame("RESET", s)) ELSE up     \* duplicate CLOSE
  /\ UNCHANGED <<serverVars, cHighest, cDrained, cLastID, cRefused>>

\* handleDrainMsg.
HandleDrain ==
  /\ Dispatching("DRAIN")
  /\ down' = Tail(down)
  /\ cDrained' = TRUE /\ cLastID' = Head(down).id
  /\ UNCHANGED <<serverVars, connErr, up, cHighest, cStreams, cState, cRefused>>

\* CloseWrite.  The steps of the client's calls are module Stream's; here each is one.
ClientCloseWrite(s) ==
  /\ connErr.client = "none" /\ "CloseWrite" \in ClientCalls
  /\ cState[s] \in {"open", "half_closed_remote"}
  /\ cState' = [cState EXCEPT ![s] = IF @ = "open" THEN "half_closed_local" ELSE "closed"]
  /\ cStreams' = IF cState[s] = "open" THEN cStreams ELSE cStreams \ {s}
  /\ up' = Append(up, Frame("CLOSE", s))
  /\ UNCHANGED <<serverVars, connErr, down, cHighest, cDrained, cLastID, cRefused>>

ClientReset(s) ==
  /\ connErr.client = "none" /\ "Reset" \in ClientCalls
  /\ s \in cStreams /\ cState[s] # "closed"
  /\ cState' = [cState EXCEPT ![s] = "closed"]
  /\ cStreams' = cStreams \ {s}
  /\ up' = Append(up, Frame("RESET", s))
  /\ UNCHANGED <<serverVars, connErr, down, cHighest, cDrained, cLastID, cRefused>>
-----------------------------------------------------------------------------
OpenSteps(o) == OpenStream(o) \/ CheckSlots(o) \/ AllocateStream(o) \/ EnqueueOpen(o) \/ OpenConnClosed(o)
WriteSteps(s) == QueueChunk(s) \/ MarkStreamReady(s) \/ WakeWriter(s) \/ ChunkDone(s) \/ WriteConnClosed(s)
CloseSteps(s) == Retire(s) \/ SendCloseOrReset(s)
AppCalls(s) == Write(s) \/ CancelWrite(s) \/ CloseWrite(s) \/ Reset(s)
DrainSteps == SendDrain \/ DrainWaitOver \/ (\E s \in Ids : ResetSurvivor(s)) \/ RetireSurvivor
                \/ SendSurvivorReset \/ DrainClose
WriterLoop == DrainControl \/ PopReady \/ PopChunk \/ Requeue \/ WriteData \/ Select \/ WriterStops
ServerReads == HandleClose \/ HandleReset
ClientReads == HandleRemoteOpen \/ ClientData \/ ClientCloseOrReset \/ HandleDrain
ClientApp(s) == ClientCloseWrite(s) \/ ClientReset(s)

Next ==
  \/ \E o \in Openers : OpenSteps(o) \/ OpenCancelled(o)
  \/ \E s \in Ids : WriteSteps(s) \/ CloseSteps(s) \/ AppCalls(s) \/ ClientApp(s)
  \/ Drain \/ DrainSteps \/ WriterLoop \/ ServerReads \/ ClientReads \/ ConnEnds

Spec == Init /\ [][Next]_vars

\* Goroutines that can run do run, and the transport delivers.  Weak fairness is
\* enough: the calls that compete for openMu and for room in the control queue are
\* finitely many.  A drain that was started goes on.  Nothing is assumed of what the
\* applications write, cancel, close, reset or drain.
Fairness ==
  /\ \A o \in Openers : WF_vars(OpenSteps(o))
  /\ \A s \in Ids : WF_vars(WriteSteps(s)) /\ WF_vars(CloseSteps(s))
  /\ WF_vars(DrainSteps) /\ WF_vars(WriterLoop) /\ WF_vars(ServerReads) /\ WF_vars(ClientReads)
  /\ WF_vars(ConnEnds) /\ WF_vars(drPc = "called" /\ Drain)
FairSpec == Spec /\ Fairness
-----------------------------------------------------------------------------
(* Properties *)

\* The peer never sees an OPEN whose id is not above the ones before it, although any
\* number of OpenStream calls race for ids and for room in the control queue (openMu).
OpensIncrease == connErr.client # "open_not_increasing"

\* The peer never sees an OPEN above the last_stream_id a drain announced, although
\* OpenStream calls that hold an id when Drain starts queue their OPEN after it.
OpensWithinDrain == connErr.client # "open_past_drain"

\* So no OPEN of this server is a protocol error to the peer: ids are allocated, queued
\* and announced by Drain in different critical sections.
OpensLegal == OpensIncrease /\ OpensWithinDrain

\* The server never has more streams than the handshake allows, although OpenStream
\* looks at the table in one critical section and adds to it in another.
WithinMaxStreams == Cardinality(streams) <= MaxStreams

\* When nothing is in flight the two ends' tables hold the same streams, in mirrored
\* states: no id is leaked by racing half-closes, resets, refusals and retirements.
Quiet ==
  /\ controlQueue = <<>> /\ down = <<>> /\ up = <<>> /\ connErr = [server |-> "none", client |-> "none"]
  /\ \A o \in Openers : opPc[o] # "enqueue"
  /\ \A s \in Ids : clPc[s] = "idle"
  /\ drPc \notin {"retire", "reset_send"}
Mirror(p) ==
  IF p = "half_closed_local" THEN "half_closed_remote"
  ELSE IF p = "half_closed_remote" THEN "half_closed_local" ELSE p
TablesAgree == Quiet => streams = cStreams /\ \A s \in streams : cState[s] = Mirror(state[s])

\* Round robin: while a stream waits in the rotation, no other stream has two turns,
\* although both Write and nextChunk put streams back into it; and a queued control
\* frame is overtaken by at most one DATA frame.
RoundRobin ==
  /\ \A s \in ToSet(ready), t \in Ids : passed[s][t] <= 1
  /\ dataSince <= 1

\* Every Write returns, with no help of its context: its chunk is written, or completed with
\* an error when the stream ends under it.  This is not said of a stream that has ended with
\* the chunk of an earlier, cancelled Write in its queue (see QueuedChunkCompletes).
WritesReturn == \A s \in Ids :
  wrPc[s] # "idle" ~> wrPc[s] = "idle" \/ (cancels[s] > 0 /\ SendDone(s))

\* "A chunk still queued once the stream can no longer send DATA ... is completed with the
\* stream's error": every Write returns, behind a cancelled one too.
QueuedChunkCompletes == \A s \in Ids : wrPc[s] # "idle" ~> wrPc[s] = "idle"

\* A parked OpenStream is released when a slot is free or the connection has ended.
OpenStreamReturns == \A o \in Openers :
  (opPc[o] = "wait" /\ (Cardinality(streams) < MaxStreams \/ closed)) ~> opPc[o] # "wait"

\* A drain ends, with the connection closed; and so does a connection whose OpenStream fails,
\* its ids used up among other reasons: none lives on that can open no stream.
DrainEnds == draining \/ (\E o \in Openers : opPc[o] = "failed") ~> closed

\* The peer never sees DATA for a stream it has not seen OPEN for.
OpenBeforeData == connErr.client # "data_never_opened"

\* The peer never sees RESET for a stream it has not seen OPEN for.
OpenBeforeReset == connErr.client # "reset_never_opened"
-----------------------------------------------------------------------------
(* The inductive invariant of opening and draining *)

Frames == [type : {"OPEN", "DATA", "CLOSE", "RESET", "DRAIN"}, id : Nat]
Errors == {"none", "going_away", "never_opened", "open_not_increasing", "open_past_drain",
           "enhance_your_calm", "data_never_opened", "close_never_opened", "reset_never_opened"}

IdType ==
  /\ nextStreamID \in Nat /\ highestOpened \in Nat /\ announcedLastID \in Nat
  /\ cHighest \in Nat /\ cLastID \in Nat /\ draining \in BOOLEAN /\ cDrained \in BOOLEAN
QueueType == controlQueue \in Seq(Frames) /\ down \in Seq(Frames)
OpenerType ==
  /\ opPc \in [Openers -> {"call", "check", "wait", "allocate", "enqueue", "opened", "failed", "cancelled"}]
  /\ opId \in [Openers -> Nat] /\ openMu \in Openers \cup {None}
OtherType ==
  /\ survivors \subseteq Nat /\ sweeping \in Nat
  /\ drPc \in {"idle", "called", "send", "wait", "sweep", "retire", "reset_send", "done"}
  /\ connErr \in [server : Errors, client : Errors]
TypeOK == IdType /\ QueueType /\ OpenerType /\ OtherType

\* The table is finite and within its cap.
TableInv == streams \subseteq Nat /\ IsFiniteSet(streams) /\ WithinMaxStreams

\* Who holds openMu holds the highest id; Drain comes after the last id it announces.
AllocInv ==
  /\ highestOpened < nextStreamID
  /\ \A o \in Openers : opPc[o] = "enqueue" <=> openMu = o
  /\ \A o \in Openers : openMu = o => opId[o] = highestOpened
  /\ draining <=> drPc \notin {"idle", "called"}
  /\ draining => announcedLastID = highestOpened

\* The OPENs on their way, in the order the client will see them, rise from the last one it
\* saw; the id that openMu guards is above them all.
Newest == IF openMu = None THEN highestOpened + 1 ELSE highestOpened
OrderInv ==
  /\ cHighest < Newest
  /\ \A i \in 1..Len(down) : down[i].type = "OPEN" =>
       /\ cHighest < down[i].id /\ down[i].id < Newest
       /\ \A j \in 1..Len(down) : j < i /\ down[j].type = "OPEN" => down[j].id < down[i].id
  /\ \A i \in 1..Len(controlQueue) : controlQueue[i].type = "OPEN" =>
       /\ cHighest < controlQueue[i].id /\ controlQueue[i].id < Newest
       /\ \A j \in 1..Len(controlQueue) :
            j < i /\ controlQueue[j].type = "OPEN" => controlQueue[j].id < controlQueue[i].id
       /\ \A j \in 1..Len(down) : down[j].type = "OPEN" => down[j].id < controlQueue[i].id

\* A drain on its way, or seen by the client, names the last id there will be.
DrainInv ==
  /\ \A i \in 1..Len(down) : down[i].type = "DRAIN" => draining /\ down[i].id = announcedLastID
  /\ \A i \in 1..Len(controlQueue) :
       controlQueue[i].type = "DRAIN" => draining /\ controlQueue[i].id = announcedLastID
  /\ cDrained => draining /\ cLastID = announcedLastID

\* Why no OPEN is a protocol error to the client.
OpenInv == TypeOK /\ TableInv /\ AllocInv /\ OrderInv /\ DrainInv /\ OpensLegal

(* The inductive invariant of the rotation *)

\* While nextChunk serves a stream, turn is that stream.
TurnType == turn \in Ids \cup {None} /\ (wlPc \in {"chunk", "requeue", "write"} => turn \in Ids)

\* No stream is in the rotation twice; one that is ahead of another has had no turn since
\* the other went in.
TurnInv ==
  /\ ready \in Seq(Ids) /\ passed \in [Ids -> [Ids -> Nat]]
  /\ \A i, j \in 1..Len(ready) : i < j => ready[i] # ready[j] /\ passed[ready[j]][ready[i]] = 0
  /\ \A i \in 1..Len(ready) : passed[ready[i]][ready[i]] = 0 /\ \A t \in Ids : passed[ready[i]][t] <= 1

\* No DATA overtook a control frame since the loop last found the control queue empty.
DataInv ==
  /\ dataSince \in 0..1
  /\ controlQueue = <<>> => dataSince = 0
  /\ wlPc \in {"rotation", "chunk", "requeue", "write", "select"} => dataSince = 0

\* Why the rotation is round robin, and control frames come first.
RotationInv == TurnType /\ TurnInv /\ DataInv

(* The inductive invariant of the two tables *)

Carries(q, type, s) == \E i \in 1..Len(q) : q[i].type = type /\ q[i].id = s

\* What the client is still to see of a stream: frames on their way, and the ones that
\* goroutines of the server are committed to queue.
Sent(type, s) == Carries(controlQueue, type, s) \/ Carries(down, type, s)
OpenDue(s)    == Sent("OPEN", s) \/ \E o \in Openers : opPc[o] = "enqueue" /\ opId[o] = s
CloseDue(s)   == Sent("CLOSE", s) \/ clPc[s] \in {"close_retire", "close_send"}
ResetDue(s)   ==
  \/ Sent("RESET", s) \/ clPc[s] \in {"reset_retire", "reset_send"}
  \/ drPc \in {"retire", "reset_send"} /\ sweeping = s

StreamStates == {"none", "open", "half_closed_local", "half_closed_remote", "closed"}
EndsType ==
  /\ state \in [Ids -> StreamStates] /\ cState \in [Ids -> StreamStates]
  /\ streams \subseteq Ids /\ cStreams \subseteq Ids /\ survivors \subseteq Ids
  /\ clPc \in [Ids -> {"idle", "close_retire", "reset_retire", "close_send", "reset_send"}]
  /\ up \in Seq([type : {"CLOSE", "RESET"}, id : Ids])
  /\ sweeping \in Ids \cup {None} /\ closed \in BOOLEAN

\* Each id is one opener's, so they never run out of Ids.
HasId == {o \in Openers : opId[o] # None}
CountInv ==
  /\ nextStreamID = 2 * Cardinality(HasId) + 1
  /\ nextStreamID \in {1, highestOpened + 2}
  /\ \A o \in Openers : opPc[o] \notin {"enqueue", "opened"} => opId[o] = None
  /\ \A o \in Openers : opId[o] # None => opId[o] \in Ids /\ opId[o] <= highestOpened
  /\ \A i \in 1..Len(controlQueue) : controlQueue[i].type = "OPEN" => controlQueue[i].id \in Ids
  /\ \A i \in 1..Len(down) : down[i].type = "OPEN" => down[i].id \in Ids

\* The server's end of a stream: out of the table once closed, and told to the client
\* after that.
ServerEnd(s) ==
  /\ state[s] = "none" <=> s > highestOpened
  /\ s \in survivors => s <= highestOpened
  /\ s \in streams => state[s] # "none"
  /\ s \notin streams => state[s] \in {"none", "closed"}
  /\ s \in streams /\ state[s] = "closed" =>
       clPc[s] \in {"close_retire", "reset_retire"} \/ (drPc = "retire" /\ sweeping = s)
  /\ CloseDue(s) => state[s] \in {"half_closed_local", "closed"}
  /\ ResetDue(s) \/ clPc[s] = "close_retire" => state[s] = "closed"
  /\ Sent("RESET", s) \/ clPc[s] = "reset_send" \/ (drPc = "reset_send" /\ sweeping = s) => s \notin streams
\* The client's.
ClientEnd(s) ==
  /\ s \in cStreams <=> cState[s] \in {"open", "half_closed_local", "half_closed_remote"}
  /\ s \in cStreams => s <= cHighest
  /\ Carries(up, "CLOSE", s) => s <= cHighest /\ (s \in cStreams => cState[s] = "half_closed_local")
  /\ Carries(up, "RESET", s) => s <= cHighest /\ s \notin cStreams
EndsInv ==
  /\ closed => connErr.server # "none" \/ connErr.client # "none"
  /\ drPc \in {"retire", "reset_send"} => sweeping \in Ids
  /\ \A s \in Ids : ServerEnd(s) /\ ClientEnd(s)

\* While neither end has failed, the ends differ by what is in flight between them.  A
\* stream whose OPEN is on its way is as good as open at the client.
ClientView(s) == IF s > cHighest THEN "open" ELSE IF s \in cStreams THEN cState[s] ELSE "closed"
Mirrored(s) ==
  /\ s > cHighest => OpenDue(s)
  /\ ClientView(s) = "open" =>
       \/ state[s] = "open"
       \/ state[s] = "half_closed_local" /\ CloseDue(s)
       \/ state[s] = "closed" /\ ResetDue(s)
  /\ ClientView(s) = "half_closed_local" =>
       \/ state[s] = "open" /\ Carries(up, "CLOSE", s)
       \/ state[s] = "half_closed_remote"
       \/ state[s] = "half_closed_local" /\ CloseDue(s) /\ Carries(up, "CLOSE", s)
       \/ state[s] = "closed" /\ (CloseDue(s) \/ ResetDue(s))
  /\ ClientView(s) = "half_closed_remote" =>
       \/ state[s] = "half_closed_local"
       \/ state[s] = "closed" /\ ResetDue(s)
  /\ ClientView(s) = "closed" =>
       \/ state[s] = "closed"
       \/ Carries(up, "RESET", s)
       \/ state[s] = "half_closed_local" /\ Carries(up, "CLOSE", s)
Healthy == connErr.server = "none" /\ connErr.client = "none"
MirrorInv == Healthy => \A s \in Ids : state[s] # "none" => Mirrored(s)

\* Why no id is leaked.
TablesInv == EndsType /\ CountInv /\ EndsInv /\ MirrorInv
=============================================================================
