----------------------------- MODULE Lifecycle ------------------------------
(* One end of a connection from the upgrade to c.closed (accept.go,          *)
(* client.go, conn.go, dispatch.go, keepalive.go): the handshake and its     *)
(* timer, Run, the five loops, the delivery queue and its gate, and the ways *)
(* a connection ends, all of which meet in closeOnce.                        *)
(*                                                                           *)
(* An actor that ends the connection walks through endPc:                    *)
(*   once    about to call closeOnce.Do                                      *)
(*   mark    inside it, before the c.mu section                              *)
(*   say     fail, Close: error{} not queued or written yet                  *)
(*   flush   Close before Run: writing what is queued                        *)
(*   shut    CloseNow and close(c.closed) to come                            *)
(*   out     the call of closeOnce.Do has returned                           *)
(* Every c.mu section, queue operation and socket call is one action.        *)
EXTENDS Integers, Sequences

CONSTANTS
  Roles,             \* roles this end may have, of {"server", "client"}
  ControlQueueCap,   \* capacity of controlQueue
  DeliveryQueueCap,  \* deliveryQueueCapacity
  MaxFrames,         \* bound: frames the peer sends after the handshake
  MaxApps            \* bound: SendApp calls

ASSUME LifecycleAssumption ==
  /\ Roles \subseteq {"server", "client"}
  /\ ControlQueueCap \in Nat \ {0} /\ DeliveryQueueCap \in Nat \ {0}
  /\ MaxFrames \in Nat /\ MaxApps \in Nat

\* Who may end the connection: the handshake's timer and its goroutine (AcceptConn or
\* Dial), the application's Close, and three of the loops.
Actors == {"timer", "handshake", "app", "reader", "watchdog", "writer"}

VARIABLES
  role,
  once,                   \* closeOnce: "free", the actor inside it, or "done"
  closed, err, running, preRunClosed, localCloseInitiated, observedCloseReason,
  controlQueue, deliveryQueue,
  deliveryState, gateOpen,
  ws,                     \* the socket: "open", "closing" (close frame sent), "dead"
  errorsSent,             \* error{} messages written to it
  timer, claimed, hsPc,   \* the handshake
  endPc, how, sawRunning, flushLeft, closerPc,
  rlPc, rlFrame, wlPc, wdPc, dlPc, dlLeft,
  frames, apps,           \* frames read after the handshake, SendApp calls so far
  arrived,                \* events enqueued so far; they are numbered
  delivered,              \* events handed to the application
  owed,                   \* events enqueued when c.closed was closed
  toldError               \* the peer's error{} was the first thing to end the connection

connVars  == <<once, closed, owed, err, running, preRunClosed, localCloseInitiated, observedCloseReason>>
gateVars  == <<deliveryState, gateOpen>>
hsVars    == <<timer, claimed, hsPc>>
endVars   == <<endPc, how, sawRunning, flushLeft, closerPc>>
readVars  == <<rlPc, rlFrame, frames, arrived, toldError>>
dlVars    == <<dlPc, dlLeft, delivered>>
vars == <<role, connVars, controlQueue, deliveryQueue, gateVars, ws, errorsSent, hsVars, endVars,
          readVars, wlPc, wdPc, dlVars, apps>>

\* The Client's dials hold delivery until the connection is current.  (The connection of
\* a plain Dial has no gate; once it runs it behaves as a server's.)
gated == role = "client"

\* newConn, on an upgraded socket; Dial has sent hello.
Init ==
  /\ role \in Roles
  /\ once = "free" /\ closed = FALSE /\ err = "none"
  /\ running = FALSE /\ preRunClosed = FALSE
  /\ localCloseInitiated = FALSE /\ observedCloseReason = "none"
  /\ controlQueue = <<>> /\ deliveryQueue = <<>>
  /\ deliveryState = "held" /\ gateOpen = FALSE
  /\ ws = "open" /\ errorsSent = 0
  /\ timer = "armed" /\ claimed = FALSE /\ hsPc = "wait"
  /\ endPc = [a \in Actors |-> "idle"] /\ how = [a \in Actors |-> "none"]
  /\ sawRunning = FALSE /\ flushLeft = 0 /\ closerPc = "none"
  /\ rlPc = "off" /\ rlFrame = "none" /\ wlPc = "off" /\ wdPc = "off"
  /\ dlPc = "off" /\ dlLeft = 0
  /\ frames = 0 /\ apps = 0 /\ arrived = 0 /\ owed = 0 /\ delivered = <<>> /\ toldError = FALSE
-----------------------------------------------------------------------------
(* Ending the connection *)

\* An actor is about to call closeOnce.Do with the body h.
Ends(a, h) ==
  /\ endPc' = [endPc EXCEPT ![a] = "once"]
  /\ how' = [how EXCEPT ![a] = h]
  /\ UNCHANGED <<sawRunning, flushLeft, closerPc>>

\* No body has run yet.
OnceFree == once = "free"

\* closeOnce.Do returns to its caller.
Out(a) == endPc' = [endPc EXCEPT ![a] = "out"] /\ how' = [how EXCEPT ![a] = "none"]

\* closeOnce.Do: the first caller runs its body, the others wait for it to return.
CloseOnce(a) ==
  /\ endPc[a] = "once"
  /\ \/ OnceFree /\ once' = a /\ endPc' = [endPc EXCEPT ![a] = "mark"] /\ UNCHANGED how
     \/ ~OnceFree /\ once = "done" /\ Out(a) /\ UNCHANGED once
  /\ UNCHANGED <<role, closed, owed, err, running, preRunClosed, localCloseInitiated,
                 observedCloseReason, controlQueue, deliveryQueue, gateVars, ws, errorsSent, hsVars,
                 sawRunning, flushLeft, closerPc, readVars, wlPc, wdPc, dlVars, apps>>

\* The error an actor reports.
Code(a) ==
  IF a = "timer" THEN "hello_timeout"
  ELSE IF a = "handshake" THEN "handshake"
  ELSE IF a = "app" THEN "closed"
  ELSE IF a = "watchdog" THEN "keepalive_timeout" ELSE "protocol"

\* Mutant: a Close before Run leaves no mark for Run.
ClaimsNothing == preRunClosed
\* A fail or Close that finds no writer loop keeps Run from starting one.
ClaimsPreRun == preRunClosed \/ ~running

\* fail and Close: the c.mu section.
MarkFail(a) ==
  /\ endPc[a] = "mark" /\ how[a] \in {"fail", "close"}
  /\ err' = Code(a) /\ localCloseInitiated' = TRUE
  /\ sawRunning' = running
  /\ preRunClosed' = ClaimsPreRun
  /\ endPc' = [endPc EXCEPT ![a] = "say"]
  /\ UNCHANGED <<role, once, closed, owed, running, observedCloseReason, controlQueue, deliveryQueue,
                 gateVars, ws, errorsSent, hsVars, how, flushLeft, closerPc, readVars, wlPc, wdPc, dlVars, apps>>

\* The body of fail or Close returns, leaving the rest to a goroutine of its own.
SpawnCloser(a) ==
  /\ once' = "done" /\ closerPc' = "close" /\ Out(a) /\ sawRunning' = FALSE

\* Mutant: error{} is queued with a blocking send.
QueueErrorBlocking ==
  Len(controlQueue) < ControlQueueCap /\ controlQueue' = Append(controlQueue, "error")
\* error{} goes to the writer loop, unless its queue is full.
QueueError ==
  controlQueue' = IF Len(controlQueue) < ControlQueueCap THEN Append(controlQueue, "error")
                  ELSE controlQueue

SayQueued(a) ==
  /\ endPc[a] = "say" /\ sawRunning
  /\ QueueError
  /\ SpawnCloser(a)
  /\ UNCHANGED <<role, closed, owed, err, running, preRunClosed, localCloseInitiated,
                 observedCloseReason, deliveryQueue, gateVars, ws, errorsSent, hsVars,
                 flushLeft, readVars, wlPc, wdPc, dlVars, apps>>

\* A write to the socket; a failed one takes it down.
Written(m) ==
  /\ ws = "open" /\ UNCHANGED ws
  /\ errorsSent' = IF m = "error" THEN errorsSent + 1 ELSE errorsSent
WriteFails == ws' = (IF ws = "open" THEN "dead" ELSE ws) /\ UNCHANGED errorsSent

\* Before Run there is no writer loop.  fail writes error{} itself...
SayNow(a) ==
  /\ endPc[a] = "say" /\ ~sawRunning /\ how[a] = "fail"
  /\ Written("error") \/ WriteFails
  /\ SpawnCloser(a)
  /\ UNCHANGED <<role, closed, owed, err, running, preRunClosed, localCloseInitiated,
                 observedCloseReason, controlQueue, deliveryQueue, gateVars, hsVars,
                 flushLeft, readVars, wlPc, wdPc, dlVars, apps>>

\* ...and Close first writes the frames that are queued when it looks...
StartFlush(a) ==
  /\ endPc[a] = "say" /\ ~sawRunning /\ how[a] = "close"
  /\ flushLeft' = Len(controlQueue)
  /\ endPc' = [endPc EXCEPT ![a] = "flush"]
  /\ UNCHANGED <<role, connVars, controlQueue, deliveryQueue, gateVars, ws, errorsSent, hsVars, how,
                 sawRunning, closerPc, readVars, wlPc, wdPc, dlVars, apps>>

\* ...until one fails, then error{} if none did.
Flush(a) ==
  /\ endPc[a] = "flush"
  /\ IF flushLeft > 0 /\ controlQueue # <<>>
       THEN /\ controlQueue' = Tail(controlQueue)
            /\ \/ Written(Head(controlQueue)) /\ flushLeft' = flushLeft - 1
                  /\ UNCHANGED <<once, closerPc, endPc, how, sawRunning>>
               \/ WriteFails /\ SpawnCloser(a) /\ UNCHANGED flushLeft
       ELSE /\ Written("error") \/ WriteFails
            /\ SpawnCloser(a) /\ UNCHANGED <<controlQueue, flushLeft>>
  /\ UNCHANGED <<role, closed, owed, err, running, preRunClosed, localCloseInitiated,
                 observedCloseReason, deliveryQueue, gateVars, hsVars, readVars,
                 wlPc, wdPc, dlVars, apps>>

\* failWrite's c.mu section.
MarkWrite(a) ==
  /\ endPc[a] = "mark" /\ how[a] = "write"
  /\ err' = IF err = "none" THEN "write_failed" ELSE err
  /\ endPc' = [endPc EXCEPT ![a] = "shut"]
  /\ UNCHANGED <<role, once, closed, owed, running, preRunClosed, localCloseInitiated,
                 observedCloseReason, controlQueue, deliveryQueue, gateVars, ws, errorsSent, hsVars, how,
                 sawRunning, flushLeft, closerPc, readVars, wlPc, wdPc, dlVars, apps>>

\* close(c.closed).
CloseClosed == closed' = TRUE /\ owed' = arrived

\* failWrite and handleReadError: CloseNow and close(c.closed).
Shut(a) ==
  /\ endPc[a] = "shut" \/ (endPc[a] = "mark" /\ how[a] = "read")
  /\ ws' = "dead" /\ CloseClosed /\ once' = "done"
  /\ Out(a)
  /\ UNCHANGED <<role, err, running, preRunClosed, localCloseInitiated, observedCloseReason,
                 controlQueue, deliveryQueue, gateVars, errorsSent, hsVars, sawRunning, flushLeft,
                 closerPc, readVars, wlPc, wdPc, dlVars, apps>>

\* handlePeerError: no error{} in answer to one.
ClosePeerError(a) ==
  /\ endPc[a] = "mark" /\ how[a] = "peer"
  /\ SpawnCloser(a)
  /\ UNCHANGED <<role, closed, owed, err, running, preRunClosed, localCloseInitiated,
                 observedCloseReason, controlQueue, deliveryQueue, gateVars, ws, errorsSent, hsVars, flushLeft, readVars, wlPc, wdPc, dlVars, apps>>

\* The goroutine behind fail, Close and handlePeerError: the close frame is sent (after
\* 50 ms when there is a writer loop), the close handshake ends or times out, c.closed.
Closer ==
  /\ \/ closerPc = "close" /\ closerPc' = "handshake"
        /\ ws' = (IF ws = "open" THEN "closing" ELSE ws) /\ UNCHANGED <<closed, owed>>
     \/ closerPc = "handshake" /\ closerPc' = "closing" /\ ws' = "dead" /\ UNCHANGED <<closed, owed>>
     \/ closerPc = "closing" /\ closerPc' = "done" /\ CloseClosed /\ UNCHANGED ws
  /\ UNCHANGED <<role, once, err, running, preRunClosed, localCloseInitiated,
                 observedCloseReason, controlQueue, deliveryQueue, gateVars, errorsSent, hsVars, endPc, how,
                 sawRunning, flushLeft, readVars, wlPc, wdPc, dlVars, apps>>
-----------------------------------------------------------------------------
(* The handshake: runServerHandshake and clientHandshake *)

\* The timer's callback starts...
TimerFires ==
  /\ timer = "armed"
  /\ timer' = "fired"
  /\ UNCHANGED <<role, connVars, controlQueue, deliveryQueue, gateVars, ws, errorsSent, claimed, hsPc,
                 endVars, readVars, wlPc, wdPc, dlVars, apps>>

\* ...and fails the connection if the outcome is not claimed.
TimerClaims ==
  /\ timer = "fired"
  /\ timer' = "ran" /\ claimed' = TRUE
  /\ IF claimed THEN UNCHANGED endVars ELSE Ends("timer", "fail")
  /\ UNCHANGED <<role, connVars, controlQueue, deliveryQueue, gateVars, ws, errorsSent, hsPc, readVars,
                 wlPc, wdPc, dlVars, apps>>

StopTimer == timer' = IF timer = "armed" THEN "stopped" ELSE timer

\* A failed handshake: AcceptConn and Dial call fail and wait for c.closed.
Refuse == hsPc' = "failed" /\ StopTimer /\ Ends("handshake", "fail")

\* The read of hello or welcome fails.  A server takes it for the timeout; a client
\* only when the timer has claimed the outcome, and otherwise drops the socket.
HelloReadFails ==
  /\ hsPc = "wait"
  /\ IF role = "server" \/ claimed
       THEN Refuse /\ UNCHANGED <<claimed, ws>>
       ELSE /\ claimed' = TRUE /\ hsPc' = "abandoned" /\ StopTimer /\ ws' = "dead"
            /\ UNCHANGED endVars
  /\ UNCHANGED <<role, connVars, controlQueue, deliveryQueue, gateVars, errorsSent, readVars, wlPc,
                 wdPc, dlVars, apps>>

ReadHello ==
  /\ hsPc = "wait" /\ ws # "dead"
  /\ hsPc' = "claim"
  /\ UNCHANGED <<role, connVars, controlQueue, deliveryQueue, gateVars, ws, errorsSent, timer, claimed,
                 endVars, readVars, wlPc, wdPc, dlVars, apps>>

\* Mutant: the result of timer.Stop and the claim are not looked at.
HandshakeWinsAlways == TRUE
\* timer.Stop reports that the callback will not run, and so the claim succeeds.
HandshakeWins == timer = "armed" /\ ~claimed

\* A handshake whose timer.Stop fails does not try to claim (the || stops there).
ClaimHello ==
  /\ hsPc = "claim"
  /\ claimed' = (claimed \/ timer = "armed")
  /\ IF HandshakeWins
       THEN hsPc' = "answer" /\ timer' = "stopped" /\ UNCHANGED endVars
       ELSE Refuse
  /\ UNCHANGED <<role, connVars, controlQueue, deliveryQueue, gateVars, ws, errorsSent, readVars, wlPc,
                 wdPc, dlVars, apps>>

\* The message is bad or refused (by Authenticate, or by the peer's error{})...
HelloRefused ==
  /\ hsPc = "answer"
  /\ toldError' \in IF role = "client" THEN BOOLEAN ELSE {FALSE}
  /\ Refuse
  /\ UNCHANGED <<role, connVars, controlQueue, deliveryQueue, gateVars, ws, errorsSent, claimed, rlPc,
                 rlFrame, frames, arrived, wlPc, wdPc, dlVars, apps>>

\* ...or the handshake completes; a server writes welcome.
HelloAccepted ==
  /\ hsPc = "answer"
  /\ \/ role = "client" /\ hsPc' = "ready" /\ UNCHANGED <<ws, errorsSent, timer, endVars>>
     \/ role = "server" /\ Written("welcome") /\ hsPc' = "ready" /\ UNCHANGED <<timer, endVars>>
     \/ role = "server" /\ WriteFails /\ Refuse
  /\ UNCHANGED <<role, connVars, controlQueue, deliveryQueue, gateVars, claimed, readVars, wlPc,
                 wdPc, dlVars, apps>>
-----------------------------------------------------------------------------
(* Run and the application.  A server's application has the Conn before Run. *)

Run ==
  /\ hsPc = "ready"
  /\ hsPc' = "ran"
  /\ IF preRunClosed
       THEN UNCHANGED <<running, rlPc, wlPc, wdPc, dlPc>>
       ELSE /\ running' = TRUE
            /\ rlPc' = "read" /\ wlPc' = "loop" /\ wdPc' = "watch"
            /\ dlPc' = IF gated THEN "gate" ELSE "loop"
  /\ UNCHANGED <<role, once, closed, owed, err, preRunClosed, localCloseInitiated,
                 observedCloseReason, controlQueue, deliveryQueue, gateVars, ws, errorsSent, timer, claimed,
                 endVars, rlFrame, frames, arrived, toldError, dlLeft, delivered, apps>>

HasConn == hsPc = "ran" \/ (hsPc = "ready" /\ role = "server")

Close ==
  /\ HasConn /\ endPc["app"] = "idle"
  /\ Ends("app", "close")
  /\ UNCHANGED <<role, connVars, controlQueue, deliveryQueue, gateVars, ws, errorsSent, hsVars,
                 readVars, wlPc, wdPc, dlVars, apps>>

SendApp ==
  /\ HasConn /\ ~closed /\ apps < MaxApps
  /\ Len(controlQueue) < ControlQueueCap
  /\ controlQueue' = Append(controlQueue, "app")
  /\ apps' = apps + 1
  /\ UNCHANGED <<role, connVars, deliveryQueue, gateVars, ws, errorsSent, hsVars, endVars, readVars,
                 wlPc, wdPc, dlVars>>

\* releaseDelivery, as the Client makes the connection current: the c.mu section, then
\* the gate.
ReleaseDelivery ==
  /\ gated /\ hsPc = "ran"
  /\ \/ deliveryState = "held" /\ deliveryState' = (IF closed THEN "dropped" ELSE "released")
        /\ UNCHANGED gateOpen
     \/ deliveryState = "released" /\ ~gateOpen /\ gateOpen' = TRUE /\ UNCHANGED deliveryState
  /\ UNCHANGED <<role, connVars, controlQueue, deliveryQueue, ws, errorsSent, hsVars, endVars,
                 readVars, wlPc, wdPc, dlVars, apps>>
-----------------------------------------------------------------------------
(* readerLoop *)

\* ws.Read returns a frame (an event for the application, a ping, a violation or
\* error{}), or an error: a close frame of the peer's, its echo of ours, or none.
Frames == {"event", "ping", "bad", "error"}
Read ==
  /\ rlPc = "read"
  /\ \/ ws # "dead" /\ frames < MaxFrames /\ frames' = frames + 1 /\ rlFrame' \in Frames
     \/ ws = "open" /\ rlFrame' = "peer_close" /\ UNCHANGED frames
     \/ ws = "closing" /\ rlFrame' = "echo" /\ UNCHANGED frames
     \/ rlFrame' = "gone" /\ UNCHANGED frames
  /\ rlPc' = "dispatch"
  /\ UNCHANGED <<role, connVars, controlQueue, deliveryQueue, gateVars, ws, errorsSent, hsVars,
                 endVars, arrived, toldError, wlPc, wdPc, dlVars, apps>>

\* enqueueDelivery; a full queue fails the connection.
EnqueueDelivery ==
  /\ rlPc = "dispatch" /\ rlFrame = "event"
  /\ rlFrame' = "none"
  /\ IF Len(deliveryQueue) < DeliveryQueueCap
       THEN /\ deliveryQueue' = Append(deliveryQueue, arrived + 1)
            /\ arrived' = arrived + 1
            /\ rlPc' = "read" /\ UNCHANGED endVars
       ELSE Ends("reader", "fail") /\ rlPc' = "stopped" /\ UNCHANGED <<deliveryQueue, arrived>>
  /\ UNCHANGED <<role, connVars, controlQueue, gateVars, ws, errorsSent, hsVars, frames, toldError,
                 wlPc, wdPc, dlVars, apps>>

\* A ping is answered through sendControlFrame, which waits for room or c.closed.
HandlePing ==
  /\ rlPc = "dispatch" /\ rlFrame = "ping"
  /\ \/ Len(controlQueue) < ControlQueueCap /\ controlQueue' = Append(controlQueue, "pong")
     \/ closed /\ UNCHANGED controlQueue
  /\ rlPc' = "read" /\ rlFrame' = "none"
  /\ UNCHANGED <<role, connVars, deliveryQueue, gateVars, ws, errorsSent, hsVars, endVars, frames,
                 arrived, toldError, wlPc, wdPc, dlVars, apps>>

FailProtocol ==
  /\ rlPc = "dispatch" /\ rlFrame = "bad"
  /\ rlPc' = "stopped" /\ rlFrame' = "none"
  /\ Ends("reader", "fail")
  /\ UNCHANGED <<role, connVars, controlQueue, deliveryQueue, gateVars, ws, errorsSent, hsVars, frames,
                 arrived, toldError, wlPc, wdPc, dlVars, apps>>

\* Mutant: the peer's error replaces an earlier one.
PeerErrReplaces == "peer_error"
\* The first error is kept.
PeerErr == IF err = "none" THEN "peer_error" ELSE err

HandlePeerError ==
  /\ rlPc = "dispatch" /\ rlFrame = "error"
  /\ rlPc' = "stopped" /\ rlFrame' = "none"
  /\ toldError' = (\A a \in Actors : endPc[a] = "idle")
  /\ err' = PeerErr /\ localCloseInitiated' = TRUE
  /\ Ends("reader", "peer")
  /\ UNCHANGED <<role, once, closed, owed, running, preRunClosed, observedCloseReason, controlQueue,
                 deliveryQueue, gateVars, ws, errorsSent, hsVars, frames, arrived, wlPc, wdPc, dlVars, apps>>

\* The reason of a close frame counts as the peer's unless this end closed.
Reason == IF localCloseInitiated THEN observedCloseReason ELSE rlFrame

HandleReadError ==
  /\ rlPc = "dispatch" /\ rlFrame \in {"peer_close", "echo", "gone"}
  /\ rlPc' = "stopped" /\ rlFrame' = "none"
  /\ observedCloseReason' = Reason
  /\ err' = IF rlFrame # "gone" /\ err = "none" THEN "peer_closed" ELSE err
  /\ Ends("reader", "read")
  /\ UNCHANGED <<role, once, closed, owed, running, preRunClosed, localCloseInitiated, controlQueue,
                 deliveryQueue, gateVars, ws, errorsSent, hsVars, frames, arrived, toldError, wlPc, wdPc,
                 dlVars, apps>>
-----------------------------------------------------------------------------
(* writerLoop, watchdogLoop, deliveryLoop *)

\* A control frame is written, or the write fails and failWrite ends the connection.
WriteMessage ==
  /\ wlPc = "loop" /\ controlQueue # <<>>
  /\ controlQueue' = Tail(controlQueue)
  /\ \/ Written(Head(controlQueue)) /\ UNCHANGED <<wlPc, endVars>>
     \/ WriteFails /\ wlPc' = "stopped" /\ Ends("writer", "write")
  /\ UNCHANGED <<role, connVars, deliveryQueue, gateVars, hsVars, readVars, wdPc, dlVars, apps>>

\* The writer loop's select sees c.closed.
WriterStops ==
  /\ wlPc = "loop" /\ closed
  /\ wlPc' = "stopped"
  /\ UNCHANGED <<role, connVars, controlQueue, deliveryQueue, gateVars, ws, errorsSent, hsVars, endVars,
                 readVars, wdPc, dlVars, apps>>

\* The watchdog gives up on the peer, or sees c.closed.
Watchdog ==
  /\ wdPc = "watch"
  /\ wdPc' = "stopped"
  /\ Ends("watchdog", "fail") \/ (closed /\ UNCHANGED endVars)
  /\ UNCHANGED <<role, connVars, controlQueue, deliveryQueue, gateVars, ws, errorsSent, hsVars,
                 readVars, wlPc, dlVars, apps>>

\* Mutant: a connection that ends while its gate is shut delivers its backlog.
EndsHeldDelivers == deliveryState' = deliveryState /\ dlPc' = "loop"
\* A connection that ends before it is current owes nothing.
EndsHeld ==
  /\ deliveryState' = IF deliveryState = "held" THEN "dropped" ELSE deliveryState
  /\ dlPc' = IF deliveryState = "released" THEN "loop" ELSE "stopped"

\* deliveryLoop at the gate.
DeliveryGate ==
  /\ dlPc = "gate"
  /\ \/ gateOpen /\ dlPc' = "loop" /\ UNCHANGED deliveryState
     \/ closed /\ EndsHeld
  /\ UNCHANGED <<role, connVars, controlQueue, deliveryQueue, gateOpen, ws, errorsSent, hsVars, endVars,
                 readVars, wlPc, wdPc, dlLeft, delivered, apps>>

DeliverEvent ==
  /\ deliveryQueue # <<>>
  /\ delivered' = Append(delivered, Head(deliveryQueue))
  /\ deliveryQueue' = Tail(deliveryQueue)

\* When c.closed is closed the loop flushes what is queued.
AfterClose == "flush"

DeliveryLoop ==
  /\ dlPc = "loop"
  /\ \/ DeliverEvent /\ UNCHANGED <<dlPc, dlLeft>>
     \/ closed /\ dlPc' = AfterClose /\ dlLeft' = DeliveryQueueCap
        /\ UNCHANGED <<deliveryQueue, delivered>>
  /\ UNCHANGED <<role, connVars, controlQueue, gateVars, ws, errorsSent, hsVars, endVars, readVars,
                 wlPc, wdPc, apps>>

\* flushDeliveryQueue: at most as many events as the queue holds.
FlushDeliveryQueue ==
  /\ dlPc = "flush"
  /\ IF dlLeft > 0 /\ deliveryQueue # <<>>
       THEN DeliverEvent /\ dlLeft' = dlLeft - 1 /\ UNCHANGED dlPc
       ELSE dlPc' = "stopped" /\ UNCHANGED <<dlLeft, deliveryQueue, delivered>>
  /\ UNCHANGED <<role, connVars, controlQueue, gateVars, ws, errorsSent, hsVars, endVars, readVars,
                 wlPc, wdPc, apps>>
-----------------------------------------------------------------------------
Ending(a) ==
  \/ CloseOnce(a) \/ MarkFail(a) \/ SayQueued(a) \/ SayNow(a) \/ StartFlush(a) \/ Flush(a)
  \/ MarkWrite(a) \/ Shut(a) \/ ClosePeerError(a)
Handshake == HelloReadFails \/ ReadHello \/ ClaimHello \/ HelloRefused \/ HelloAccepted
Timer == TimerFires \/ TimerClaims
Reader == Read \/ EnqueueDelivery \/ HandlePing \/ FailProtocol \/ HandlePeerError \/ HandleReadError
Writer == WriteMessage \/ WriterStops
Delivery == DeliveryGate \/ DeliveryLoop \/ FlushDeliveryQueue

Next ==
  \/ \E a \in Actors : Ending(a)
  \/ Closer \/ Handshake \/ Timer \/ Run \/ Close \/ SendApp \/ ReleaseDelivery
  \/ Reader \/ Writer \/ Watchdog \/ Delivery

Spec == Init /\ [][Next]_vars

\* The steps that happen without the application or the peer: goroutines that can run
\* do run, and socket reads, writes and the close handshake end (they have timeouts, and
\* CloseNow unblocks them).  A peer may stay silent: reading is fair only once the socket
\* is dead, and the watchdog need not fire.
System ==
  \/ \E a \in Actors : Ending(a)
  \/ Closer \/ Writer \/ Delivery \/ (closed /\ Watchdog)
  \/ (rlPc = "dispatch" \/ ws = "dead") /\ Reader
  \/ deliveryState = "released" /\ ReleaseDelivery

\* Each goroutine takes finitely many steps (frames and calls are bounded), so weak
\* fairness of all of them together is weak fairness of each.
Fairness == WF_vars(System)
FairSpec == Spec /\ Fairness
-----------------------------------------------------------------------------
(* Properties *)

\* Exactly one writer: fail and Close write to the socket themselves only where Run has
\* not started, and will not start, the writer loop, although Run, the hello timer,
\* AcceptConn and the application's Close run concurrently.
OneWriter == \A a \in Actors :
  endPc[a] \in {"say", "flush"} /\ ~sawRunning => wlPc = "off"

\* At most one error{} per connection, written or queued, whoever ends it and however
\* many try.
ErrorOnce ==
  /\ errorsSent <= 1
  /\ \A i \in 1..Len(controlQueue) : controlQueue[i] = "error" =>
       errorsSent = 0 /\ \A j \in 1..Len(controlQueue) : controlQueue[j] = "error" => j = i

\* The hello timer and the handshake never both decide: no connection that was welcomed
\* is ended by the timer.
OneOutcome == ~(err = "hello_timeout" /\ hsPc \in {"ready", "ran"})

\* Err() is settled once Done() fires: the error a connection ended with never changes
\* after c.closed, although the read loop and the losers of closeOnce still run.
ErrSettled == [][closed => err' = err]_vars

\* PeerCloseReason is never this end's own reason, echoed by the peer.
ReasonIsPeers == observedCloseReason # "echo"

\* A connection ends once and for one reason, whichever of the read loop, the writer
\* loop, the watchdog, the hello timer, the peer and the application end it together:
\* one error{}, one decision about the handshake, and a reason that is not an echo.
EndsOnce == ErrorOnce /\ OneOutcome /\ ReasonIsPeers

\* Nothing is delivered on a Client's connection that never became current, whichever
\* of releaseDelivery, the end of the connection and the delivery loop comes first.
GateHolds == gated /\ delivered # <<>> => deliveryState = "released"

\* The connection's events are the application's: no gate, or the gate released.
Current == ~gated \/ deliveryState = "released"

\* Each event that was queued when a current connection ended is delivered before the
\* delivery loop stops.
BacklogDelivered == dlPc = "stopped" /\ Current => Len(delivered) >= owed

\* The application is given the events of a current connection, and of no other:
\* releaseDelivery, the end of the connection and the delivery loop race at the gate.
DeliveredIffCurrent == GateHolds /\ BacklogDelivered

\* A connection that starts to end gets there: Close, AcceptConn and Dial return and the
\* reader, writer, watchdog and delivery loops stop, although they wait for each other at
\* closeOnce and at full queues.  (pingLoop, which waits for c.closed wherever it waits,
\* is not modelled.)
EndCompletes == once # "free" ~>
  /\ closed /\ rlPc \in {"off", "stopped"} /\ wlPc \in {"off", "stopped"}
  /\ wdPc \in {"off", "stopped"} /\ dlPc \in {"off", "stopped"}
  /\ \A a \in Actors : endPc[a] \in {"idle", "out"}

\* Every event of a current connection is delivered: the read loop is said to have
\* stopped before c.closed is closed.
EveryEventDelivered ==
  dlPc = "stopped" /\ rlPc = "stopped" /\ Current => Len(delivered) = arrived

\* An error{} is never answered with an error{}: an end that had not begun to end when
\* the peer's arrived sends none.
NeverAnswersError == toldError => errorsSent = 0
-----------------------------------------------------------------------------
(* The inductive invariant *)

Errors == {"none", "hello_timeout", "handshake", "closed", "keepalive_timeout", "protocol",
           "write_failed", "peer_error", "peer_closed"}

ConnType ==
  /\ role \in {"server", "client"} /\ once \in {"free", "done"} \cup Actors
  /\ closed \in BOOLEAN /\ running \in BOOLEAN /\ preRunClosed \in BOOLEAN
  /\ localCloseInitiated \in BOOLEAN /\ err \in Errors
  /\ observedCloseReason \in {"none", "peer_close", "echo", "gone"}
  /\ ws \in {"open", "closing", "dead"} /\ errorsSent \in Nat
  /\ deliveryState \in {"held", "released", "dropped"} /\ gateOpen \in BOOLEAN
QueueType ==
  /\ controlQueue \in Seq({"app", "pong", "error"}) /\ flushLeft \in Nat
  /\ deliveryQueue \in Seq(Nat) /\ delivered \in Seq(Nat) /\ dlLeft \in Nat
  /\ frames \in Nat /\ apps \in Nat /\ arrived \in Nat /\ owed \in Nat
EndType ==
  /\ endPc \in [Actors -> {"idle", "once", "mark", "say", "flush", "shut", "out"}]
  /\ how \in [Actors -> {"none", "fail", "close", "write", "read", "peer"}]
  /\ sawRunning \in BOOLEAN /\ closerPc \in {"none", "close", "handshake", "closing", "done"}
LoopType ==
  /\ timer \in {"armed", "fired", "ran", "stopped"} /\ claimed \in BOOLEAN
  /\ hsPc \in {"wait", "claim", "answer", "ready", "ran", "failed", "abandoned"}
  /\ rlPc \in {"off", "read", "dispatch", "stopped"}
  /\ rlFrame \in Frames \cup {"none", "peer_close", "echo", "gone"} /\ toldError \in BOOLEAN
  /\ wlPc \in {"off", "loop", "stopped"} /\ wdPc \in {"off", "watch", "stopped"}
  /\ dlPc \in {"off", "gate", "loop", "flush", "stopped"}
TypeOK == ConnType /\ QueueType /\ EndType /\ LoopType

\* The body of closeOnce has one actor in it; c.closed is closed by it or by the
\* goroutine it leaves behind.
Inside(a) == endPc[a] \in {"mark", "say", "flush", "shut"}
OnceInv ==
  /\ \A a \in Actors : Inside(a) => once = a
  /\ once \in Actors => ~closed /\ closerPc = "none"
  /\ once = "free" => ~closed /\ closerPc = "none"
  /\ closed => closerPc \in {"none", "done"}

\* The writer loop runs only after Run; an end that found no writer loop keeps Run out.
WriterInv ==
  /\ wlPc # "off" => running
  /\ hsPc # "ran" => ~running /\ rlPc = "off"
  /\ \A a \in Actors : endPc[a] \in {"say", "flush"} /\ ~sawRunning => preRunClosed /\ ~running

\* Before the body of closeOnce returns no error{} is queued or written.
ErrorInv ==
  once # "done" => errorsSent = 0 /\ \A i \in 1..Len(controlQueue) : controlQueue[i] # "error"

\* The hello timer ends only a connection whose handshake it has claimed.
TimerInv ==
  /\ hsPc \in {"answer", "ready", "ran"} => timer = "stopped"
  /\ endPc["timer"] # "idle" \/ err = "hello_timeout" => timer = "ran"

\* Whatever sends a close frame has first marked the end as this side's.
LocalInv ==
  /\ closerPc # "none" \/ ws = "closing" \/ rlFrame = "echo" => localCloseInitiated
  /\ \A a \in Actors : endPc[a] \in {"say", "flush"} \/ how[a] = "peer" => localCloseInitiated

\* c.err is recorded before c.closed is closed, unless the reader, which has stopped,
\* found nothing to record.
ErrInv ==
  /\ closed => err # "none" \/ rlPc = "stopped"
  /\ closerPc # "none" => err # "none"
  /\ \A a \in Actors :
       /\ endPc[a] \in {"say", "flush", "shut"} \/ how[a] = "peer" => err # "none"
       /\ how[a] = "read" => rlPc = "stopped"

\* Events are numbered in the order of their arrival and delivered or queued; the flush
\* after the end has room for what is owed.
DeliveryInv ==
  /\ Len(delivered) + Len(deliveryQueue) = arrived /\ Len(deliveryQueue) <= DeliveryQueueCap
  /\ owed <= arrived /\ (~closed => owed = 0)
  /\ dlPc = "flush" => closed /\ dlLeft + Len(delivered) >= owed
  /\ dlPc = "stopped" => closed
  /\ gateOpen => deliveryState = "released"
  /\ gated /\ (dlPc \in {"loop", "flush"} \/ delivered # <<>>) => deliveryState = "released"
  /\ ~gated => dlPc # "gate"

\* Why a connection ends once, for one reason and with its events delivered.
LifeInv ==
  /\ TypeOK /\ OnceInv /\ WriterInv /\ ErrorInv /\ ErrorOnce /\ TimerInv
  /\ LocalInv /\ ReasonIsPeers /\ ErrInv /\ DeliveryInv /\ BacklogDelivered
=============================================================================
