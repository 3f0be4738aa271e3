------------------------------ MODULE Session -------------------------------
(* The registration of one service (session.go), the agent that owns it        *)
(* (agent.go) and its transport's close (transport.go), against an edge that   *)
(* answers every frame once and in order, over connections that come and go.   *)
(* What the edge answers is chosen when the answer is delivered.               *)
(*                                                                             *)
(* s holds the fields of session together with what a method leaves behind     *)
(* when it releases mu: the queue of sends and events that unlockAndFlush runs *)
(* in order.  A helper that runs with mu held maps s to its next value.  A     *)
(* timer callback that had fired when it was stopped finds its generation gone *)
(* and does nothing: it is no step here.                                       *)
EXTENDS Integers, Sequences, FiniteSets

CONSTANTS
  NConns,       \* bound: connections the client makes
  MaxOps,       \* bound: disable, enable and conflict messages of the edge
  MaxReplaced,  \* bound: drains with reason "replaced"
  SendsFail     \* bound: SendApp may fail on a live connection, whose control queue is full

ASSUME SessionAssumption ==
  NConns \in Nat \ {0} /\ MaxOps \in Nat /\ MaxReplaced \in Nat /\ SendsFail \in BOOLEAN

Conns == 1 .. NConns

VARIABLES
  s,        \* the session
  up,       \* connections: "none", "up" or "ended"
  active,   \* the client's current connection, 0 when it has none
  welcomed, \* connections whose OnConnect has run up to ev.connect: 1 .. welcomed
  bound,    \* connections whose own OnApp handler is set
  left,     \* connections whose end onConnEnd has seen
  pending,  \* frames sent on each connection whose answer is not delivered yet
  agent,    \* the agent and its transport
  ops, replaced, early

vars == <<s, up, active, welcomed, bound, left, pending, agent, ops, replaced, early>>
netVars == <<up, active, welcomed, bound, left, pending, ops, replaced>>

Ending(x) == x.state \in {"closing", "closed"}

-----------------------------------------------------------------------------
(* The helpers of session.go that run with mu held                           *)

Queue(x, item) == [x EXCEPT !.queue = Append(@, item)]

NoTimer == [on |-> 0, op |-> "none"]

CancelTimers(x) == [x EXCEPT !.retry = NoTimer, !.overload = NoTimer]

\* settleLocked: the outstanding frame is answered.
Settle(x) == [x EXCEPT !.overload = NoTimer, !.outstanding = "none"]

SendRegister(x) ==
  Queue([x EXCEPT !.outstanding = "register", !.sentRegister = TRUE], [do |-> "register", on |-> x.conn])

\* Mutant: a register is sent whatever is in flight.
RegisterAnyway(x) == SendRegister(x)
\* registerLocked: one register in flight; it folds into a paused one.
Register(x) ==
  IF x.outstanding = "register" /\ x.overload.on # 0 THEN x
  ELSE IF x.outstanding # "none" THEN [x EXCEPT !.registerQueued = TRUE]
  ELSE SendRegister(x)

FlushQueuedRegister(x) ==
  IF ~x.registerQueued \/ x.outstanding # "none" THEN x
  ELSE LET y == [x EXCEPT !.registerQueued = FALSE] IN
       IF x.connected /\ ~Ending(x) /\ ~x.takenOver /\ x.retry.on = 0 THEN SendRegister(y) ELSE y

\* scheduleRegisterRetryLocked.
ScheduleRetry(x) == [x EXCEPT !.retry = [on |-> x.conn, op |-> "register"]]

Disable(x) == [CancelTimers(x) EXCEPT !.state = "disabled"]

\* takeOverLocked, by a conflict message or by drain{replaced}.
TakeOver(x, by) ==
  Queue([CancelTimers(x) EXCEPT !.takenOver = TRUE, !.outstanding = "none", !.sentRegister = FALSE,
                                !.state = "conflict"], [do |-> by, on |-> 0])

\* Mutant: the wait ends and its continuation is forgotten.
ReleaseSilently(x) == [x EXCEPT !.unreg = 0]
\* releaseUnregLocked: the end of a close's wait for `unregistered`.
ReleaseUnreg(x) ==
  IF x.unreg = 0 THEN x ELSE Queue([x EXCEPT !.unreg = 0], [do |-> "done", on |-> 0])

Fatal(x) == Queue(x, [do |-> "fatal", on |-> 0])

\* supersededLocked; 0 is a connection whose handler is not bound yet.
Superseded(c) == c # 0 /\ (c # s.conn \/ active \notin {0, c})

\* A welcome and the end of the connection both start the registration afresh.
Afresh(x) ==
  CancelTimers([x EXCEPT !.sentRegister = FALSE, !.outstanding = "none", !.registerQueued = FALSE,
                         !.heldDisable = FALSE])

WelcomeOn(x, c) ==
  IF Ending(x) THEN x
  ELSE LET y == [Afresh(x) EXCEPT !.conn = c, !.connected = TRUE] IN
       IF x.takenOver THEN y ELSE SendRegister([y EXCEPT !.state = "registering"])

ConnEndOn(x, c) ==
  LET y == IF x.unreg = c THEN ReleaseUnreg(x) ELSE x IN
  IF Superseded(c) \/ Ending(x) THEN y
  ELSE [Afresh(y) EXCEPT !.connected = FALSE, !.state = IF x.takenOver THEN @ ELSE "connecting"]

-----------------------------------------------------------------------------
(* onApp, by message                                                         *)

\* onRegisteredLocked: the reply to a register, by what it says of the service.
OnRegistered(x, says) ==
  LET answers == x.outstanding = "register"
      y == IF answers THEN Settle(x) ELSE x
  IN CASE x.state = "closing"           -> [x EXCEPT !.closePreReply = FALSE]
       [] x.state = "closed" \/ (x.takenOver /\ ~Ending(x)) -> x
       [] OTHER ->
          CASE says = "unlisted"       -> IF answers /\ x.overload.on = 0 THEN ScheduleRetry(y) ELSE x
            [] says = "registered"     ->
                 LET z == [CancelTimers(y) EXCEPT !.hasServerID = TRUE, !.everRegister = TRUE,
                                                  !.heldDisable = FALSE, !.state = "registered"]
                 IN IF x.heldDisable THEN Disable(z) ELSE z
            [] says = "serverDisabled" -> [Disable(y) EXCEPT !.hasServerID = TRUE]
            [] says = "transient"      -> ScheduleRetry(y)
            [] says = "refused"        -> IF x.everRegister THEN y ELSE Fatal(y)

\* Mutant: the first error after a close began answers the unregister.
NoPreReply(x) == FALSE
\* The reply to the register in flight when the close began is still due.
PreReplyDue(x) == x.closePreReply

\* onAppErrorLocked: OVERLOADED (the frame was dropped), UNSUPPORTED_VERSION and the
\* other codes that answer a frame (CONNECTION_LIMIT names none and changes nothing).
OnAppError(x, code) ==
  IF code = "overloaded"
  THEN IF PreReplyDue(x) THEN [x EXCEPT !.closePreReply = FALSE]
       ELSE IF x.outstanding = "none" \/ x.overload.on # 0 THEN x
       ELSE [x EXCEPT !.overload = [on |-> x.conn, op |-> x.outstanding]]
  ELSE LET y == IF PreReplyDue(x) THEN [x EXCEPT !.closePreReply = FALSE]
                ELSE IF x.outstanding = "none" \/ x.overload.on # 0 THEN x
                ELSE IF x.outstanding = "unregister" THEN ReleaseUnreg(Settle(x)) ELSE Settle(x)
       IN IF code = "version" THEN Fatal(y) ELSE FlushQueuedRegister(y)

OnUnregistered(x) == ReleaseUnreg(IF x.outstanding = "unregister" THEN Settle(x) ELSE x)

\* A disable names an id only: this service's if it is known, else it is held until a
\* registered brings that id.  (Held for another service's id, it changes nothing here.)
OnDisable(x, known) ==
  IF Ending(x) \/ x.takenOver THEN x
  ELSE IF known /\ x.hasServerID THEN Disable(x) ELSE [x EXCEPT !.heldDisable = TRUE]

OnEnable(x) ==
  IF Ending(x) \/ x.takenOver THEN x
  ELSE LET y == [x EXCEPT !.hasServerID = TRUE, !.heldDisable = FALSE, !.state = "registering"] IN
       IF x.connected THEN Register(y) ELSE y

OnConflict(x) == IF Ending(x) \/ x.takenOver THEN x ELSE TakeOver(x, "conflict")

\* "disableNext" is for the id that the next registered will bring.
EdgeOps == {"disable", "disableNext", "enable", "conflict"}
RegisterReplies == {"registered", "unlisted", "serverDisabled", "transient", "refused"}

\* Mutant: a message of an ended connection counts like any other.
EndedNever(c) == FALSE
\* The message was flushed after its connection ended.
ConnEnded(c) == c # 0 /\ up[c] = "ended"

\* What a delivered message does; c is 0 when its connection has no handler of its own.
OnApp(x, c, msg) ==
  IF Superseded(c) \/ (ConnEnded(c) /\ msg \in RegisterReplies \cup {"disable", "disableNext", "enable"}) THEN x
  ELSE CASE msg \in RegisterReplies -> FlushQueuedRegister(OnRegistered(x, msg))
         [] msg = "unregistered"    -> OnUnregistered(x)
         [] msg = "disable"         -> OnDisable(x, TRUE)
         [] msg = "disableNext"     -> OnDisable(x, FALSE)
         [] msg = "enable"          -> OnEnable(x)
         [] msg = "conflict"        -> OnConflict(x)
         [] OTHER                   -> OnAppError(x, msg)

-----------------------------------------------------------------------------
Init ==
  /\ s = [state |-> "connecting", hasServerID |-> FALSE, everRegister |-> FALSE, takenOver |-> FALSE,
          heldDisable |-> FALSE, conn |-> 0, connected |-> FALSE, sentRegister |-> FALSE,
          outstanding |-> "none", registerQueued |-> FALSE, closePreReply |-> FALSE,
          retry |-> NoTimer, overload |-> NoTimer,
          unreg |-> 0, queue |-> << >>]
  /\ up = [c \in Conns |-> "none"] /\ active = 0
  /\ welcomed = 0 /\ bound = {} /\ left = {}
  /\ pending = [c \in Conns |-> << >>]
  /\ agent = [closing |-> FALSE, closed |-> FALSE, finished |-> FALSE, holding |-> FALSE, held |-> "none",
              tr |-> "open", ours |-> FALSE, waiting |-> FALSE]
  /\ ops = 0 /\ replaced = 0 /\ early = {}

-----------------------------------------------------------------------------
(* The client: its connections, and OnConnect on the callback goroutine      *)

\* The next connection is current; the last one may still be up (a drain hand-over).
Land(c) ==
  /\ up[c] = "none" /\ agent.tr # "ended" /\ ~agent.ours
  /\ c > 1 => up[c - 1] # "none"
  /\ up' = [up EXCEPT ![c] = "up"]
  /\ active' = c
  /\ UNCHANGED <<s, welcomed, bound, left, pending, agent, ops, replaced, early>>

\* ev.connect, then c.OnApp: the two steps of OnConnect.
OnWelcome(c) ==
  /\ up[c] # "none" /\ welcomed = c - 1 /\ (c > 1 => c - 1 \in bound)
  /\ s' = WelcomeOn(s, c)
  /\ welcomed' = c
  /\ UNCHANGED <<up, active, bound, left, pending, agent, ops, replaced, early>>

Bind(c) ==
  /\ welcomed = c /\ c \notin bound
  /\ bound' = bound \cup {c}
  /\ UNCHANGED <<s, up, active, welcomed, left, pending, agent, ops, replaced, early>>

\* A connection ends: some of its frames were answered, and those answers are still
\* delivered.
ConnEnds(c) ==
  /\ up[c] = "up"
  /\ up' = [up EXCEPT ![c] = "ended"]
  /\ active' = IF active = c THEN 0 ELSE active
  /\ \E n \in 0 .. Len(pending[c]) : pending' = [pending EXCEPT ![c] = SubSeq(@, 1, n)]
  /\ UNCHANGED <<s, welcomed, bound, left, agent, ops, replaced, early>>

\* The goroutine that waits for Done.
OnConnEnd(c) ==
  /\ up[c] = "ended" /\ c \in bound /\ c \notin left
  /\ s' = ConnEndOn(s, c)
  /\ left' = left \cup {c}
  /\ UNCHANGED <<up, active, welcomed, bound, pending, agent, ops, replaced, early>>

-----------------------------------------------------------------------------
(* The edge's messages, as they are delivered                                *)

\* Until OnConnect has bound a handler a message comes without its connection.
From(c) == IF c \in bound THEN c ELSE 0

\* A frame is answered, or dropped with OVERLOADED, or refused by an error.
Answers(frame) ==
  {"overloaded", "version", "unknownOp"}
  \cup (IF frame = "register" THEN RegisterReplies ELSE {"unregistered"})

Reply(c) ==
  /\ pending[c] # << >>
  /\ \E msg \in Answers(Head(pending[c])) : s' = OnApp(s, From(c), msg)
  /\ pending' = [pending EXCEPT ![c] = Tail(@)]
  /\ early' = early \cup (IF s.unreg # 0 /\ s'.unreg = 0 /\ Head(pending[c]) = "register"
                         THEN {"unreg"} ELSE {})
  /\ UNCHANGED <<up, active, welcomed, bound, left, agent, ops, replaced>>

\* A message that answers nothing.
EdgeOp(c, msg) ==
  /\ up[c] # "none" /\ ops < MaxOps
  /\ s' = OnApp(s, From(c), msg)
  /\ ops' = ops + 1
  /\ UNCHANGED <<up, active, welcomed, bound, left, pending, agent, replaced, early>>

-----------------------------------------------------------------------------
(* Timers                                                                    *)

MayRegister(x, c) ==
  ~Ending(x) /\ ~x.takenOver /\ x.state # "disabled" /\ x.connected /\ x.conn = c

\* The body of the retry's callback.
RetryBody(x, c) ==
  LET y == [x EXCEPT !.retry = NoTimer] IN
  IF MayRegister(x, c) THEN Register(y) ELSE y

\* The body of the OVERLOADED callback: the same frame again, if it is still unanswered.
OverloadBody(x, c, op) ==
  LET y == [x EXCEPT !.overload = NoTimer] IN
  IF ~x.connected \/ x.conn # c \/ x.outstanding # op THEN y
  ELSE IF op = "register" /\ MayRegister(x, c) THEN SendRegister([y EXCEPT !.registerQueued = FALSE])
  ELSE IF op = "unregister" /\ x.state = "closing" THEN Queue(y, [do |-> "resend", on |-> c])
  ELSE y

RetryFires ==
  /\ s.retry.on # 0
  /\ s' = RetryBody(s, s.retry.on)
  /\ UNCHANGED <<netVars, agent, early>>

OverloadFires ==
  /\ s.overload.on # 0
  /\ s' = OverloadBody(s, s.overload.on, s.overload.op)
  /\ UNCHANGED <<netVars, agent, early>>

\* The budget of the unregister wait, the close's context, abortClose.
UnregBudget ==
  /\ s.unreg # 0
  /\ s' = ReleaseUnreg(s)
  /\ UNCHANGED <<netVars, agent, early>>

-----------------------------------------------------------------------------
(* The agent and its transport                                               *)

\* finish, once: markClosed.
Finish(x) == IF agent.finished THEN x ELSE [ReleaseUnreg(CancelTimers(x)) EXCEPT !.state = "closed"]

\* wsTransport.close: the client is closing from here on; "now" does so before it returns.
TrClose(a, now) ==
  [a EXCEPT !.tr = IF @ = "open" THEN "closing" ELSE @, !.ours = @ \/ now]

\* A disconnect that is reported while the conflict event of a drain{replaced} waits in the
\* queue is early.
EarlyReport ==
  IF \E i \in DOMAIN s.queue : s.queue[i].do = "replaced" THEN {"disconnect"} ELSE {}

\* releaseDisconnects, on the session and on the agent.
AfterHeld(x) == IF agent.held = "fatal" THEN Finish(x) ELSE x
Released(a) == [a EXCEPT !.holding = FALSE, !.held = "none", !.finished = @ \/ a.held = "fatal"]

\* The next item of the queue runs, with mu released.
Flush ==
  /\ s.queue # << >>
  /\ LET item == Head(s.queue)
         rest == [s EXCEPT !.queue = Tail(@)]
     IN CASE item.do \in {"register", "resend", "unregister"} ->
               LET frame == IF item.do = "register" THEN "register" ELSE "unregister" IN
               \E sent \in BOOLEAN :
               /\ sent => up[item.on] = "up"
               /\ up[item.on] = "up" => sent \/ SendsFail
               /\ pending' = IF sent THEN [pending EXCEPT ![item.on] = Append(@, frame)] ELSE pending
               /\ s' = IF item.do = "unregister" /\ ~sent THEN ReleaseUnreg(rest) ELSE rest
               /\ UNCHANGED <<agent, early>>
          [] item.do \in {"conflict", "replaced"} ->
               /\ s' = AfterHeld(rest)
               /\ agent' = TrClose(Released(agent), TRUE)
               /\ UNCHANGED <<pending, early>>
          [] item.do = "fatal" ->
               /\ s' = Finish(rest)
               /\ agent' = TrClose([agent EXCEPT !.finished = TRUE], FALSE)
               /\ UNCHANGED <<pending, early>>
          [] item.do = "done" ->
               /\ s' = rest
               /\ agent' = [TrClose(agent, FALSE) EXCEPT !.waiting = TRUE]
               /\ UNCHANGED <<pending, early>>
  /\ UNCHANGED <<up, active, welcomed, bound, left, ops, replaced>>

\* The unregister goes behind what is in flight, and a register there is still to be replied to.
BeginCloseAsync(x) ==
  LET wasRegistered == x.connected /\ x.sentRegister
      y == [CancelTimers(x) EXCEPT !.state = "closing",
              !.closePreReply = x.outstanding = "register" /\ x.overload.on = 0]
  IN IF Ending(x) THEN Queue(x, [do |-> "done", on |-> 0])
     ELSE IF ~wasRegistered THEN Queue(y, [do |-> "done", on |-> 0])
     ELSE Queue([y EXCEPT !.unreg = x.conn, !.outstanding = "unregister"],
                [do |-> "unregister", on |-> x.conn])

\* closeAsync, once.
CloseAsync ==
  /\ ~agent.closing
  /\ agent' = [agent EXCEPT !.closing = TRUE]
  /\ s' = BeginCloseAsync(s)
  /\ UNCHANGED <<netVars, early>>

\* Client.Close or CloseImmediately takes effect: no connection lands any more.
TrRun ==
  /\ agent.tr = "closing" /\ ~agent.ours
  /\ agent' = [agent EXCEPT !.ours = TRUE]
  /\ UNCHANGED <<s, netVars, early>>

\* The client has ended: the dones run (finish(nil) and closed).
TrEnds ==
  /\ agent.tr = "closing" /\ agent.ours /\ \A c \in Conns : up[c] # "up"
  /\ agent' = [agent EXCEPT !.tr = "ended", !.finished = @ \/ agent.waiting,
                            !.closed = @ \/ agent.waiting, !.waiting = FALSE]
  /\ s' = IF agent.waiting THEN Finish(s) ELSE s
  /\ UNCHANGED <<netVars, early>>

\* A done handed to a transport that has ended runs at once.
TrEnded ==
  /\ agent.tr = "ended" /\ agent.waiting
  /\ agent' = [agent EXCEPT !.finished = TRUE, !.closed = TRUE, !.waiting = FALSE]
  /\ s' = Finish(s)
  /\ UNCHANGED <<netVars, early>>

\* onDrain holds the disconnects before it changes the session.
Hold(a) == [a EXCEPT !.holding = TRUE]

\* onDrain with reason "replaced": a take-over, unless the session is closing or taken
\* over; the transport closes at once.
OnReplaced(c) ==
  LET took == ~Ending(s) /\ ~s.takenOver
      a == IF took THEN Hold(agent) ELSE Released(agent)
  IN /\ up[c] # "none" /\ replaced < MaxReplaced
     /\ s' = IF took THEN TakeOver(s, "replaced") ELSE AfterHeld(s)
     /\ agent' = IF took \/ s.state = "closing" THEN TrClose(a, TRUE) ELSE a
     /\ early' = early \cup (IF took \/ agent.held = "none" THEN {} ELSE EarlyReport)
     /\ replaced' = replaced + 1
     /\ UNCHANGED <<up, active, welcomed, bound, left, pending, ops>>

\* OnDisconnect for a connection: held, or reported.  A fatal one, of a client that gives up
\* when its connection ends or while it dials, ends the agent; a drained connection may still
\* be up.  That a connection is reported once is Client's ReportedOnce.
OnDisconnect(c, fatal) ==
  /\ IF fatal THEN active = 0 /\ \A d \in Conns : up[d] # "none" => d \in bound
     ELSE up[c] = "ended" /\ c \in bound
  /\ IF agent.holding
     THEN /\ agent' = [agent EXCEPT !.held = IF fatal \/ @ = "fatal" THEN "fatal" ELSE "some", !.ours = @ \/ fatal]
          /\ UNCHANGED <<s, early>>
     ELSE /\ agent' = [agent EXCEPT !.finished = @ \/ fatal, !.ours = @ \/ fatal]
          /\ s' = IF fatal THEN Finish(s) ELSE s
          /\ early' = early \cup EarlyReport
  /\ UNCHANGED netVars

-----------------------------------------------------------------------------
Next ==
  \/ Flush \/ CloseAsync \/ TrRun \/ TrEnds \/ TrEnded
  \/ RetryFires \/ OverloadFires \/ UnregBudget
  \/ \E c \in Conns :
       \/ Land(c) \/ OnWelcome(c) \/ Bind(c) \/ ConnEnds(c) \/ OnConnEnd(c)
       \/ Reply(c) \/ OnReplaced(c)
       \/ \E msg \in EdgeOps : EdgeOp(c, msg)
       \/ \E fatal \in BOOLEAN : OnDisconnect(c, fatal)

Spec == Init /\ [][Next]_vars

\* The queue is run, the budget of the unregister wait ends, and a client that is closing
\* closes its connections and returns.
FairSpec ==
  /\ Spec
  /\ WF_vars(Flush)
  /\ WF_vars(UnregBudget \/ TrRun \/ TrEnds \/ TrEnded)
  /\ WF_vars(agent.ours /\ \E c \in Conns : ConnEnds(c))

-----------------------------------------------------------------------------
(* Properties                                                                *)

\* Frames of one kind that the edge has yet to answer, or whose answer has yet to be
\* delivered, on connection c.
InFlight(c, frame) ==
  Cardinality({i \in DOMAIN s.queue : s.queue[i].on = c /\ s.queue[i].do = frame})
  + Cardinality({i \in DOMAIN pending[c] : pending[c][i] = frame})

\* One register in flight on a connection, whatever enables, retries, OVERLOADED re-sends
\* and hand-overs ask for.
OneRegister == \A c \in Conns : InFlight(c, "register") <= 1

\* A close's wait for its unregister is not ended by the answer to an earlier register.
UnregisterWaits == "unreg" \notin early

\* The disconnects of a take-over by drain{replaced} come after its conflict event, unless a
\* second drain{replaced} has come meanwhile (see ConflictFirst).
HeldUntilConflict == replaced <= 1 => "disconnect" \notin early

\* onDrain: "the close's disconnect reports wait for the conflict event", however many
\* drain{replaced} the edge sends.
ConflictFirst == "disconnect" \notin early

\* Once the end of every connection has been seen no message flushed after it makes the
\* service look registered.
DeadNotRegistered ==
  left = {c \in Conns : up[c] # "none"} => s.state \notin {"registering", "registered"}

\* A close ends: the unregister wait is bounded and the transport closes.
CloseEnds == agent.closing ~> agent.closed

\* registerQueued: "a register asked for while one was in flight goes out after its reply":
\* while a register waits behind another in state "registering", that one is in flight or
\* paused by OVERLOADED.
RegisterNotLost ==
  s.registerQueued /\ s.state = "registering" /\ s.connected /\ up[s.conn] = "up" =>
    InFlight(s.conn, "register") > 0 \/ s.overload.on # 0 \/ \E i \in DOMAIN s.queue : s.queue[i].do = "fatal"

-----------------------------------------------------------------------------
(* The inductive invariant                                                   *)

States == {"connecting", "registering", "registered", "disabled", "conflict", "closing", "closed"}
Frames == {"register", "unregister"}
Unregisters == {"unregister", "resend"}
Sends == {"register"} \cup Unregisters
TakeOvers == {"conflict", "replaced"}
Items == [do : Sends \cup TakeOvers \cup {"fatal", "done"}, on : 0 .. NConns]
Timers == [on : 0 .. NConns, op : Frames \cup {"none"}]
SessionRec ==
  [state : States, hasServerID : BOOLEAN, everRegister : BOOLEAN, takenOver : BOOLEAN, heldDisable : BOOLEAN,
   conn : 0 .. NConns, connected : BOOLEAN, sentRegister : BOOLEAN, outstanding : Frames \cup {"none"},
   registerQueued : BOOLEAN, closePreReply : BOOLEAN, retry : Timers, overload : Timers,
   unreg : 0 .. NConns, queue : Seq(Items)]
AgentRec ==
  [closing : BOOLEAN, closed : BOOLEAN, finished : BOOLEAN, holding : BOOLEAN, held : {"none", "some", "fatal"},
   tr : {"open", "closing", "ended"}, ours : BOOLEAN, waiting : BOOLEAN]

NetType ==
  /\ up \in [Conns -> {"none", "up", "ended"}] /\ active \in 0 .. NConns /\ welcomed \in 0 .. NConns
  /\ bound \subseteq Conns /\ left \subseteq Conns
TypeOK ==
  /\ s \in SessionRec /\ NetType /\ pending \in [Conns -> Seq(Frames)] /\ agent \in AgentRec
  /\ ops \in Nat /\ replaced \in 0 .. MaxReplaced /\ early \subseteq {"unreg", "disconnect"}

\* Connections land, are welcomed and bound in order; the session works on the last one
\* that was welcomed, and the client's current one is the last that landed.
LandInv ==
  /\ \A c, d \in Conns : c < d /\ up[d] # "none" => up[c] # "none"
  /\ active # 0 => up[active] = "up" /\ \A c \in Conns : up[c] # "none" => c <= active
  /\ \A c \in Conns : c <= welcomed => up[c] # "none"
  /\ \A c \in Conns : c < welcomed => c \in bound
  /\ \A c \in bound : c <= welcomed
  /\ \A c \in left : c \in bound /\ up[c] = "ended"
  /\ s.conn <= welcomed /\ (~Ending(s) => s.conn = welcomed)

\* Where the frames of x wait, p being those on their way: for connections up to the
\* current one; one register for a connection, ahead of everything else for it; and no
\* unregister before the close.
FrameInv(x, p) ==
  /\ \A i \in 1 .. Len(x.queue) : x.queue[i].do \in Sends => x.queue[i].on \in 1 .. x.conn
  /\ \A c \in Conns : p[c] # << >> => c <= x.conn
  /\ ~Ending(x) => /\ \A i \in 1 .. Len(x.queue) : x.queue[i].do \notin Unregisters
                   /\ \A c \in Conns : \A i \in 1 .. Len(p[c]) : p[c][i] = "register"
  /\ \A i, j \in 1 .. Len(x.queue) :
       x.queue[i].do = "register" => /\ x.queue[j].do \in Unregisters => i < j
                                     /\ x.queue[j].do = "register" /\ x.queue[j].on = x.queue[i].on => i = j
  /\ \A i \in 1 .. Len(x.queue) : x.queue[i].do = "register" => p[x.queue[i].on] = << >>
  /\ \A c \in Conns : \A i \in 1 .. Len(p[c]) : p[c][i] = "register" => i = 1

\* No register is in flight on the current connection.
Free(x, p) ==
  /\ \A i \in 1 .. Len(x.queue) : ~(x.queue[i].do = "register" /\ x.queue[i].on = x.conn)
  /\ \A i \in 1 .. Len(p[x.conn]) : p[x.conn][i] # "register"

\* What the session remembers of its frames: a register is in flight only while it is
\* outstanding and not paused, and during a close only while its reply is expected.
AccountInv(x, p) ==
  /\ x.connected => x.conn # 0
  /\ x.outstanding = "none" => x.overload.on = 0
  /\ x.takenOver => ~x.sentRegister
  /\ x.takenOver /\ ~Ending(x) => x.state = "conflict"
  /\ x.connected /\ ~x.takenOver /\ ~Ending(x) /\ (x.outstanding # "register" \/ x.overload.on # 0) => Free(x, p)
  /\ x.unreg # 0 => x.state = "closing" /\ x.unreg = x.conn /\ (x.closePreReply \/ Free(x, p))

\* A session is taken over once.
TakeInv(x) ==
  /\ ~x.takenOver => \A i \in 1 .. Len(x.queue) : x.queue[i].do \notin TakeOvers
  /\ \A i, j \in 1 .. Len(x.queue) : x.queue[i].do \in TakeOvers /\ x.queue[j].do \in TakeOvers => i = j

\* Until the conflict event of a drain{replaced} has run the disconnects are held, if no
\* second one releases them.
HoldInv ==
  \A i \in 1 .. Len(s.queue) : s.queue[i].do = "replaced" => replaced > 0 /\ (replaced = 1 => agent.holding)

\* The end of the last connection that landed was seen.
DeadInv ==
  /\ \A c \in Conns : up[c] # "none" => c <= s.conn
  /\ s.conn = 0 \/ s.conn \in left
  => s.state \notin {"registering", "registered"}

\* Nothing is early, a disconnect held by one drain{replaced} and released by another apart.
EarlyInv == UnregisterWaits /\ HeldUntilConflict

\* Why one register is in flight, none of its answers is taken for another's, and a dead
\* service does not look registered.
SessionInv ==
  /\ TypeOK /\ LandInv /\ FrameInv(s, pending) /\ AccountInv(s, pending) /\ TakeInv(s)
  /\ HoldInv /\ DeadInv /\ EarlyInv
=============================================================================
