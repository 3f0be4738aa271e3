------------------------------- MODULE Tunnel -------------------------------
(* The tunnel controller (tunnel.go): Configure, Stop and Dispose change what  *)
(* is wanted, the pump applies the latest config once every earlier connection *)
(* has closed, and events of an ended generation change nothing.               *)
(*                                                                             *)
(* t holds the fields of Tunnel.  A method changes t with mu held and leaves   *)
(* agent calls in queue and status callbacks in callbacks; unlockAndFlush lets *)
(* one goroutine at a time run the one and deliver the other, with mu released.*)
(* A status callback may call a method and wait for it (caller "cb").          *)
(*                                                                             *)
(* Most events of an agent come on the goroutine that flushes its session      *)
(* (session.go), which may then run this queue and these callbacks.  The end   *)
(* of the agent's close is queued in that session too, behind that flush.      *)
EXTENDS Integers, Sequences, FiniteSets

CONSTANTS
  Mains,      \* goroutines that call Configure, Stop and Dispose
  MaxCalls,   \* bound: calls of Configure, Stop and Dispose
  MaxEvents   \* bound: agent events that reach the tunnel

ASSUME TunnelAssumption == "cb" \notin Mains /\ MaxCalls \in Nat /\ MaxEvents \in Nat

\* What tells configs apart: it does not start, it is invalid, it starts.
Kinds == {"off", "bad", "a", "b"}
None == [id |-> 0, kind |-> "off"]
willStart(cfg) == cfg.kind # "off"

Callers == Mains \cup {"cb"}
NoWait == [on |-> 0, gen |-> 0]

VARIABLES
  t,         \* the Tunnel
  agents,    \* the agents whose close is not over: their generation and what they do
  pumps,     \* pump goroutines that have not run
  batch,     \* what the goroutine in runQueueLocked took from queue
  shown,     \* what the delivering goroutine took from callbacks
  inner,     \* the delivering goroutine is itself in runQueueLocked
  who,       \* the generation on whose session's flush the queue is run, and callbacks are
             \* delivered; 0 for any other goroutine
  seen,      \* the status the listener saw last
  waits,     \* what each caller waits for: an idle channel, disposeDone, or nothing
  timer,     \* the dispose timer's callback has not run
  calls, events

vars == <<t, agents, pumps, batch, shown, inner, who, seen, waits, timer, calls, events>>

\* State "connecting", by its code and text.
Trouble == {"connecting", "retryDial", "retryRegister", "internal", "lost"}

-----------------------------------------------------------------------------
(* Helpers that run with mu held                                             *)

Do(x, what, gen) == [x EXCEPT !.queue = Append(@, [do |-> what, gen |-> gen])]

\* setStatusLocked.
SetStatus(x, next) ==
  IF next = x.status THEN x ELSE [x EXCEPT !.status = next, !.callbacks = Append(@, next)]

\* idleLocked.
Idle(x) == ~x.pendingApply /\ x.applied = None /\ x.draining = 0

\* checkIdleLocked: the waiters of this idle channel and of disposeDone are released.
CheckIdle(x) ==
  IF ~Idle(x) THEN x
  ELSE [x EXCEPT !.idle = @ + 1, !.disposeTimer = FALSE,
                 !.disposeDone = IF x.disposeTimer THEN "closed" ELSE @]

\* Mutant: the generation ends with its connection.
DetachKept(x) ==
  IF x.active = 0 THEN x
  ELSE Do([x EXCEPT !.active = 0, !.draining = @ + 1], "close", x.active)
\* Mutant: the connection that closes is not counted.
DetachUncounted(x) ==
  LET y == [x EXCEPT !.gen = @ + 1, !.active = 0, !.activeCfg = None] IN
  IF x.active = 0 THEN y ELSE Do(y, "close", x.active)
\* detachLocked: the generation ends now; its connection closes in the background.
Detach(x) ==
  LET y == [x EXCEPT !.gen = @ + 1, !.active = 0, !.activeCfg = None] IN
  IF x.active = 0 THEN y ELSE Do([y EXCEPT !.draining = @ + 1], "close", x.active)

\* forgetLocked.
Forget(x, cfg) == IF x.desired = cfg THEN [x EXCEPT !.desired = None] ELSE x

\* conflictedLocked and failLocked, by the status they end with.
Fail(x, cfg, status) == SetStatus(Detach(Forget(x, cfg)), status)

\* startLocked: an agent is made, and started unless its generation has ended by then.
Start(x, cfg) ==
  LET y == SetStatus([x EXCEPT !.gen = @ + 1], "connecting") IN
  IF cfg.kind = "bad" THEN Fail(y, cfg, "error")
  ELSE Do([y EXCEPT !.active = y.gen, !.activeCfg = cfg], "start", y.gen)

\* Mutant: the next connection does not wait for the last one to close.
WaitsForNone(x) == x.applied = None
\* Nothing applied, or an earlier connection still closes.
MustWait(x) == x.applied = None \/ x.draining > 0

\* The config applied is still the latest one.
StillWanted(x, cfg) == ~x.disposed /\ cfg = x.desired

\* The config applied starts if it is still wanted.
StartApplied(x) ==
  LET y == [x EXCEPT !.applied = None] IN
  IF StillWanted(x, x.applied) /\ willStart(x.applied) THEN Start(y, x.applied) ELSE y

\* Mutant: the waiters are only looked at when something starts.
MaybeStartQuietly(x) == IF MustWait(x) THEN x ELSE CheckIdle(StartApplied(x))
\* maybeStartLocked.
MaybeStart(x) == CheckIdle(IF MustWait(x) THEN x ELSE StartApplied(x))

-----------------------------------------------------------------------------
(* unlockAndFlush: x is the Tunnel when the method is about to release mu    *)

\* Mutant: the delivering goroutine stops after one batch.
DeliverOnce(x, own) ==
  /\ t' = [x EXCEPT !.delivering = ~own, !.callbacks = IF own THEN @ ELSE << >>]
  /\ shown' = IF own THEN << >> ELSE x.callbacks
\* The loop over callbacks: the next batch, or its end; own tells its later rounds.
TakeCallbacks(x, own) ==
  /\ t' = [x EXCEPT !.delivering = x.callbacks # << >>, !.callbacks = << >>]
  /\ shown' = x.callbacks

\* runQueueLocked takes the next batch, or ends and leaves the callbacks to the goroutine
\* that delivers; own tells that it is that goroutine.
RunQueue(x, own) ==
  IF x.queue # << >>
  THEN /\ t' = [x EXCEPT !.flushing = TRUE, !.queue = << >>]
       /\ batch' = x.queue /\ inner' = own
       /\ UNCHANGED shown
  ELSE /\ batch' = << >> /\ inner' = FALSE
       /\ IF x.delivering /\ ~own
          THEN t' = [x EXCEPT !.flushing = FALSE] /\ UNCHANGED shown
          ELSE TakeCallbacks([x EXCEPT !.flushing = FALSE], own)

Unlock(x) ==
  IF x.flushing THEN t' = x /\ UNCHANGED <<batch, inner, shown>> ELSE RunQueue(x, FALSE)

\* The goroutine that runs the queue and the one that delivers, after g's step; g is the
\* generation whose session it flushes, or 0.
Roles(g) ==
  who' = [flush   |-> IF ~t'.flushing THEN 0 ELSE IF t.flushing THEN who.flush ELSE g,
          deliver |-> IF ~t'.delivering THEN 0 ELSE IF t.delivering THEN who.deliver ELSE g]

\* A queued agent call runs.
FlushItem ==
  /\ batch # << >>
  /\ LET item == Head(batch) IN
       \/ /\ item.do = "pump"
          /\ pumps' = pumps + 1
          /\ UNCHANGED agents
       \/ /\ item.do = "start"
          /\ agents' = agents \cup {[gen |-> item.gen, dialled |-> t.gen = item.gen, closing |-> FALSE]}
          /\ UNCHANGED pumps
       \/ /\ item.do = "close"
          /\ agents' = {IF a.gen = item.gen THEN [a EXCEPT !.closing = TRUE] ELSE a : a \in agents}
          /\ UNCHANGED pumps
  /\ batch' = Tail(batch)
  /\ UNCHANGED <<t, shown, inner, who, seen, waits, timer, calls, events>>

FlushNext ==
  /\ t.flushing /\ batch = << >>
  /\ RunQueue(t, inner) /\ Roles(who.flush)
  /\ UNCHANGED <<agents, pumps, seen, waits, timer, calls, events>>

\* A batch of callbacks is over.
DeliverNext ==
  /\ t.delivering /\ ~inner /\ shown = << >> /\ waits["cb"] = NoWait
  /\ IF t.flushing THEN TakeCallbacks(t, TRUE) /\ UNCHANGED <<batch, inner>> ELSE RunQueue(t, TRUE)
  /\ Roles(who.deliver)
  /\ UNCHANGED <<agents, pumps, seen, waits, timer, calls, events>>

-----------------------------------------------------------------------------
(* Configure, Stop and Dispose: the Tunnel after the call and what it waits  *)
(* for                                                                       *)

OnIdle(x, gen) == [on |-> x.idle, gen |-> gen]
\* waiterLocked.
Waiter(x, gen) == IF Idle(x) THEN NoWait ELSE OnIdle(x, gen)

\* configureAsync.
Configured(kind) ==
  IF t.disposed THEN [t |-> t, wait |-> NoWait]
  ELSE IF t.desired # None /\ t.desired.kind = kind THEN [t |-> t, wait |-> Waiter(t, 0)]
  ELSE LET y == [t EXCEPT !.desired = [id |-> calls + 1, kind |-> kind], !.pendingApply = TRUE]
       IN [t |-> IF t.pendingApply THEN y ELSE Do(y, "pump", 0), wait |-> OnIdle(t, t.gen)]

\* What stopAsync and disposeAsync begin with.
Off(x) ==
  SetStatus(Detach([x EXCEPT !.desired = None, !.pendingApply = FALSE, !.applied = None]), "off")

\* stopAsync.
Stopped ==
  IF t.disposed THEN [t |-> t, wait |-> NoWait]
  ELSE LET y == CheckIdle(Off(t)) IN [t |-> y, wait |-> Waiter(y, t.gen)]

\* disposeAsync; on = -1 is a wait for disposeDone.
Disposed ==
  IF t.disposeDone # "none" THEN [t |-> t, wait |-> [on |-> -1, gen |-> 0]]
  ELSE LET y == Off([t EXCEPT !.disposed = TRUE]) IN
       [t |-> [y EXCEPT !.disposeDone = IF Idle(y) THEN "closed" ELSE "open", !.disposeTimer = ~Idle(y)],
        wait |-> [on |-> -1, gen |-> 0]]

Results == {Configured(kind) : kind \in Kinds} \cup {Stopped, Disposed}

\* A caller's method, up to its wait.
Call(c, result) ==
  /\ calls < MaxCalls /\ waits[c] = NoWait
  /\ Unlock(result.t) /\ Roles(IF c = "cb" THEN who.deliver ELSE 0)
  /\ waits' = [waits EXCEPT ![c] = result.wait]
  /\ timer' = (timer \/ (result.t.disposeTimer /\ ~t.disposeTimer))
  /\ calls' = calls + 1

MainCalls(c) ==
  /\ \E result \in Results : Call(c, result)
  /\ UNCHANGED <<agents, pumps, seen, events>>

\* The listener's callback, which may call a method in turn.
DeliverItem ==
  /\ t.delivering /\ shown # << >> /\ waits["cb"] = NoWait
  /\ seen' = Head(shown)
  /\ shown' = Tail(shown)
  /\ UNCHANGED <<t, agents, pumps, batch, inner, who, waits, timer, calls, events>>

CallbackCalls ==
  /\ t.delivering /\ ~inner
  /\ \E result \in Results : Call("cb", result)
  /\ UNCHANGED <<agents, pumps, seen, events>>

Released(w) == IF w.on = -1 THEN t.disposeDone = "closed" ELSE t.idle > w.on

Return(c) ==
  /\ waits[c] # NoWait /\ Released(waits[c])
  /\ waits' = [waits EXCEPT ![c] = NoWait]
  /\ UNCHANGED <<t, agents, pumps, batch, shown, inner, who, seen, timer, calls, events>>

\* The caller's context ends first.
GiveUp(c) ==
  /\ waits[c] # NoWait
  /\ waits' = [waits EXCEPT ![c] = NoWait]
  /\ UNCHANGED <<t, agents, pumps, batch, shown, inner, who, seen, timer, calls, events>>

DisposeTimerFires ==
  /\ timer
  /\ timer' = FALSE
  /\ Unlock(IF t.disposeTimer THEN [t EXCEPT !.disposeTimer = FALSE, !.disposeDone = "closed"] ELSE t)
  /\ Roles(0)
  /\ UNCHANGED <<agents, pumps, seen, waits, calls, events>>

-----------------------------------------------------------------------------
Pumped(x) ==
  IF ~x.pendingApply THEN x
  ELSE LET y == [x EXCEPT !.pendingApply = FALSE]
           cfg == x.desired
       IN IF x.disposed \/ cfg = None THEN CheckIdle(y)
          ELSE MaybeStart([SetStatus(Detach(y), IF willStart(cfg) THEN "connecting" ELSE "off")
                             EXCEPT !.applied = cfg])

Pump ==
  /\ pumps > 0
  /\ pumps' = pumps - 1
  /\ Unlock(Pumped(t)) /\ Roles(0)
  /\ UNCHANGED <<agents, seen, waits, timer, calls, events>>

\* The session's flush is inside the tunnel; what the close has queued in that session waits.
FlushBusy(a) == a.gen \in {who.flush, who.deliver}

\* A closing agent's close is over (closeAsync's done): beginCloseAsync's continuation was run
\* by the session's flush, and the transport has closed.
AgentCloses(a) ==
  /\ a.closing /\ ~FlushBusy(a)
  /\ agents' = agents \ {a}
  /\ Unlock(MaybeStart([t EXCEPT !.draining = @ - 1])) /\ Roles(0)
  /\ UNCHANGED <<pumps, seen, waits, timer, calls, events>>

\* Events on the session's flush; "close" (a refusal or fatal end) and "logged" (nothing but
\* a log line, a held disable's registered among them) come from the client as well.
SessionEvents == {"registered", "disabled", "enabled", "conflict", "appError", "registerRetry", "close", "logged"}
ClientEvents == {"lost", "dialFailed", "close", "logged"}

\* onAgentEvent, by event.
OnEvent(x, ev) ==
  LET connecting == x.status \in Trouble IN
  CASE ev = "registered"    -> SetStatus(x, "online")
    [] ev = "disabled"      -> SetStatus(x, "disabled")
    [] ev = "enabled"       -> SetStatus(x, "connecting")
    [] ev = "conflict"      -> Fail(x, x.activeCfg, "conflict")
    [] ev = "close"         -> Fail(x, x.activeCfg, "error")
    [] ev = "appError"      -> IF connecting THEN SetStatus(x, "internal") ELSE x
    [] ev = "registerRetry" -> IF connecting THEN SetStatus(x, "retryRegister") ELSE x
    [] ev = "lost"          -> SetStatus(x, "lost")
    [] ev = "dialFailed"    -> IF connecting /\ x.status # "lost" THEN SetStatus(x, "retryDial") ELSE x
    [] ev = "logged"        -> x

\* g is the agent's generation for an event on its session's flush, 0 for the client's; a
\* flush that is inside the tunnel emits no other event.
AgentEvent(a, ev, g) ==
  /\ a.dialled /\ events < MaxEvents
  /\ g # 0 => ~FlushBusy(a)
  /\ Unlock(IF a.gen = t.gen THEN OnEvent(t, ev) ELSE t) /\ Roles(g)
  /\ events' = events + 1
  /\ UNCHANGED <<agents, pumps, seen, waits, timer, calls>>

-----------------------------------------------------------------------------
Init ==
  /\ t = [status |-> "off", desired |-> None, pendingApply |-> FALSE, applied |-> None, gen |-> 0,
          active |-> 0, activeCfg |-> None, draining |-> 0, idle |-> 1, disposed |-> FALSE,
          disposeDone |-> "none", disposeTimer |-> FALSE, queue |-> << >>, flushing |-> FALSE,
          callbacks |-> << >>, delivering |-> FALSE]
  /\ agents = {} /\ pumps = 0
  /\ batch = << >> /\ shown = << >> /\ inner = FALSE
  /\ who = [flush |-> 0, deliver |-> 0]
  /\ seen = "off" /\ waits = [c \in Callers |-> NoWait] /\ timer = FALSE
  /\ calls = 0 /\ events = 0

\* What goes on without a call or an event.
Works ==
  \/ FlushItem \/ FlushNext \/ DeliverItem \/ DeliverNext \/ Pump \/ DisposeTimerFires
  \/ \E c \in Callers : Return(c)
  \/ \E a \in agents : AgentCloses(a)

Next ==
  \/ Works \/ CallbackCalls
  \/ \E c \in Mains : MainCalls(c)
  \/ \E c \in Callers : GiveUp(c)
  \/ \E a \in agents :
       \/ \E ev \in SessionEvents : AgentEvent(a, ev, a.gen)
       \/ \E ev \in ClientEvents : AgentEvent(a, ev, 0)

Spec == Init /\ [][Next]_vars

\* While a goroutine can run, the dispose timer is set or an agent closes, one of them goes
\* on.
FairSpec == Spec /\ WF_vars(Works)

-----------------------------------------------------------------------------
(* Properties                                                                *)

\* Two connections of one tunnel are never open at once, however configs, stops and
\* failures follow each other.
OneConnection == Cardinality({a \in agents : a.dialled}) <= 1

\* "Calls apply in order and the last one wins": once nothing is pending the connection is
\* the last config's, or there is none when it does not start, failed or was stopped; and
\* the status is that connection's.
LastWins ==
  /\ Idle(t) => /\ t.active # 0 => t.activeCfg = t.desired
                /\ t.desired # None /\ willStart(t.desired) => t.active # 0
  /\ t.active = 0 /\ ~t.pendingApply /\ t.applied = None => t.status \in {"off", "conflict", "error"}
  /\ t.disposed => t.status = "off"

\* A Configure or Stop that returns (its context apart) has seen every connection older than
\* the call close.
ReturnsAfterClose ==
  \A c \in Callers :
    waits[c].on > 0 /\ Released(waits[c]) => \A a \in agents : a.dialled => a.gen > waits[c].gen

\* A status callback on an agent's session flush waits, with no end to its context, for that
\* agent to close: the close is queued behind the callback.
WaitsForItself == waits["cb"].on > 0 /\ \E a \in agents : a.gen = who.deliver

\* Every call returns, one made and waited for inside a status callback too, whatever
\* goroutine delivers; but not when a callback waits for ever for the flush it runs on, and
\* not a Configure or Stop that a Dispose overtakes.
CallsReturn ==
  \A c \in Callers :
    /\ waits[c].on > 0 ~> waits[c].on <= 0 \/ t.disposed \/ []WaitsForItself
    /\ waits[c].on = -1 ~> waits[c].on # -1

\* The listener ends up with the current status, unless the tunnel is disposed or a callback
\* waits for itself for ever.
ListenerCatchesUp == []<>(seen = t.status \/ t.disposed) \/ <>[]WaitsForItself

\* "A callback that calls Configure, Stop or Dispose flushes that call's work itself instead
\* of queueing it behind the callback it is running in": such a call returns.
CallbackReturns == waits["cb"].on > 0 ~> waits["cb"].on <= 0 \/ t.disposed

\* Configure and Stop return: once idle, "the previous connection has stopped and the new
\* one has started dialing", whatever else is called.
EveryCallReturns == \A c \in Callers : waits[c] # NoWait ~> waits[c] = NoWait

-----------------------------------------------------------------------------
(* The inductive invariant                                                   *)

Configs == [id : Nat, kind : Kinds]
Statuses == Trouble \cup {"off", "online", "disabled", "conflict", "error"}
Items == [do : {"pump", "start", "close"}, gen : Nat]
Waits == [on : Int, gen : Nat]
Owners == [flush : Nat, deliver : Nat]
TunnelRec ==
  [status : Statuses, desired : Configs, pendingApply : BOOLEAN, applied : Configs, gen : Nat,
   active : Nat, activeCfg : Configs, draining : Nat, idle : Nat, disposed : BOOLEAN,
   disposeDone : {"none", "open", "closed"}, disposeTimer : BOOLEAN, queue : Seq(Items),
   flushing : BOOLEAN, callbacks : Seq(Statuses), delivering : BOOLEAN]

TypeOK ==
  /\ t \in TunnelRec /\ batch \in Seq(Items) /\ shown \in Seq(Statuses)
  /\ agents \subseteq [gen : Nat, dialled : BOOLEAN, closing : BOOLEAN] /\ pumps \in Nat
  /\ inner \in BOOLEAN /\ who \in Owners /\ waits \in [Callers -> Waits] /\ timer \in BOOLEAN
  /\ calls \in Nat /\ events \in Nat
  /\ ~t.flushing => batch = << >>

\* What is wanted, applied and active, where n configs were made: a config that is waiting
\* for the pump is newer than both, else what is applied or active is what is wanted.
Wanted(x, n) ==
  /\ x.desired.id <= n /\ x.applied.id <= n /\ x.activeCfg.id <= n
  /\ x.pendingApply => x.desired # None /\ x.desired # x.applied /\ x.desired # x.activeCfg
  /\ ~x.pendingApply /\ x.applied # None => x.applied = x.desired
  /\ ~x.pendingApply /\ x.active # 0 => x.activeCfg = x.desired
  /\ ~x.pendingApply /\ x.desired # None /\ willStart(x.desired) => x.active # 0 \/ x.applied = x.desired
  /\ x.applied # None => x.active = 0 /\ x.status = IF willStart(x.applied) THEN "connecting" ELSE "off"
  /\ x.active = 0 /\ ~x.pendingApply /\ x.applied = None => x.status \in {"off", "conflict", "error"}
  /\ x.disposed => /\ x.desired = None /\ ~x.pendingApply /\ x.applied = None /\ x.active = 0
                   /\ x.status = "off"

\* The agent calls that are still to run: b is being run, q is queued.
TodoLen(b, q) == Len(b) + Len(q)
Todo(b, q, i) == IF i <= Len(b) THEN b[i] ELSE q[i - Len(b)]
\* Of these, all but the ones in P start pumps.
PumpsBut(b, q, P) == \A i \in 1 .. TodoLen(b, q) : i \in P \/ Todo(b, q, i).do = "pump"
ToStart(b, q, g) ==
  \E i \in 1 .. TodoLen(b, q) : Todo(b, q, i) = [do |-> "start", gen |-> g] /\ PumpsBut(b, q, {i})
ToClose(b, q, g) ==
  \E i \in 1 .. TodoLen(b, q) : Todo(b, q, i) = [do |-> "close", gen |-> g] /\ PumpsBut(b, q, {i})
ToStartAndClose(b, q, g) ==
  \E i, j \in 1 .. TodoLen(b, q) :
    /\ i < j /\ Todo(b, q, i) = [do |-> "start", gen |-> g] /\ Todo(b, q, j) = [do |-> "close", gen |-> g]
    /\ PumpsBut(b, q, {i, j})

\* One generation at a time has an agent or is to have one: the active one, or the one that
\* closes and that the next waits for.
Resting(x, b, A) == x.active = 0 /\ x.draining = 0 /\ A = {} /\ PumpsBut(b, x.queue, {})
Running(x, b, A) ==
  /\ x.active = x.gen /\ x.gen > 0 /\ x.draining = 0
  /\ \/ A = {} /\ ToStart(b, x.queue, x.gen)
     \/ A = {[gen |-> x.gen, dialled |-> TRUE, closing |-> FALSE]} /\ PumpsBut(b, x.queue, {})
Closing(x, b, A) ==
  /\ x.active = 0 /\ x.draining = 1
  /\ \E g \in 1 .. x.gen - 1 :
       \/ A = {} /\ ToStartAndClose(b, x.queue, g)
       \/ \E d \in BOOLEAN : A = {[gen |-> g, dialled |-> d, closing |-> FALSE]} /\ ToClose(b, x.queue, g)
       \/ \E d \in BOOLEAN : A = {[gen |-> g, dialled |-> d, closing |-> TRUE]} /\ PumpsBut(b, x.queue, {})
OneAtATime(x, b, A) == Resting(x, b, A) \/ Running(x, b, A) \/ Closing(x, b, A)

\* The agents that exist or will are younger than g.
Younger(x, b, A, g) ==
  /\ \A a \in A : a.gen > g
  /\ \A i \in 1 .. TodoLen(b, x.queue) : Todo(b, x.queue, i).do = "start" => Todo(b, x.queue, i).gen > g
\* What a call that waits is told by the end of its wait: until then the agent it waits for
\* is closing, or about to.
Kept(x, b, A, w) ==
  w.on > 0 => /\ w.on <= x.idle /\ w.gen <= x.gen
              /\ w.on = x.idle /\ x.active # 0 => x.active > w.gen \/ x.pendingApply
              /\ w.on < x.idle => Younger(x, b, A, w.gen)

\* Why there is one connection, the last call's, and why a wait is not over too early.
TunnelInv ==
  /\ TypeOK /\ Wanted(t, calls) /\ OneAtATime(t, batch, agents)
  /\ \A c \in Callers : Kept(t, batch, agents, waits[c])
=============================================================================
