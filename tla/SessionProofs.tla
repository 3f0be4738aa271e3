--------------------------- MODULE SessionProofs ----------------------------
(***************************************************************************)
(* Proofs about Session, for any number of connections and messages of the *)
(* edge: SessionInv is inductive, and OneRegister, DeadNotRegistered,      *)
(* UnregisterWaits and HeldUntilConflict follow from it.                   *)
(*                                                                         *)
(* A helper that runs with mu held maps the session x to its next value    *)
(* while the frames p on their way stay where they are, or one of them has *)
(* just been answered.  So Good(x, p) is shown to survive the helpers one  *)
(* after another, and the steps are put together from them.                *)
(***************************************************************************)
EXTENDS Session, FiniteSetTheorems, TLAPS

-----------------------------------------------------------------------------
(* A session and the frames on their way                                     *)

Good(x, p) == x \in SessionRec /\ FrameInv(x, p) /\ AccountInv(x, p) /\ TakeInv(x)

HasReplaced(x) == \E i \in 1 .. Len(x.queue) : x.queue[i].do = "replaced"

Pendings == [Conns -> Seq(Frames)]

\* What a record of the session holds.
LEMMA Fields ==
  ASSUME NEW x \in SessionRec
  PROVE  /\ x.state \in States /\ x.conn \in 0 .. NConns /\ x.queue \in Seq(Items) /\ x.unreg \in 0 .. NConns
         /\ x.outstanding \in {"none", "register", "unregister"} /\ Len(x.queue) \in Nat
         /\ x.takenOver \in BOOLEAN /\ x.connected \in BOOLEAN /\ x.sentRegister \in BOOLEAN
         /\ x.closePreReply \in BOOLEAN /\ x.overload \in Timers /\ x.retry \in Timers
         /\ x.overload.on \in 0 .. NConns /\ x.retry.on \in 0 .. NConns
  BY DEF SessionRec, Frames, Timers

\* The fields change and the frames do not.
LEMMA Keeps ==
  ASSUME NEW p, NEW x, Good(x, p), NEW y \in SessionRec, y.queue = x.queue, y.conn = x.conn,
         Ending(x) => Ending(y), x.takenOver => y.takenOver, AccountInv(y, p)
  PROVE  Good(y, p) /\ (HasReplaced(y) => HasReplaced(x))
<1>1. FrameInv(y, p)
  BY DEF Good, FrameInv
<1>2. TakeInv(y)
  BY DEF Good, TakeInv
<1> QED
  BY <1>1, <1>2 DEF Good, HasReplaced

\* Without a frame or a connection that changes, a register is in flight or not as before.
LEMMA SameFree ==
  ASSUME NEW p, NEW x, NEW y, y.queue = x.queue, y.conn = x.conn
  PROVE  Free(y, p) <=> Free(x, p)
  BY DEF Free

\* Appending to the queue.
LEMMA QueueAppend ==
  ASSUME NEW q \in Seq(Items), NEW item \in Items
  PROVE  /\ Append(q, item) \in Seq(Items) /\ Len(q) \in Nat /\ Len(Append(q, item)) = Len(q) + 1
         /\ Append(q, item)[Len(q) + 1] = item /\ \A i \in 1 .. Len(q) : Append(q, item)[i] = q[i]
         /\ \A i \in 1 .. Len(Append(q, item)) : i \in 1 .. Len(q) \/ i = Len(q) + 1
<1>1. /\ Append(q, item) \in Seq(Items) /\ Len(q) \in Nat /\ Len(Append(q, item)) = Len(q) + 1
      /\ Append(q, item)[Len(q) + 1] = item /\ \A i \in 1 .. Len(q) : Append(q, item)[i] = q[i]
  OBVIOUS
<1>2. \A i \in 1 .. Len(Append(q, item)) : i \in 1 .. Len(q) \/ i = Len(q) + 1
  BY <1>1
<1> QED
  BY <1>1, <1>2

\* A call or an event is queued: a register only when none is in flight, an unregister only
\* in a close.
LEMMA Queues ==
  ASSUME NEW p \in Pendings, NEW x, Good(x, p), NEW item \in Items, NEW y \in SessionRec,
         y.queue = Append(x.queue, item), y.conn = x.conn, Ending(x) => Ending(y),
         item.do \in Sends => item.on = x.conn /\ x.conn # 0,
         item.do = "register" => Free(x, p) /\ ~Ending(x),
         item.do \in Unregisters => Ending(y),
         x.takenOver => y.takenOver, item.do \in TakeOvers => ~x.takenOver /\ y.takenOver, AccountInv(y, p)
  PROVE  /\ Good(y, p) /\ (item.do # "replaced" /\ HasReplaced(y) => HasReplaced(x))
<1> DEFINE n == Len(x.queue) + 1
<1>0. x \in SessionRec /\ x.queue \in Seq(Items) /\ x.conn \in 0 .. NConns /\ FrameInv(x, p) /\ TakeInv(x)
  BY Fields DEF Good
<1>1. /\ Len(x.queue) \in Nat /\ Len(y.queue) = n /\ y.queue[n] = item
      /\ \A i \in 1 .. Len(x.queue) : y.queue[i] = x.queue[i]
      /\ \A i \in 1 .. Len(y.queue) : i \in 1 .. Len(x.queue) \/ i = n
  BY <1>0, QueueAppend
<1>2. n \notin 1 .. Len(x.queue) /\ \A i \in 1 .. Len(x.queue) : i < n
  BY <1>1
<1>3. x.conn # 0 => x.conn \in Conns /\ x.conn \in 1 .. x.conn
  BY <1>0, SessionAssumption DEF Conns
<1> HIDE DEF n
<1>4. \A i \in 1 .. Len(y.queue) : y.queue[i].do \in Sends => y.queue[i].on \in 1 .. y.conn
  <2>1. \A i \in 1 .. Len(x.queue) : x.queue[i].do \in Sends => x.queue[i].on \in 1 .. x.conn
    BY <1>0 DEF FrameInv
  <2> QED
    BY <1>1, <1>3, <2>1
<1>5. \A c \in Conns : p[c] # << >> => c <= y.conn
  BY <1>0 DEF FrameInv
<1>6. ~Ending(y) => /\ \A i \in 1 .. Len(y.queue) : y.queue[i].do \notin Unregisters
                    /\ \A c \in Conns : \A i \in 1 .. Len(p[c]) : p[c][i] = "register"
  BY <1>0, <1>1 DEF FrameInv
<1>7. ASSUME NEW i \in 1 .. Len(y.queue), NEW j \in 1 .. Len(y.queue), y.queue[i].do = "register"
      PROVE  /\ y.queue[j].do \in Unregisters => i < j
             /\ y.queue[j].do = "register" /\ y.queue[j].on = y.queue[i].on => i = j
  <2>1. CASE i \in 1 .. Len(x.queue) /\ j \in 1 .. Len(x.queue)
    BY <1>0, <1>1, <1>7, <2>1 DEF FrameInv
  <2>2. CASE i = n /\ j = n
    BY <1>1, <1>7, <2>2 DEF Unregisters
  <2>3. CASE i = n /\ j \in 1 .. Len(x.queue)
    <3>1. item.do = "register" /\ item.on = x.conn /\ Free(x, p) /\ ~Ending(x)
      BY <1>1, <1>7, <2>3 DEF Sends
    <3>2. x.queue[j].do \notin Unregisters
      BY <1>0, <2>3, <3>1 DEF FrameInv
    <3>3. ~(x.queue[j].do = "register" /\ x.queue[j].on = x.conn)
      BY <2>3, <3>1 DEF Free
    <3> QED
      BY <1>1, <2>3, <3>1, <3>2, <3>3
  <2>4. CASE i \in 1 .. Len(x.queue) /\ j = n
    <3>1. i < n /\ x.queue[i].do = "register"
      BY <1>1, <1>2, <1>7, <2>4
    <3>2. item.do = "register" => ~(x.queue[i].on = item.on)
      BY <2>4, <3>1 DEF Free, Sends
    <3> QED
      BY <1>1, <2>4, <3>1, <3>2
  <2> QED
    BY <1>1, <2>1, <2>2, <2>3, <2>4
<1>8. ASSUME NEW i \in 1 .. Len(y.queue), y.queue[i].do = "register" PROVE p[y.queue[i].on] = << >>
  <2>1. CASE i \in 1 .. Len(x.queue)
    BY <1>0, <1>1, <1>8, <2>1 DEF FrameInv
  <2>2. CASE i = n
    <3>1. item.do = "register" /\ item.on = x.conn /\ Free(x, p) /\ ~Ending(x) /\ x.conn \in Conns
      BY <1>1, <1>3, <1>8, <2>2 DEF Sends
    <3>2. \A k \in 1 .. Len(p[x.conn]) : p[x.conn][k] = "register" /\ p[x.conn][k] # "register"
      BY <1>0, <3>1 DEF FrameInv, Free
    <3>3. p[x.conn] \in Seq(Frames)
      BY <3>1 DEF Pendings
    <3>4. p[x.conn] = << >>
      BY <3>2, <3>3
    <3> QED
      BY <1>1, <2>2, <3>1, <3>4
  <2> QED
    BY <1>1, <2>1, <2>2
<1>9. FrameInv(y, p)
  <2>1. \A c \in Conns : \A i \in 1 .. Len(p[c]) : p[c][i] = "register" => i = 1
    BY <1>0 DEF FrameInv
  <2> QED
    BY <1>4, <1>5, <1>6, <1>7, <1>8, <2>1 DEF FrameInv
<1>10. TakeInv(y)
  <2>1. ~y.takenOver => \A i \in 1 .. Len(y.queue) : y.queue[i].do \notin TakeOvers
    BY <1>0, <1>1 DEF TakeInv
  <2>2. ASSUME NEW i \in 1 .. Len(y.queue), NEW j \in 1 .. Len(y.queue),
               y.queue[i].do \in TakeOvers, y.queue[j].do \in TakeOvers
        PROVE  i = j
    BY <1>0, <1>1, <2>2 DEF TakeInv
  <2> QED
    BY <2>1, <2>2 DEF TakeInv
<1>11. item.do # "replaced" /\ HasReplaced(y) => HasReplaced(x)
  BY <1>1 DEF HasReplaced
<1> QED
  BY <1>9, <1>10, <1>11 DEF Good

\* No register is in flight after something else was queued.
LEMMA FreeStill ==
  ASSUME NEW p, NEW x \in SessionRec, NEW item \in Items, NEW y, y.queue = Append(x.queue, item), y.conn = x.conn,
         item.do # "register", Free(x, p)
  PROVE  Free(y, p)
<1>0. x.queue \in Seq(Items)
  BY Fields
<1>1. /\ y.queue[Len(x.queue) + 1] = item
      /\ \A i \in 1 .. Len(x.queue) : y.queue[i] = x.queue[i]
      /\ \A i \in 1 .. Len(y.queue) : i \in 1 .. Len(x.queue) \/ i = Len(x.queue) + 1
  BY <1>0, QueueAppend
<1> QED
  BY <1>1 DEF Free

-----------------------------------------------------------------------------
(* The helpers                                                               *)

\* A helper took the session from x to y on the same connection.
Moved(x, y, p) ==
  /\ Good(y, p) /\ y.conn = x.conn /\ y.takenOver = x.takenOver /\ y.connected = x.connected
  /\ Ending(y) <=> Ending(x)
  /\ HasReplaced(y) => HasReplaced(x)

\* One helper after another.
LEMMA MovedOn ==
  ASSUME NEW p, NEW x, NEW y, NEW z, Moved(x, y, p), Moved(y, z, p)
  PROVE  Moved(x, z, p)
  BY DEF Moved

\* Nothing happens.
LEMMA MovedSame ==
  ASSUME NEW p, NEW x, Good(x, p)
  PROVE  Moved(x, x, p)
  BY DEF Moved

\* Fields change, in a way that the account of the frames allows.
LEMMA FieldStep ==
  ASSUME NEW p, NEW x, Good(x, p), NEW y \in SessionRec, y.queue = x.queue, y.conn = x.conn,
         y.takenOver = x.takenOver, y.connected = x.connected, y.sentRegister => x.sentRegister,
         Ending(y) <=> Ending(x), y.takenOver /\ ~Ending(y) => y.state = "conflict",
         y.outstanding = "none" => y.overload.on = 0,
         y.outstanding # "register" \/ y.overload.on # 0 => Free(x, p) \/ x.outstanding # "register" \/ x.overload.on # 0,
         y.unreg # 0 => y.unreg = x.unreg /\ y.state = x.state /\ (y.closePreReply \/ ~x.closePreReply \/ Free(x, p))
  PROVE  Moved(x, y, p) /\ (Free(x, p) => Free(y, p))
<1>1. Free(y, p) <=> Free(x, p)
  BY SameFree
<1>2. AccountInv(y, p)
  BY <1>1 DEF Good, AccountInv
<1>3. Good(y, p) /\ (HasReplaced(y) => HasReplaced(x))
  BY <1>2, Keeps
<1> QED
  BY <1>1, <1>3 DEF Moved

\* No timer.
LEMMA NoTimerOff == NoTimer \in Timers /\ NoTimer.on = 0
  BY SessionAssumption DEF NoTimer, Timers

\* The fields of the session that most helpers leave alone.
SameFrames(x, y) ==
  /\ y.queue = x.queue /\ y.conn = x.conn /\ y.takenOver = x.takenOver /\ y.connected = x.connected
  /\ y.sentRegister = x.sentRegister /\ y.unreg = x.unreg
SameState(x, y) == y.state = x.state /\ y.closePreReply = x.closePreReply

\* cancelTimersLocked.
LEMMA CancelDoes ==
  ASSUME NEW x \in SessionRec
  PROVE  LET y == CancelTimers(x) IN
         /\ y \in SessionRec /\ SameFrames(x, y) /\ SameState(x, y) /\ y.outstanding = x.outstanding
         /\ y.overload.on = 0 /\ y.retry.on = 0 /\ y.registerQueued = x.registerQueued
         /\ y.heldDisable = x.heldDisable
<1> DEFINE y == [x EXCEPT !.retry = NoTimer, !.overload = NoTimer]
<1>1. y \in SessionRec
  BY NoTimerOff, ZenonT(60) DEF SessionRec
<1>2. /\ SameFrames(x, y) /\ SameState(x, y) /\ y.outstanding = x.outstanding /\ y.overload = NoTimer
      /\ y.retry = NoTimer /\ y.registerQueued = x.registerQueued /\ y.heldDisable = x.heldDisable
  BY DEF SessionRec, SameFrames, SameState
<1> QED
  BY <1>1, <1>2, NoTimerOff DEF CancelTimers

\* The timers stop.
LEMMA Cancels ==
  ASSUME NEW p, NEW x, Good(x, p)
  PROVE  Moved(x, CancelTimers(x), p) /\ (Free(x, p) => Free(CancelTimers(x), p))
<1> DEFINE y == CancelTimers(x)
<1>1. x \in SessionRec
  BY DEF Good
<1>2. /\ y \in SessionRec /\ SameFrames(x, y) /\ SameState(x, y) /\ y.outstanding = x.outstanding
      /\ y.overload.on = 0
  BY <1>1, CancelDoes
<1> HIDE DEF y
<1>3. x.takenOver /\ ~Ending(x) => x.state = "conflict"
  BY DEF Good, AccountInv
<1>4. Moved(x, y, p) /\ (Free(x, p) => Free(y, p))
  BY <1>2, <1>3, FieldStep DEF SameFrames, SameState, Ending
<1> QED
  BY <1>4 DEF y

\* settleLocked, once the register is answered.
LEMMA Settles ==
  ASSUME NEW p, NEW x, Good(x, p), Free(x, p)
  PROVE  LET y == Settle(x) IN
         /\ Moved(x, y, p) /\ Free(y, p) /\ y.outstanding = "none" /\ y.state = x.state /\ y.unreg = x.unreg
         /\ y.closePreReply = x.closePreReply
<1> DEFINE y == [x EXCEPT !.overload = NoTimer, !.outstanding = "none"]
<1>1. x \in SessionRec /\ (x.takenOver /\ ~Ending(x) => x.state = "conflict")
  BY DEF Good, AccountInv
<1>2. y \in SessionRec
  BY <1>1, NoTimerOff, ZenonT(60) DEF SessionRec
<1>3. SameFrames(x, y) /\ SameState(x, y) /\ y.outstanding = "none" /\ y.overload = NoTimer
  BY <1>1 DEF SessionRec, SameFrames, SameState
<1>4. Settle(x) = y
  BY DEF Settle
<1> HIDE DEF y
<1>5. Moved(x, y, p) /\ Free(y, p)
  BY <1>1, <1>2, <1>3, NoTimerOff, FieldStep DEF SameFrames, SameState, Ending
<1> QED
  BY <1>3, <1>4, <1>5 DEF SameFrames, SameState

\* scheduleRegisterRetryLocked.
LEMMA Schedules ==
  ASSUME NEW p, NEW x, Good(x, p)
  PROVE  LET y == ScheduleRetry(x) IN
         Moved(x, y, p) /\ (Free(x, p) => Free(y, p)) /\ y.state = x.state /\ y.unreg = x.unreg
<1> DEFINE r == [on |-> x.conn, op |-> "register"]
           y == [x EXCEPT !.retry = r]
<1>1. x \in SessionRec /\ (x.takenOver /\ ~Ending(x) => x.state = "conflict")
      /\ (x.outstanding = "none" => x.overload.on = 0)
  BY DEF Good, AccountInv
<1>2. r \in Timers
  BY <1>1, Fields DEF Timers, Frames
<1> HIDE DEF r
<1>3. y \in SessionRec
  BY <1>1, <1>2, ZenonT(60) DEF SessionRec
<1>4. SameFrames(x, y) /\ SameState(x, y) /\ y.outstanding = x.outstanding /\ y.overload = x.overload
  BY <1>1 DEF SessionRec, SameFrames, SameState
<1>5. ScheduleRetry(x) = y
  BY DEF ScheduleRetry, r
<1> HIDE DEF y
<1>6. Moved(x, y, p) /\ (Free(x, p) => Free(y, p))
  BY <1>1, <1>3, <1>4, FieldStep DEF SameFrames, SameState, Ending
<1> QED
  BY <1>4, <1>5, <1>6 DEF SameFrames, SameState

\* The session moves on between the states of a service that is neither taken over nor closed.
LEMMA Restates ==
  ASSUME NEW p, NEW x, Good(x, p), ~Ending(x), ~x.takenOver, NEW y \in SessionRec, SameFrames(x, y),
         y.outstanding = x.outstanding, y.overload.on = x.overload.on, ~Ending(y)
  PROVE  Moved(x, y, p) /\ (Free(x, p) => Free(y, p))
<1>1. x.unreg = 0 /\ (x.outstanding = "none" => x.overload.on = 0)
  BY DEF Good, AccountInv, Ending
<1> QED
  BY <1>1, FieldStep DEF SameFrames

\* disableLocked.
LEMMA Disables ==
  ASSUME NEW p, NEW x, Good(x, p), ~Ending(x), ~x.takenOver
  PROVE  LET y == Disable(x) IN
         Moved(x, y, p) /\ (Free(x, p) => Free(y, p)) /\ y.state = "disabled" /\ y.unreg = x.unreg
<1> DEFINE u == CancelTimers(x)
           y == [u EXCEPT !.state = "disabled"]
<1>1. x \in SessionRec
  BY DEF Good
<1>2. u \in SessionRec /\ SameFrames(x, u)
  BY <1>1, CancelDoes
<1>3. Moved(x, u, p) /\ (Free(x, p) => Free(u, p))
  BY Cancels
<1>4. Disable(x) = y
  BY DEF Disable
<1> HIDE DEF u
<1>5. y \in SessionRec
  BY <1>2, ZenonT(60) DEF SessionRec, States
<1>6. SameFrames(u, y) /\ y.outstanding = u.outstanding /\ y.overload = u.overload /\ y.state = "disabled"
  BY <1>2 DEF SessionRec, SameFrames
<1> HIDE DEF y
<1>7. Moved(u, y, p) /\ (Free(u, p) => Free(y, p))
  BY <1>3, <1>5, <1>6, Restates DEF Moved, Ending
<1>8. Moved(x, y, p)
  BY <1>3, <1>7, MovedOn
<1> QED
  BY <1>2, <1>3, <1>4, <1>6, <1>7, <1>8 DEF SameFrames

\* A register is sent when none is in flight.
LEMMA SendsRegister ==
  ASSUME NEW p \in Pendings, NEW x, Good(x, p), Free(x, p), x.connected, ~x.takenOver, ~Ending(x), x.overload.on = 0
  PROVE  LET y == SendRegister(x) IN Moved(x, y, p) /\ y.state = x.state /\ y.unreg = x.unreg
<1> DEFINE item == [do |-> "register", on |-> x.conn]
           q == Append(x.queue, item)
           u == [x EXCEPT !.outstanding = "register", !.sentRegister = TRUE]
           y == [u EXCEPT !.queue = q]
<1>1. x \in SessionRec /\ x.conn # 0 /\ x.unreg = 0
  BY DEF Good, AccountInv, Ending
<1>2. item \in Items /\ item.do = "register" /\ item.on = x.conn
  BY <1>1, Fields DEF Items, Sends
<1>3. u \in SessionRec
  BY <1>1, ZenonT(60) DEF SessionRec, Frames
<1>4. /\ u.queue = x.queue /\ u.conn = x.conn /\ u.takenOver = x.takenOver /\ u.connected = x.connected
      /\ u.unreg = x.unreg /\ u.outstanding = "register" /\ u.overload = x.overload /\ u.state = x.state
  BY <1>1 DEF SessionRec
<1>5. SendRegister(x) = y
  BY <1>4 DEF SendRegister, Queue
<1> HIDE DEF u, item
<1>6. q \in Seq(Items)
  BY <1>1, <1>2, Fields, QueueAppend
<1>7. y \in SessionRec
  <2> HIDE DEF q
  <2> QED
    BY <1>3, <1>6, ZenonT(60) DEF SessionRec
<1>8. /\ y.queue = q /\ y.conn = x.conn /\ y.takenOver = x.takenOver /\ y.connected = x.connected
      /\ y.unreg = x.unreg /\ y.outstanding = "register" /\ y.overload = x.overload /\ y.state = x.state
  BY <1>3, <1>4 DEF SessionRec
<1> HIDE DEF y
<1>9. AccountInv(y, p)
  BY <1>1, <1>8 DEF AccountInv
<1>10. Ending(y) <=> Ending(x)
  BY <1>8 DEF Ending
<1>11. Good(y, p) /\ (HasReplaced(y) => HasReplaced(x))
  BY <1>1, <1>2, <1>7, <1>8, <1>9, <1>10, Queues DEF TakeOvers, Unregisters
<1> QED
  BY <1>5, <1>8, <1>10, <1>11 DEF Moved

\* registerLocked.
LEMMA Registers ==
  ASSUME NEW p \in Pendings, NEW x, Good(x, p), x.connected, ~x.takenOver, ~Ending(x)
  PROVE  LET y == Register(x) IN Moved(x, y, p) /\ y.state = x.state /\ y.unreg = x.unreg
<1>1. x \in SessionRec /\ (x.outstanding = "none" => x.overload.on = 0 /\ Free(x, p))
  BY DEF Good, AccountInv
<1>2. CASE x.outstanding = "register" /\ x.overload.on # 0
  BY <1>2, MovedSame DEF Register
<1>3. CASE ~(x.outstanding = "register" /\ x.overload.on # 0) /\ x.outstanding # "none"
  <2> DEFINE y == [x EXCEPT !.registerQueued = TRUE]
  <2>1. y \in SessionRec
    BY <1>1, ZenonT(60) DEF SessionRec
  <2>2. SameFrames(x, y) /\ y.outstanding = x.outstanding /\ y.overload = x.overload /\ y.state = x.state
    BY <1>1 DEF SessionRec, SameFrames
  <2>3. Register(x) = y
    BY <1>3 DEF Register
  <2> HIDE DEF y
  <2>4. Moved(x, y, p)
    BY <2>1, <2>2, Restates DEF Ending
  <2> QED
    BY <2>2, <2>3, <2>4 DEF SameFrames
<1>4. CASE ~(x.outstanding = "register" /\ x.overload.on # 0) /\ x.outstanding = "none"
  <2>1. Register(x) = SendRegister(x)
    BY <1>4 DEF Register
  <2> QED
    BY <1>1, <1>4, <2>1, SendsRegister
<1> QED
  BY <1>2, <1>3, <1>4

\* A field that only says that a register waits.
LEMMA Unqueues ==
  ASSUME NEW p, NEW x, Good(x, p)
  PROVE  LET y == [x EXCEPT !.registerQueued = FALSE] IN
         /\ Moved(x, y, p) /\ SameFrames(x, y) /\ y.state = x.state /\ y.outstanding = x.outstanding
         /\ y.overload = x.overload /\ (Free(x, p) => Free(y, p))
<1> DEFINE y == [x EXCEPT !.registerQueued = FALSE]
<1>1. x \in SessionRec /\ (x.takenOver /\ ~Ending(x) => x.state = "conflict")
      /\ (x.outstanding = "none" => x.overload.on = 0)
  BY DEF Good, AccountInv
<1>2. y \in SessionRec
  BY <1>1, ZenonT(60) DEF SessionRec
<1>3. SameFrames(x, y) /\ SameState(x, y) /\ y.outstanding = x.outstanding /\ y.overload = x.overload
  BY <1>1 DEF SessionRec, SameFrames, SameState
<1> HIDE DEF y
<1>4. Moved(x, y, p) /\ (Free(x, p) => Free(y, p))
  BY <1>1, <1>2, <1>3, FieldStep DEF SameFrames, SameState, Ending
<1> QED
  BY <1>3, <1>4 DEF SameState, y

\* flushQueuedRegisterLocked.
LEMMA FlushesRegister ==
  ASSUME NEW p \in Pendings, NEW x, Good(x, p)
  PROVE  LET y == FlushQueuedRegister(x) IN Moved(x, y, p) /\ y.state = x.state /\ y.unreg = x.unreg
<1>1. CASE ~x.registerQueued \/ x.outstanding # "none"
  BY <1>1, MovedSame DEF FlushQueuedRegister
<1>2. CASE ~(~x.registerQueued \/ x.outstanding # "none")
  <2> DEFINE u == [x EXCEPT !.registerQueued = FALSE]
  <2>1. /\ Moved(x, u, p) /\ SameFrames(x, u) /\ u.state = x.state /\ u.outstanding = x.outstanding
        /\ u.overload = x.overload
    BY Unqueues
  <2>2. FlushQueuedRegister(x) = IF x.connected /\ ~Ending(x) /\ ~x.takenOver /\ x.retry.on = 0 THEN SendRegister(u) ELSE u
    BY <1>2 DEF FlushQueuedRegister
  <2> HIDE DEF u
  <2>3. CASE x.connected /\ ~Ending(x) /\ ~x.takenOver /\ x.retry.on = 0
    <3>1. Good(u, p) /\ u.connected /\ ~Ending(u) /\ ~u.takenOver /\ u.outstanding = "none"
      BY <1>2, <2>1, <2>3 DEF Moved
    <3>2. Free(u, p) /\ u.overload.on = 0
      BY <3>1 DEF Good, AccountInv
    <3>3. LET y == SendRegister(u) IN Moved(u, y, p) /\ y.state = u.state /\ y.unreg = u.unreg
      BY <3>1, <3>2, SendsRegister
    <3>4. FlushQueuedRegister(x) = SendRegister(u)
      BY <2>2, <2>3
    <3> QED
      BY <2>1, <3>3, <3>4, MovedOn DEF SameFrames
  <2>4. CASE ~(x.connected /\ ~Ending(x) /\ ~x.takenOver /\ x.retry.on = 0)
    BY <2>1, <2>2, <2>4 DEF SameFrames
  <2> QED
    BY <2>3, <2>4
<1> QED
  BY <1>1, <1>2

\* An event is queued, and a wait for the unregister may end with it.
LEMMA QueuesEvent ==
  ASSUME NEW p \in Pendings, NEW x, Good(x, p), NEW item \in Items, item.do \in {"fatal", "done"},
         NEW y \in SessionRec, y.queue = Append(x.queue, item), y.conn = x.conn, y.takenOver = x.takenOver,
         y.connected = x.connected, y.sentRegister = x.sentRegister, SameState(x, y),
         y.outstanding = x.outstanding, y.overload = x.overload, y.unreg = 0 \/ y.unreg = x.unreg
  PROVE  Moved(x, y, p) /\ (Free(x, p) => Free(y, p))
<1>1. x \in SessionRec /\ AccountInv(x, p)
  BY DEF Good
<1>2. item.do \notin Sends /\ item.do \notin TakeOvers /\ item.do # "register" /\ item.do \notin Unregisters
      /\ item.do # "replaced"
  BY DEF Sends, TakeOvers, Unregisters
<1>3. Free(x, p) => Free(y, p)
  BY <1>1, <1>2, FreeStill
<1>4. (Ending(y) <=> Ending(x)) /\ y.state = x.state /\ y.closePreReply = x.closePreReply
  BY DEF Ending, SameState
<1>5. AccountInv(y, p)
  BY <1>1, <1>3, <1>4 DEF AccountInv
<1>6. Good(y, p) /\ (HasReplaced(y) => HasReplaced(x))
  BY <1>2, <1>4, <1>5, Queues
<1> QED
  BY <1>3, <1>4, <1>6 DEF Moved

\* releaseUnregLocked.
LEMMA ReleasesUnreg ==
  ASSUME NEW p \in Pendings, NEW x, Good(x, p)
  PROVE  LET y == ReleaseUnreg(x) IN
         /\ Moved(x, y, p) /\ (Free(x, p) => Free(y, p)) /\ SameState(x, y) /\ y.unreg = 0
         /\ y.outstanding = x.outstanding /\ y.overload = x.overload
<1>1. x \in SessionRec
  BY DEF Good
<1>2. CASE x.unreg = 0
  BY <1>2, MovedSame DEF ReleaseUnreg, SameState
<1>3. CASE x.unreg # 0
  <2> DEFINE item == [do |-> "done", on |-> 0]
             u == [x EXCEPT !.unreg = 0]
             q == Append(u.queue, item)
             y == [u EXCEPT !.queue = q]
  <2>1. item \in Items /\ item.do = "done" /\ 0 \in 0 .. NConns
    BY SessionAssumption DEF Items
  <2>2. ReleaseUnreg(x) = y
    BY <1>3 DEF ReleaseUnreg, Queue
  <2> HIDE DEF item
  <2>3. u \in SessionRec
    BY <1>1, <2>1, ZenonT(60) DEF SessionRec
  <2>4. /\ u.queue = x.queue /\ u.conn = x.conn /\ u.takenOver = x.takenOver /\ u.connected = x.connected
        /\ u.sentRegister = x.sentRegister /\ SameState(x, u) /\ u.outstanding = x.outstanding
        /\ u.overload = x.overload /\ u.unreg = 0
    BY <1>1 DEF SessionRec, SameState
  <2> HIDE DEF u
  <2>5. q \in Seq(Items)
    BY <2>1, <2>3, Fields, QueueAppend
  <2>6. y \in SessionRec
    <3> HIDE DEF q
    <3> QED
      BY <2>3, <2>5, ZenonT(60) DEF SessionRec
  <2>7. /\ y.queue = q /\ y.conn = u.conn /\ y.takenOver = u.takenOver /\ y.connected = u.connected
        /\ y.sentRegister = u.sentRegister /\ SameState(u, y) /\ y.outstanding = u.outstanding
        /\ y.overload = u.overload /\ y.unreg = 0
    BY <2>3, <2>4 DEF SessionRec, SameState
  <2> HIDE DEF y
  <2>8. SameState(x, y)
    BY <2>4, <2>7 DEF SameState
  <2>9. Moved(x, y, p) /\ (Free(x, p) => Free(y, p))
    BY <2>1, <2>4, <2>6, <2>7, <2>8, QueuesEvent
  <2> QED
    BY <2>2, <2>4, <2>7, <2>8, <2>9
<1> QED
  BY <1>2, <1>3

\* fatalLocked.
LEMMA Fatals ==
  ASSUME NEW p \in Pendings, NEW x, Good(x, p)
  PROVE  LET y == Fatal(x) IN Moved(x, y, p) /\ (Free(x, p) => Free(y, p)) /\ SameState(x, y) /\ y.unreg = x.unreg
<1> DEFINE item == [do |-> "fatal", on |-> 0]
           q == Append(x.queue, item)
           y == [x EXCEPT !.queue = q]
<1>1. x \in SessionRec
  BY DEF Good
<1>2. item \in Items /\ item.do = "fatal"
  BY SessionAssumption DEF Items
<1>3. Fatal(x) = y
  BY DEF Fatal, Queue
<1> HIDE DEF item
<1>4. q \in Seq(Items)
  BY <1>1, <1>2, Fields, QueueAppend
<1>5. y \in SessionRec
  <2> HIDE DEF q
  <2> QED
    BY <1>1, <1>4, ZenonT(60) DEF SessionRec
<1>6. /\ y.queue = q /\ y.conn = x.conn /\ y.takenOver = x.takenOver /\ y.connected = x.connected
      /\ y.sentRegister = x.sentRegister /\ SameState(x, y) /\ y.outstanding = x.outstanding
      /\ y.overload = x.overload /\ y.unreg = x.unreg
  BY <1>1 DEF SessionRec, SameState
<1> HIDE DEF y
<1>7. Moved(x, y, p) /\ (Free(x, p) => Free(y, p))
  BY <1>2, <1>5, <1>6, QueuesEvent
<1> QED
  BY <1>3, <1>6, <1>7

\* A helper that may end the session or take it over.
Kept(x, y, p) == Good(y, p) /\ y.conn = x.conn /\ (Ending(x) => Ending(y)) /\ (HasReplaced(y) => HasReplaced(x))

\* takeOverLocked.
LEMMA TakesOver ==
  ASSUME NEW p \in Pendings, NEW x, Good(x, p), ~Ending(x), ~x.takenOver, NEW by \in TakeOvers
  PROVE  LET y == TakeOver(x, by) IN
         /\ Good(y, p) /\ y.conn = x.conn /\ ~Ending(y) /\ y.state = "conflict" /\ y.unreg = 0
         /\ (by # "replaced" /\ HasReplaced(y) => HasReplaced(x))
<1> DEFINE item == [do |-> by, on |-> 0]
           t == CancelTimers(x)
           u == [t EXCEPT !.takenOver = TRUE, !.outstanding = "none", !.sentRegister = FALSE, !.state = "conflict"]
           q == Append(u.queue, item)
           y == [u EXCEPT !.queue = q]
<1>1. x \in SessionRec /\ x.unreg = 0 /\ (x.connected => x.conn # 0)
  BY DEF Good, AccountInv, Ending
<1>2. item \in Items /\ item.do = by
  BY SessionAssumption DEF Items
<1>3. TakeOver(x, by) = y
  BY DEF TakeOver, Queue
<1>4. t \in SessionRec /\ SameFrames(x, t) /\ t.overload.on = 0
  BY <1>1, CancelDoes
<1> HIDE DEF item, t
<1>5. u \in SessionRec
  BY <1>4, ZenonT(60) DEF SessionRec, States
<1>6. /\ u.queue = t.queue /\ u.conn = t.conn /\ u.takenOver /\ u.connected = t.connected /\ ~u.sentRegister
      /\ u.state = "conflict" /\ u.outstanding = "none" /\ u.overload = t.overload /\ u.unreg = t.unreg
  BY <1>4 DEF SessionRec
<1> HIDE DEF u
<1>7. q \in Seq(Items)
  BY <1>2, <1>5, Fields, QueueAppend
<1>8. y \in SessionRec
  <2> HIDE DEF q
  <2> QED
    BY <1>5, <1>7, ZenonT(60) DEF SessionRec
<1>9. /\ y.queue = q /\ y.conn = u.conn /\ y.takenOver = u.takenOver /\ y.connected = u.connected
      /\ y.sentRegister = u.sentRegister /\ y.state = u.state /\ y.outstanding = u.outstanding
      /\ y.overload = u.overload /\ y.unreg = u.unreg
  BY <1>5 DEF SessionRec
<1> HIDE DEF y
<1>10. /\ y.queue = Append(x.queue, item) /\ y.conn = x.conn /\ y.takenOver /\ y.connected = x.connected
       /\ ~y.sentRegister /\ y.state = "conflict" /\ y.outstanding = "none" /\ y.overload.on = 0 /\ y.unreg = 0
  BY <1>1, <1>4, <1>6, <1>9 DEF SameFrames
<1>11. AccountInv(y, p)
  BY <1>1, <1>10 DEF AccountInv
<1>12. by \notin Sends /\ by # "register" /\ by \notin Unregisters
  BY DEF TakeOvers, Sends, Unregisters
<1>13. Good(y, p) /\ (by # "replaced" /\ HasReplaced(y) => HasReplaced(x))
  BY <1>2, <1>8, <1>10, <1>11, <1>12, Queues
<1>14. ~Ending(y)
  BY <1>10 DEF Ending
<1> QED
  BY <1>3, <1>10, <1>13, <1>14

\* markClosed.
LEMMA Finishes ==
  ASSUME NEW p \in Pendings, NEW x, Good(x, p)
  PROVE  Kept(x, Finish(x), p) /\ (Finish(x).state = x.state \/ Finish(x).state = "closed")
<1>1. CASE agent.finished
  BY <1>1 DEF Finish, Kept
<1>2. CASE ~agent.finished
  <2> DEFINE t == CancelTimers(x)
             u == ReleaseUnreg(t)
             y == [u EXCEPT !.state = "closed"]
  <2>1. Finish(x) = y
    BY <1>2 DEF Finish
  <2>2. Moved(x, t, p)
    BY Cancels
  <2>3. Good(t, p)
    BY <2>2 DEF Moved
  <2> HIDE DEF t
  <2>4. Moved(t, u, p) /\ u.unreg = 0
    BY <2>3, ReleasesUnreg
  <2>5. Moved(x, u, p) /\ u \in SessionRec /\ AccountInv(u, p)
    BY <2>2, <2>4, MovedOn DEF Moved, Good
  <2> HIDE DEF u
  <2>6. y \in SessionRec
    BY <2>5, ZenonT(60) DEF SessionRec, States
  <2>7. /\ y.queue = u.queue /\ y.conn = u.conn /\ y.takenOver = u.takenOver /\ y.connected = u.connected
        /\ y.sentRegister = u.sentRegister /\ y.state = "closed" /\ y.outstanding = u.outstanding
        /\ y.overload = u.overload /\ y.unreg = u.unreg
    BY <2>5 DEF SessionRec
  <2> HIDE DEF y
  <2>8. Ending(y)
    BY <2>7 DEF Ending
  <2>9. AccountInv(y, p)
    BY <2>4, <2>5, <2>7, <2>8 DEF AccountInv
  <2>10. Good(y, p) /\ (HasReplaced(y) => HasReplaced(u))
    BY <2>5, <2>6, <2>7, <2>8, <2>9, Keeps DEF Moved
  <2> QED
    BY <2>1, <2>5, <2>7, <2>8, <2>10 DEF Moved, Kept
<1> QED
  BY <1>1, <1>2

-----------------------------------------------------------------------------
(* The messages                                                              *)

\* The reply to the register in flight when the close began is no longer expected.
LEMMA PreReplied ==
  ASSUME NEW p, NEW x, Good(x, p), Free(x, p)
  PROVE  LET y == [x EXCEPT !.closePreReply = FALSE] IN
         Moved(x, y, p) /\ Free(y, p) /\ y.state = x.state /\ y.unreg = x.unreg
<1> DEFINE y == [x EXCEPT !.closePreReply = FALSE]
<1>1. x \in SessionRec /\ (x.takenOver /\ ~Ending(x) => x.state = "conflict")
      /\ (x.outstanding = "none" => x.overload.on = 0)
  BY DEF Good, AccountInv
<1>2. y \in SessionRec
  BY <1>1, ZenonT(60) DEF SessionRec
<1>3. SameFrames(x, y) /\ y.state = x.state /\ y.outstanding = x.outstanding /\ y.overload = x.overload
  BY <1>1 DEF SessionRec, SameFrames
<1> HIDE DEF y
<1>4. Moved(x, y, p) /\ Free(y, p)
  BY <1>1, <1>2, <1>3, FieldStep DEF SameFrames, Ending
<1> QED
  BY <1>3, <1>4 DEF SameFrames, y

\* A service is registered.
LEMMA MarksRegistered ==
  ASSUME NEW p, NEW x, Good(x, p), ~Ending(x), ~x.takenOver
  PROVE  LET z == [CancelTimers(x) EXCEPT !.hasServerID = TRUE, !.everRegister = TRUE,
                                          !.heldDisable = FALSE, !.state = "registered"] IN
         Moved(x, z, p) /\ z.unreg = x.unreg
<1> DEFINE t == CancelTimers(x)
           z == [t EXCEPT !.hasServerID = TRUE, !.everRegister = TRUE, !.heldDisable = FALSE, !.state = "registered"]
<1>1. x \in SessionRec
  BY DEF Good
<1>2. t \in SessionRec /\ SameFrames(x, t) /\ Moved(x, t, p)
  BY <1>1, CancelDoes, Cancels
<1> SUFFICES Moved(x, z, p) /\ z.unreg = x.unreg
  OBVIOUS
<1> HIDE DEF t
<1>3. z \in SessionRec
  BY <1>2, ZenonT(60) DEF SessionRec, States
<1>4. SameFrames(t, z) /\ z.outstanding = t.outstanding /\ z.overload = t.overload /\ z.state = "registered"
  BY <1>2 DEF SessionRec, SameFrames
<1> HIDE DEF z
<1>5. Good(t, p) /\ ~Ending(t) /\ ~t.takenOver /\ ~Ending(z)
  BY <1>2, <1>4 DEF Moved, Ending
<1>6. Moved(t, z, p)
  BY <1>3, <1>4, <1>5, Restates
<1> QED
  BY <1>2, <1>4, <1>6, MovedOn DEF SameFrames

\* A service is disabled by the reply to its register.
LEMMA MarksDisabled ==
  ASSUME NEW p, NEW x, Good(x, p), ~Ending(x), ~x.takenOver
  PROVE  LET z == [Disable(x) EXCEPT !.hasServerID = TRUE] IN Moved(x, z, p) /\ z.unreg = x.unreg
<1> DEFINE t == Disable(x)
           z == [t EXCEPT !.hasServerID = TRUE]
<1>1. Moved(x, t, p) /\ t.unreg = x.unreg
  BY Disables
<1> SUFFICES Moved(x, z, p) /\ z.unreg = x.unreg
  OBVIOUS
<1>2. Good(t, p) /\ ~Ending(t) /\ ~t.takenOver /\ t \in SessionRec
  BY <1>1 DEF Moved, Good
<1> HIDE DEF t
<1>3. z \in SessionRec
  BY <1>2, ZenonT(60) DEF SessionRec
<1>4. SameFrames(t, z) /\ z.outstanding = t.outstanding /\ z.overload = t.overload /\ z.state = t.state
  BY <1>2 DEF SessionRec, SameFrames
<1> HIDE DEF z
<1>5. Moved(t, z, p)
  BY <1>2, <1>3, <1>4, Restates DEF Ending
<1> QED
  BY <1>1, <1>4, <1>5, MovedOn DEF SameFrames

\* onRegisteredLocked.
LEMMA Registereds ==
  ASSUME NEW p \in Pendings, NEW x, Good(x, p), Free(x, p), NEW says \in RegisterReplies
  PROVE  LET y == OnRegistered(x, says) IN Moved(x, y, p) /\ y.unreg = x.unreg
<1>1. CASE x.state = "closing"
  <2>1. OnRegistered(x, says) = [x EXCEPT !.closePreReply = FALSE]
    BY <1>1 DEF OnRegistered, Ending
  <2> QED
    BY <2>1, PreReplied
<1>2. CASE x.state # "closing" /\ (x.state = "closed" \/ (x.takenOver /\ ~Ending(x)))
  BY <1>2, MovedSame DEF OnRegistered
<1>3. CASE x.state # "closing" /\ ~(x.state = "closed" \/ (x.takenOver /\ ~Ending(x)))
  <2> DEFINE y == IF x.outstanding = "register" THEN Settle(x) ELSE x
             r == [CancelTimers(y) EXCEPT !.hasServerID = TRUE, !.everRegister = TRUE,
                                          !.heldDisable = FALSE, !.state = "registered"]
  <2>1. ~Ending(x) /\ ~x.takenOver
    BY <1>3 DEF Ending
  <2>2. Moved(x, y, p) /\ y.unreg = x.unreg
    BY Settles, MovedSame
  <2>3. Good(y, p) /\ ~Ending(y) /\ ~y.takenOver
    BY <2>1, <2>2 DEF Moved
  <2>4. OnRegistered(x, says) =
          CASE says = "unlisted" -> IF x.outstanding = "register" /\ x.overload.on = 0 THEN ScheduleRetry(y) ELSE x
            [] says = "registered" -> IF x.heldDisable THEN Disable(r) ELSE r
            [] says = "serverDisabled" -> [Disable(y) EXCEPT !.hasServerID = TRUE]
            [] says = "transient" -> ScheduleRetry(y)
            [] says = "refused" -> IF x.everRegister THEN y ELSE Fatal(y)
    BY <1>3 DEF OnRegistered
  <2> HIDE DEF y
  <2>5. Moved(y, ScheduleRetry(y), p) /\ ScheduleRetry(y).unreg = y.unreg
    BY <2>3, Schedules
  <2>6. Moved(y, Fatal(y), p) /\ Fatal(y).unreg = y.unreg
    BY <2>3, Fatals
  <2>7. Moved(y, r, p) /\ r.unreg = y.unreg
    BY <2>3, MarksRegistered
  <2> DEFINE d == [Disable(y) EXCEPT !.hasServerID = TRUE]
  <2>8. Moved(y, d, p) /\ d.unreg = y.unreg
    BY <2>3, MarksDisabled
  <2> HIDE DEF r, d
  <2>9. Moved(r, Disable(r), p) /\ Disable(r).unreg = r.unreg
    BY <2>3, <2>7, Disables DEF Moved
  <2>10. Moved(x, x, p)
    BY MovedSame
  <2>11. OnRegistered(x, says) \in {x, y, ScheduleRetry(y), Fatal(y), r, Disable(r), d}
    <3>1. says \in {"registered", "unlisted", "serverDisabled", "transient", "refused"}
      BY DEF RegisterReplies
    <3> QED
      BY <2>4, <3>1 DEF d
  <2>12. Moved(x, r, p)
    BY <2>2, <2>7, MovedOn
  <2>13. /\ Moved(x, ScheduleRetry(y), p) /\ Moved(x, Fatal(y), p) /\ Moved(x, d, p) /\ Moved(x, Disable(r), p)
    BY <2>2, <2>5, <2>6, <2>8, <2>9, <2>12, MovedOn
  <2> QED
    BY <2>2, <2>5, <2>6, <2>7, <2>8, <2>9, <2>10, <2>11, <2>12, <2>13
<1> QED
  BY <1>1, <1>2, <1>3

\* OVERLOADED pauses the outstanding frame.
LEMMA Pauses ==
  ASSUME NEW p, NEW x, Good(x, p), Free(x, p), x.outstanding # "none"
  PROVE  LET y == [x EXCEPT !.overload = [on |-> x.conn, op |-> x.outstanding]] IN
         Moved(x, y, p) /\ y.state = x.state /\ y.unreg = x.unreg
<1> DEFINE r == [on |-> x.conn, op |-> x.outstanding]
           y == [x EXCEPT !.overload = r]
<1>1. x \in SessionRec /\ (x.takenOver /\ ~Ending(x) => x.state = "conflict")
  BY DEF Good, AccountInv
<1>2. r \in Timers
  BY <1>1, Fields DEF Timers, Frames
<1> SUFFICES Moved(x, y, p) /\ y.state = x.state /\ y.unreg = x.unreg
  OBVIOUS
<1> HIDE DEF r
<1>3. y \in SessionRec
  BY <1>1, <1>2, ZenonT(60) DEF SessionRec
<1>4. SameFrames(x, y) /\ SameState(x, y) /\ y.outstanding = x.outstanding
  BY <1>1 DEF SessionRec, SameFrames, SameState
<1> HIDE DEF y
<1>5. Moved(x, y, p)
  BY <1>1, <1>3, <1>4, FieldStep DEF SameFrames, SameState, Ending
<1> QED
  BY <1>4, <1>5 DEF SameFrames, SameState

\* onAppErrorLocked: while the reply to a register is due the wait for the unregister goes on.
LEMMA Errs ==
  ASSUME NEW p \in Pendings, NEW x, Good(x, p), Free(x, p), NEW code
  PROVE  LET y == OnAppError(x, code) IN
         Moved(x, y, p) /\ y.state = x.state /\ (x.closePreReply => y.unreg = x.unreg)
<1> DEFINE r == [x EXCEPT !.closePreReply = FALSE]
           o == [x EXCEPT !.overload = [on |-> x.conn, op |-> x.outstanding]]
           t == Settle(x)
           u == ReleaseUnreg(t)
<1>1. Moved(x, x, p)
  BY MovedSame
<1>2. Moved(x, r, p) /\ r.state = x.state /\ r.unreg = x.unreg
  BY PreReplied
<1>3. x.outstanding # "none" => Moved(x, o, p) /\ o.state = x.state
  BY Pauses
<1>4. Moved(x, t, p) /\ t.state = x.state
  BY Settles
<1>5. Moved(x, u, p) /\ u.state = x.state
  <2>1. Good(t, p)
    BY <1>4 DEF Moved
  <2> HIDE DEF t
  <2>2. Moved(t, u, p) /\ SameState(t, u)
    BY <2>1, ReleasesUnreg
  <2> QED
    BY <1>4, <2>2, MovedOn DEF SameState
<1>6. CASE code = "overloaded"
  <2>1. OnAppError(x, code) = IF x.closePreReply THEN r ELSE IF x.outstanding = "none" \/ x.overload.on # 0 THEN x ELSE o
    BY <1>6 DEF OnAppError, PreReplyDue
  <2> HIDE DEF r, o
  <2> QED
    BY <1>1, <1>2, <1>3, <2>1
<1>7. CASE code # "overloaded"
  <2> DEFINE y == IF PreReplyDue(x) THEN r
                  ELSE IF x.outstanding = "none" \/ x.overload.on # 0 THEN x
                  ELSE IF x.outstanding = "unregister" THEN u ELSE t
  <2>1. OnAppError(x, code) = IF code = "version" THEN Fatal(y) ELSE FlushQueuedRegister(y)
    BY <1>7 DEF OnAppError
  <2> HIDE DEF r, t, u
  <2>2. Moved(x, y, p) /\ y.state = x.state /\ (x.closePreReply => y.unreg = x.unreg)
    BY <1>1, <1>2, <1>4, <1>5 DEF PreReplyDue
  <2> HIDE DEF y
  <2>3. Good(y, p)
    BY <2>2 DEF Moved
  <2>4. Moved(y, Fatal(y), p) /\ Fatal(y).state = y.state /\ Fatal(y).unreg = y.unreg
    BY <2>3, Fatals DEF SameState
  <2>5. LET z == FlushQueuedRegister(y) IN Moved(y, z, p) /\ z.state = y.state /\ z.unreg = y.unreg
    BY <2>3, FlushesRegister
  <2>6. Moved(x, Fatal(y), p) /\ Moved(x, FlushQueuedRegister(y), p)
    BY <2>2, <2>4, <2>5, MovedOn
  <2> QED
    BY <2>1, <2>2, <2>4, <2>5, <2>6
<1> QED
  BY <1>6, <1>7

\* onUnregisteredLocked.
LEMMA Unregistereds ==
  ASSUME NEW p \in Pendings, NEW x, Good(x, p), Free(x, p)
  PROVE  LET y == OnUnregistered(x) IN Moved(x, y, p) /\ y.state = x.state
<1> DEFINE t == IF x.outstanding = "unregister" THEN Settle(x) ELSE x
<1>1. Moved(x, t, p) /\ t.state = x.state
  BY MovedSame, Settles
<1>2. OnUnregistered(x) = ReleaseUnreg(t)
  BY DEF OnUnregistered
<1> HIDE DEF t
<1>3. Good(t, p)
  BY <1>1 DEF Moved
<1>4. Moved(t, ReleaseUnreg(t), p) /\ SameState(t, ReleaseUnreg(t))
  BY <1>3, ReleasesUnreg
<1> QED
  BY <1>1, <1>2, <1>4, MovedOn DEF SameState

\* onDisableLocked.
LEMMA DisablesOn ==
  ASSUME NEW p, NEW x, Good(x, p), NEW known \in BOOLEAN
  PROVE  Moved(x, OnDisable(x, known), p)
<1>1. CASE Ending(x) \/ x.takenOver
  BY <1>1, MovedSame DEF OnDisable
<1>2. CASE ~(Ending(x) \/ x.takenOver) /\ known /\ x.hasServerID
  BY <1>2, Disables DEF OnDisable
<1>3. CASE ~(Ending(x) \/ x.takenOver) /\ ~(known /\ x.hasServerID)
  <2> DEFINE y == [x EXCEPT !.heldDisable = TRUE]
  <2>1. x \in SessionRec
    BY DEF Good
  <2>2. y \in SessionRec
    BY <2>1, ZenonT(60) DEF SessionRec
  <2>3. SameFrames(x, y) /\ y.outstanding = x.outstanding /\ y.overload = x.overload /\ y.state = x.state
    BY <2>1 DEF SessionRec, SameFrames
  <2>4. OnDisable(x, known) = y
    BY <1>3 DEF OnDisable
  <2> HIDE DEF y
  <2> QED
    BY <1>3, <2>2, <2>3, <2>4, Restates DEF Ending
<1> QED
  BY <1>1, <1>2, <1>3

\* onEnableLocked.
LEMMA EnablesOn ==
  ASSUME NEW p \in Pendings, NEW x, Good(x, p)
  PROVE  Moved(x, OnEnable(x), p)
<1>1. CASE Ending(x) \/ x.takenOver
  BY <1>1, MovedSame DEF OnEnable
<1>2. CASE ~(Ending(x) \/ x.takenOver)
  <2> DEFINE y == [x EXCEPT !.hasServerID = TRUE, !.heldDisable = FALSE, !.state = "registering"]
  <2>1. x \in SessionRec
    BY DEF Good
  <2>2. y \in SessionRec
    BY <2>1, ZenonT(60) DEF SessionRec, States
  <2>3. SameFrames(x, y) /\ y.outstanding = x.outstanding /\ y.overload = x.overload /\ y.state = "registering"
    BY <2>1 DEF SessionRec, SameFrames
  <2>4. OnEnable(x) = IF x.connected THEN Register(y) ELSE y
    BY <1>2 DEF OnEnable
  <2> HIDE DEF y
  <2>5. Moved(x, y, p)
    BY <1>2, <2>2, <2>3, Restates DEF Ending
  <2>6. ASSUME x.connected PROVE Moved(y, Register(y), p)
    BY <1>2, <2>5, <2>6, Registers DEF Moved
  <2> QED
    BY <2>4, <2>5, <2>6, MovedOn
<1> QED
  BY <1>1, <1>2

\* onConflictLocked.
LEMMA Conflicts ==
  ASSUME NEW p \in Pendings, NEW x, Good(x, p)
  PROVE  LET y == OnConflict(x) IN Kept(x, y, p) /\ (y.state = x.state \/ y.state = "conflict")
<1>1. CASE Ending(x) \/ x.takenOver
  BY <1>1 DEF OnConflict, Kept
<1>2. CASE ~(Ending(x) \/ x.takenOver)
  <2>1. "conflict" \in TakeOvers
    BY DEF TakeOvers
  <2>2. OnConflict(x) = TakeOver(x, "conflict")
    BY <1>2 DEF OnConflict
  <2> QED
    BY <1>2, <2>1, <2>2, TakesOver DEF Kept
<1> QED
  BY <1>1, <1>2

-----------------------------------------------------------------------------
(* Timers, connections and the close                                         *)

\* A timer has fired.
LEMMA Fires ==
  ASSUME NEW p, NEW x, Good(x, p)
  PROVE  /\ LET y == [x EXCEPT !.retry = NoTimer] IN
            /\ Moved(x, y, p) /\ y.state = x.state
         /\ LET y == [x EXCEPT !.overload = NoTimer] IN
            /\ Moved(x, y, p) /\ SameFrames(x, y) /\ SameState(x, y) /\ y.outstanding = x.outstanding
            /\ y.overload.on = 0 /\ (Free(x, p) => Free(y, p))
<1> DEFINE u == [x EXCEPT !.retry = NoTimer]
           v == [x EXCEPT !.overload = NoTimer]
<1>1. x \in SessionRec /\ (x.takenOver /\ ~Ending(x) => x.state = "conflict")
      /\ (x.outstanding = "none" => x.overload.on = 0)
  BY DEF Good, AccountInv
<1> SUFFICES /\ Moved(x, u, p) /\ u.state = x.state
             /\ Moved(x, v, p) /\ SameFrames(x, v) /\ SameState(x, v) /\ v.outstanding = x.outstanding
             /\ v.overload.on = 0 /\ (Free(x, p) => Free(v, p))
  OBVIOUS
<1>2. u \in SessionRec
  BY <1>1, NoTimerOff, ZenonT(60) DEF SessionRec
<1>3. v \in SessionRec
  BY <1>1, NoTimerOff, ZenonT(60) DEF SessionRec
<1>4. SameFrames(x, u) /\ SameState(x, u) /\ u.outstanding = x.outstanding /\ u.overload = x.overload
  BY <1>1 DEF SessionRec, SameFrames, SameState
<1>5. SameFrames(x, v) /\ SameState(x, v) /\ v.outstanding = x.outstanding /\ v.overload = NoTimer
  BY <1>1 DEF SessionRec, SameFrames, SameState
<1> HIDE DEF u, v
<1>6. Moved(x, u, p)
  BY <1>1, <1>2, <1>4, FieldStep DEF SameFrames, SameState, Ending
<1>7. Moved(x, v, p) /\ (Free(x, p) => Free(v, p))
  BY <1>1, <1>3, <1>5, NoTimerOff, FieldStep DEF SameFrames, SameState, Ending
<1> QED
  BY <1>4, <1>5, <1>6, <1>7, NoTimerOff DEF SameState

\* The retry's callback.
LEMMA Retries ==
  ASSUME NEW p \in Pendings, NEW x, Good(x, p), NEW c
  PROVE  Moved(x, RetryBody(x, c), p) /\ RetryBody(x, c).state = x.state
<1> DEFINE y == [x EXCEPT !.retry = NoTimer]
<1>1. Moved(x, y, p) /\ y.state = x.state
  BY Fires
<1>2. RetryBody(x, c) = IF MayRegister(x, c) THEN Register(y) ELSE y
  BY DEF RetryBody
<1> HIDE DEF y
<1>3. ASSUME MayRegister(x, c) PROVE Moved(y, Register(y), p) /\ Register(y).state = y.state
  BY <1>1, <1>3, Registers DEF Moved, MayRegister
<1> QED
  BY <1>1, <1>2, <1>3, MovedOn

\* The unregister is sent again.
LEMMA Resends ==
  ASSUME NEW p \in Pendings, NEW x, Good(x, p), x.connected, x.state = "closing"
  PROVE  LET y == Queue(x, [do |-> "resend", on |-> x.conn]) IN Moved(x, y, p) /\ y.state = x.state
<1> DEFINE item == [do |-> "resend", on |-> x.conn]
           q == Append(x.queue, item)
           y == [x EXCEPT !.queue = q]
<1>1. x \in SessionRec /\ AccountInv(x, p) /\ x.conn # 0 /\ Ending(x)
  BY DEF Good, AccountInv, Ending
<1>2. item \in Items /\ item.do = "resend" /\ item.on = x.conn
  BY <1>1, Fields DEF Items, Sends, Unregisters
<1>3. Queue(x, [do |-> "resend", on |-> x.conn]) = y
  BY DEF Queue
<1> HIDE DEF item
<1>4. q \in Seq(Items)
  BY <1>1, <1>2, Fields, QueueAppend
<1>5. y \in SessionRec
  <2> HIDE DEF q
  <2> QED
    BY <1>1, <1>4, ZenonT(60) DEF SessionRec
<1>6. /\ y.queue = q /\ y.conn = x.conn /\ y.takenOver = x.takenOver /\ y.connected = x.connected
      /\ y.sentRegister = x.sentRegister /\ SameState(x, y) /\ y.outstanding = x.outstanding
      /\ y.overload = x.overload /\ y.unreg = x.unreg
  BY <1>1 DEF SessionRec, SameState
<1> HIDE DEF y
<1>7. Free(x, p) => Free(y, p)
  BY <1>1, <1>2, <1>6, FreeStill
<1>8. Ending(y) /\ y.state = x.state /\ y.closePreReply = x.closePreReply
  BY <1>6 DEF Ending, SameState
<1>9. AccountInv(y, p)
  BY <1>1, <1>6, <1>7, <1>8 DEF AccountInv
<1>10. Good(y, p) /\ (HasReplaced(y) => HasReplaced(x))
  BY <1>1, <1>2, <1>5, <1>6, <1>8, <1>9, Queues DEF TakeOvers
<1> QED
  BY <1>1, <1>3, <1>6, <1>8, <1>10 DEF Moved

\* The OVERLOADED callback.
LEMMA Repeats ==
  ASSUME NEW p \in Pendings, NEW x, Good(x, p), x.overload.on # 0, NEW c, NEW op
  PROVE  Moved(x, OverloadBody(x, c, op), p) /\ OverloadBody(x, c, op).state = x.state
<1> DEFINE y == [x EXCEPT !.overload = NoTimer]
           v == [y EXCEPT !.registerQueued = FALSE]
<1>1. /\ Moved(x, y, p) /\ SameState(x, y) /\ y.outstanding = x.outstanding
      /\ y.overload.on = 0 /\ (Free(x, p) => Free(y, p))
  BY Fires
<1>2. OverloadBody(x, c, op) =
        IF ~x.connected \/ x.conn # c \/ x.outstanding # op THEN y
        ELSE IF op = "register" /\ MayRegister(x, c) THEN SendRegister(v)
        ELSE IF op = "unregister" /\ x.state = "closing" THEN Queue(y, [do |-> "resend", on |-> c])
        ELSE y
  BY DEF OverloadBody
<1>3. Good(y, p) /\ y.conn = x.conn /\ y.connected = x.connected /\ y.state = x.state
  BY <1>1 DEF Moved, SameState
<1> HIDE DEF y
<1>4. /\ Moved(y, v, p) /\ v.state = y.state /\ v.overload = y.overload /\ (Free(y, p) => Free(v, p))
  BY <1>3, Unqueues
<1> HIDE DEF v
<1>5. ASSUME x.connected, x.conn = c, x.state = "closing"
      PROVE  LET z == Queue(y, [do |-> "resend", on |-> c]) IN Moved(y, z, p) /\ z.state = y.state
  BY <1>3, <1>5, Resends
<1>6. ASSUME MayRegister(x, c), x.connected PROVE Moved(v, SendRegister(v), p) /\ SendRegister(v).state = v.state
  <2>1. ~Ending(x) /\ ~x.takenOver
    BY <1>6 DEF MayRegister
  <2>2. Free(x, p)
    BY <1>6, <2>1 DEF Good, AccountInv
  <2>3. Good(v, p) /\ Free(v, p) /\ v.connected /\ ~v.takenOver /\ ~Ending(v) /\ v.overload.on = 0
    BY <1>1, <1>4, <1>6, <2>1, <2>2 DEF Moved
  <2> QED
    BY <2>3, SendsRegister
<1>7. Moved(x, v, p) /\ v.state = x.state
  BY <1>1, <1>3, <1>4, MovedOn
<1> DEFINE z == Queue(y, [do |-> "resend", on |-> c])
<1>8. CASE ~x.connected \/ x.conn # c \/ x.outstanding # op
  BY <1>1, <1>2, <1>3, <1>8
<1>9. CASE ~(~x.connected \/ x.conn # c \/ x.outstanding # op) /\ op = "register" /\ MayRegister(x, c)
  <2>1. OverloadBody(x, c, op) = SendRegister(v)
    BY <1>2, <1>9
  <2> QED
    BY <1>6, <1>7, <1>9, <2>1, MovedOn
<1>10. CASE /\ ~(~x.connected \/ x.conn # c \/ x.outstanding # op) /\ ~(op = "register" /\ MayRegister(x, c))
            /\ op = "unregister" /\ x.state = "closing"
  <2>1. OverloadBody(x, c, op) = z
    BY <1>2, <1>10
  <2>2. Moved(y, z, p) /\ z.state = y.state
    BY <1>5, <1>10
  <2> HIDE DEF z
  <2> QED
    BY <1>1, <1>3, <2>1, <2>2, MovedOn
<1>11. CASE /\ ~(~x.connected \/ x.conn # c \/ x.outstanding # op) /\ ~(op = "register" /\ MayRegister(x, c))
            /\ ~(op = "unregister" /\ x.state = "closing")
  BY <1>1, <1>2, <1>3, <1>11
<1> QED
  BY <1>8, <1>9, <1>10, <1>11

\* What a welcome and the end of a connection reset.
LEMMA AfreshDoes ==
  ASSUME NEW x \in SessionRec
  PROVE  LET y == Afresh(x) IN
         /\ y \in SessionRec /\ y.queue = x.queue /\ y.conn = x.conn /\ y.takenOver = x.takenOver
         /\ y.state = x.state /\ y.unreg = x.unreg /\ ~y.sentRegister /\ y.outstanding = "none" /\ y.overload.on = 0
<1> DEFINE u == [x EXCEPT !.sentRegister = FALSE, !.outstanding = "none", !.registerQueued = FALSE, !.heldDisable = FALSE]
<1>1. u \in SessionRec
  BY ZenonT(60) DEF SessionRec
<1>2. /\ u.queue = x.queue /\ u.conn = x.conn /\ u.takenOver = x.takenOver /\ u.state = x.state /\ u.unreg = x.unreg
      /\ ~u.sentRegister /\ u.outstanding = "none"
  BY DEF SessionRec
<1>3. Afresh(x) = CancelTimers(u)
  BY DEF Afresh
<1> HIDE DEF u
<1> QED
  BY <1>1, <1>2, <1>3, CancelDoes DEF SameFrames, SameState

\* onWelcome, for a connection later than those before.
LEMMA Welcomes ==
  ASSUME NEW p \in Pendings, NEW x, Good(x, p), ~Ending(x), NEW c \in Conns, x.conn < c
  PROVE  LET y == WelcomeOn(x, c) IN
         Good(y, p) /\ y.conn = c /\ ~Ending(y) /\ (HasReplaced(y) => HasReplaced(x))
<1> DEFINE t == Afresh(x)
           u == [t EXCEPT !.conn = c, !.connected = TRUE]
           v == [u EXCEPT !.state = "registering"]
<1>1. /\ x \in SessionRec /\ FrameInv(x, p) /\ TakeInv(x) /\ x.unreg = 0
      /\ (x.takenOver => x.state = "conflict") /\ x.conn \in 0 .. NConns
  BY Fields DEF Good, AccountInv, Ending
<1>2. /\ t \in SessionRec /\ t.queue = x.queue /\ t.takenOver = x.takenOver
      /\ t.state = x.state /\ t.unreg = x.unreg /\ ~t.sentRegister /\ t.outstanding = "none" /\ t.overload.on = 0
  BY <1>1, AfreshDoes
<1>3. WelcomeOn(x, c) = IF x.takenOver THEN u ELSE SendRegister(v)
  BY DEF WelcomeOn
<1>4. c \in 0 .. NConns /\ c # 0 /\ \A d \in 1 .. x.conn : d \in 1 .. c /\ d # c
  BY <1>1, SessionAssumption DEF Conns
<1> HIDE DEF t
<1>5. u \in SessionRec
  BY <1>2, <1>4, ZenonT(60) DEF SessionRec
<1>6. /\ u.queue = x.queue /\ u.conn = c /\ u.connected /\ u.takenOver = x.takenOver /\ u.state = x.state
      /\ u.unreg = 0 /\ ~u.sentRegister /\ u.outstanding = "none" /\ u.overload.on = 0
  BY <1>1, <1>2 DEF SessionRec
<1> HIDE DEF u
<1>7. ~Ending(u)
  BY <1>6 DEF Ending
<1>8. FrameInv(u, p)
  <2>1. \A i \in 1 .. Len(u.queue) : u.queue[i].do \in Sends => u.queue[i].on \in 1 .. u.conn
    BY <1>1, <1>4, <1>6 DEF FrameInv
  <2>2. \A d \in Conns : p[d] # << >> => d <= u.conn
    <3>1. \A d \in Conns : p[d] # << >> => d <= x.conn
      BY <1>1 DEF FrameInv
    <3> QED
      BY <1>1, <1>6, <3>1, SessionAssumption DEF Conns
  <2> QED
    BY <1>1, <1>6, <2>1, <2>2 DEF FrameInv
<1>9. Free(u, p)
  <2>1. p[c] = << >>
    <3>1. p[c] # << >> => c <= x.conn
      BY <1>1 DEF FrameInv
    <3> QED
      BY <1>1, <3>1, SessionAssumption DEF Conns
  <2>2. \A i \in 1 .. Len(x.queue) : x.queue[i].do = "register" => x.queue[i].on \in 1 .. x.conn
    BY <1>1 DEF FrameInv, Sends
  <2>3. \A i \in 1 .. Len(u.queue) : ~(u.queue[i].do = "register" /\ u.queue[i].on = u.conn)
    BY <1>4, <1>6, <2>2
  <2>4. 1 .. Len(p[c]) = {}
    BY <2>1
  <2> QED
    BY <1>6, <2>3, <2>4 DEF Free
<1>10. AccountInv(u, p)
  BY <1>1, <1>4, <1>6, <1>7, <1>9 DEF AccountInv
<1>11. TakeInv(u)
  BY <1>1, <1>6 DEF TakeInv
<1>12. Good(u, p) /\ (HasReplaced(u) => HasReplaced(x))
  BY <1>5, <1>6, <1>8, <1>10, <1>11 DEF Good, HasReplaced
<1>13. CASE x.takenOver
  BY <1>3, <1>6, <1>7, <1>12, <1>13
<1>14. CASE ~x.takenOver
  <2>1. v \in SessionRec
    BY <1>5, ZenonT(60) DEF SessionRec, States
  <2>2. SameFrames(u, v) /\ v.outstanding = u.outstanding /\ v.overload = u.overload /\ v.state = "registering"
    BY <1>5 DEF SessionRec, SameFrames
  <2> HIDE DEF v
  <2>3. Moved(u, v, p) /\ Free(v, p)
    BY <1>6, <1>7, <1>9, <1>12, <1>14, <2>1, <2>2, Restates DEF Ending
  <2>4. Good(v, p) /\ v.connected /\ ~v.takenOver /\ ~Ending(v) /\ v.overload.on = 0
    BY <1>6, <1>7, <1>14, <2>2, <2>3 DEF Moved
  <2>5. Moved(v, SendRegister(v), p)
    BY <2>3, <2>4, SendsRegister
  <2>6. Moved(u, SendRegister(v), p)
    BY <2>3, <2>5, MovedOn
  <2> QED
    BY <1>3, <1>6, <1>7, <1>12, <1>14, <2>6 DEF Moved
<1> QED
  BY <1>13, <1>14

\* onConnEnd: the wait for an unregister on it ends, and the session starts afresh unless the
\* connection is superseded or the session closes.
LEMMA ConnEndsOn ==
  ASSUME NEW p \in Pendings, NEW x, Good(x, p), NEW c
  PROVE  LET y == ConnEndOn(x, c) IN
         /\ Kept(x, y, p) /\ (Ending(y) => Ending(x))
         /\ y.state \in {x.state, "connecting"}
         /\ ~Superseded(c) => y.state \notin {"registering", "registered"}
<1> DEFINE t == IF x.unreg = c THEN ReleaseUnreg(x) ELSE x
           f == Afresh(t)
           n == IF x.takenOver THEN f.state ELSE "connecting"
           y == [f EXCEPT !.connected = FALSE, !.state = n]
<1>1. Moved(x, t, p) /\ t.state = x.state
  BY ReleasesUnreg, MovedSame DEF SameState
<1>2. ConnEndOn(x, c) = IF Superseded(c) \/ Ending(x) THEN t ELSE y
  BY DEF ConnEndOn
<1>3. Good(t, p) /\ t \in SessionRec /\ t.conn = x.conn /\ t.takenOver = x.takenOver /\ (Ending(t) <=> Ending(x))
      /\ (HasReplaced(t) => HasReplaced(x))
  BY <1>1 DEF Moved, Good
<1> HIDE DEF t
<1>4. CASE Superseded(c) \/ Ending(x)
  BY <1>1, <1>2, <1>3, <1>4 DEF Kept, Ending
<1>5. CASE ~(Superseded(c) \/ Ending(x))
  <2>1. /\ f \in SessionRec /\ f.queue = t.queue /\ f.conn = t.conn /\ f.takenOver = t.takenOver
        /\ f.state = t.state /\ f.unreg = t.unreg /\ ~f.sentRegister /\ f.outstanding = "none" /\ f.overload.on = 0
    BY <1>3, AfreshDoes
  <2>2. t.unreg = 0 /\ (t.takenOver => t.state = "conflict")
    BY <1>3, <1>5 DEF Good, AccountInv, Ending
  <2> HIDE DEF f
  <2>3. n \in States /\ n \in {"conflict", "connecting"}
    BY <1>3, <2>1, <2>2 DEF States
  <2> HIDE DEF n
  <2>4. y \in SessionRec
    BY <2>1, <2>3, ZenonT(60) DEF SessionRec
  <2>5. /\ y.queue = f.queue /\ y.conn = f.conn /\ y.takenOver = f.takenOver /\ y.state = n /\ ~y.connected
        /\ y.unreg = f.unreg /\ ~y.sentRegister /\ y.outstanding = "none" /\ y.overload.on = 0
    BY <2>1 DEF SessionRec
  <2>6. ConnEndOn(x, c) = y
    BY <1>2, <1>5
  <2>7. y.takenOver => y.state = "conflict" /\ y.state = x.state
    BY <1>1, <1>3, <2>1, <2>2, <2>5 DEF n
  <2>8. ~y.takenOver => y.state = "connecting"
    BY <1>3, <2>1, <2>5 DEF n
  <2>9. y.takenOver \in BOOLEAN
    BY <2>4, Fields
  <2> HIDE DEF y
  <2>10. AccountInv(y, p)
    BY <2>1, <2>2, <2>5, <2>7 DEF AccountInv
  <2>11. ~Ending(y)
    BY <2>3, <2>5 DEF Ending
  <2>12. Good(y, p) /\ (HasReplaced(y) => HasReplaced(t))
    BY <1>3, <1>5, <2>1, <2>4, <2>5, <2>10, Keeps
  <2>13. Kept(x, y, p) /\ (Ending(y) => Ending(x))
    BY <1>3, <1>5, <2>1, <2>5, <2>11, <2>12 DEF Kept
  <2>14. y.state \in {x.state, "connecting"} /\ y.state \notin {"registering", "registered"}
    BY <2>7, <2>8, <2>9
  <2> QED
    BY <2>6, <2>13, <2>14
<1> QED
  BY <1>4, <1>5

\* The close begins: the unregister goes behind a register in flight.
LEMMA Begins ==
  ASSUME NEW p \in Pendings, NEW x, Good(x, p)
  PROVE  Kept(x, BeginCloseAsync(x), p) /\ Ending(BeginCloseAsync(x))
<1>0. x \in SessionRec /\ AccountInv(x, p) /\ x.conn \in 0 .. NConns /\ 0 \in 0 .. NConns
  BY Fields, SessionAssumption DEF Good
<1> DEFINE done == [do |-> "done", on |-> 0]
           b == x.outstanding = "register" /\ x.overload.on = 0
           t == CancelTimers(x)
           u == [t EXCEPT !.state = "closing", !.closePreReply = b]
           w == [u EXCEPT !.unreg = x.conn, !.outstanding = "unregister"]
           sends == [do |-> "unregister", on |-> x.conn]
<1>1. done \in Items /\ done.do = "done" /\ sends \in Items /\ sends.do = "unregister" /\ sends.on = x.conn
  BY <1>0 DEF Items, Sends, Unregisters
<1>2. BeginCloseAsync(x) = IF Ending(x) THEN Queue(x, done) ELSE IF ~(x.connected /\ x.sentRegister) THEN Queue(u, done)
                 ELSE Queue(w, sends)
  BY DEF BeginCloseAsync
<1>3. t \in SessionRec /\ SameFrames(x, t) /\ t.outstanding = x.outstanding /\ t.overload.on = 0
  BY <1>0, CancelDoes
<1>4. b \in BOOLEAN
  OBVIOUS
<1>5. ~b /\ x.connected /\ x.sentRegister /\ ~Ending(x) => Free(x, p)
  BY <1>0 DEF AccountInv
<1>6. ~Ending(x) => x.unreg = 0
  BY <1>0 DEF AccountInv, Ending
<1> HIDE DEF done, sends, t, b
<1>7. u \in SessionRec
  BY <1>3, <1>4, ZenonT(60) DEF SessionRec, States
<1>8. SameFrames(t, u) /\ u.state = "closing" /\ u.closePreReply = b /\ u.outstanding = t.outstanding /\ u.overload = t.overload
  BY <1>3 DEF SessionRec, SameFrames
<1> HIDE DEF u
<1>9. w \in SessionRec
  BY <1>0, <1>7, ZenonT(60) DEF SessionRec, Frames
<1>10. /\ w.queue = u.queue /\ w.conn = u.conn /\ w.takenOver = u.takenOver /\ w.connected = u.connected
       /\ w.sentRegister = u.sentRegister /\ w.unreg = x.conn /\ w.outstanding = "unregister" /\ w.state = u.state
       /\ w.closePreReply = u.closePreReply /\ w.overload = u.overload
  BY <1>7 DEF SessionRec
<1> HIDE DEF w
<1>11. ASSUME NEW z \in SessionRec, NEW item \in Items
       PROVE  LET y == Queue(z, item) IN
              /\ y \in SessionRec /\ y.queue = Append(z.queue, item) /\ y.conn = z.conn /\ y.takenOver = z.takenOver
              /\ y.connected = z.connected /\ y.sentRegister = z.sentRegister /\ SameState(z, y)
              /\ y.outstanding = z.outstanding /\ y.overload = z.overload /\ y.unreg = z.unreg
  <2> DEFINE q == Append(z.queue, item)
             y == [z EXCEPT !.queue = q]
  <2>1. q \in Seq(Items)
    BY <1>11, Fields, QueueAppend
  <2>2. y \in SessionRec
    <3> HIDE DEF q
    <3> QED
      BY <1>11, <2>1, ZenonT(60) DEF SessionRec
  <2>3. /\ y.queue = q /\ y.conn = z.conn /\ y.takenOver = z.takenOver
        /\ y.connected = z.connected /\ y.sentRegister = z.sentRegister /\ SameState(z, y)
        /\ y.outstanding = z.outstanding /\ y.overload = z.overload /\ y.unreg = z.unreg
    BY <1>11 DEF SessionRec, SameState
  <2> QED
    BY <2>2, <2>3 DEF Queue
<1>12. CASE Ending(x)
  <2> DEFINE y == Queue(x, done)
  <2>1. /\ y \in SessionRec /\ y.queue = Append(x.queue, done) /\ y.conn = x.conn /\ y.takenOver = x.takenOver
        /\ y.connected = x.connected /\ y.sentRegister = x.sentRegister /\ SameState(x, y)
        /\ y.outstanding = x.outstanding /\ y.overload = x.overload /\ y.unreg = x.unreg
    BY <1>0, <1>1, <1>11
  <2>2. BeginCloseAsync(x) = y
    BY <1>2, <1>12
  <2> HIDE DEF y
  <2>3. Moved(x, y, p)
    BY <1>1, <2>1, QueuesEvent
  <2> QED
    BY <1>12, <2>2, <2>3 DEF Moved, Kept
<1>13. CASE ~Ending(x) /\ ~(x.connected /\ x.sentRegister)
  <2> DEFINE y == Queue(u, done)
  <2>1. /\ y \in SessionRec /\ y.queue = Append(u.queue, done) /\ y.conn = u.conn /\ y.takenOver = u.takenOver
        /\ y.connected = u.connected /\ y.sentRegister = u.sentRegister /\ SameState(u, y)
        /\ y.outstanding = u.outstanding /\ y.overload = u.overload /\ y.unreg = u.unreg
    BY <1>1, <1>7, <1>11
  <2>2. BeginCloseAsync(x) = y
    BY <1>2, <1>13
  <2> HIDE DEF y
  <2>3. /\ y.queue = Append(x.queue, done) /\ y.conn = x.conn /\ y.takenOver = x.takenOver
        /\ y.connected = x.connected /\ y.sentRegister = x.sentRegister /\ y.state = "closing"
        /\ y.overload.on = 0 /\ y.unreg = 0
    BY <1>3, <1>6, <1>8, <1>13, <2>1 DEF SameFrames, SameState
  <2>4. Ending(y)
    BY <2>3 DEF Ending
  <2>5. AccountInv(y, p)
    BY <1>0, <2>3, <2>4 DEF AccountInv
  <2>6. Good(y, p) /\ (HasReplaced(y) => HasReplaced(x))
    BY <1>1, <1>13, <2>1, <2>3, <2>4, <2>5, Queues DEF Sends, Unregisters, TakeOvers
  <2> QED
    BY <2>2, <2>3, <2>4, <2>6 DEF Kept
<1>14. CASE ~Ending(x) /\ x.connected /\ x.sentRegister
  <2> DEFINE y == Queue(w, sends)
  <2>1. /\ y \in SessionRec /\ y.queue = Append(w.queue, sends) /\ y.conn = w.conn /\ y.takenOver = w.takenOver
        /\ y.connected = w.connected /\ y.sentRegister = w.sentRegister /\ SameState(w, y)
        /\ y.outstanding = w.outstanding /\ y.overload = w.overload /\ y.unreg = w.unreg
    BY <1>1, <1>9, <1>11
  <2>2. BeginCloseAsync(x) = y
    BY <1>2, <1>14
  <2> HIDE DEF y
  <2>3. /\ y.queue = Append(x.queue, sends) /\ y.conn = x.conn /\ y.takenOver = x.takenOver
        /\ y.connected = x.connected /\ y.sentRegister = x.sentRegister /\ y.state = "closing"
        /\ y.closePreReply = b /\ y.outstanding = "unregister" /\ y.unreg = x.conn
    BY <1>3, <1>8, <1>10, <2>1 DEF SameFrames, SameState
  <2>4. Ending(y) /\ x.conn # 0 /\ ~x.takenOver
    BY <1>0, <1>14, <2>3 DEF Ending, AccountInv
  <2>5. y.closePreReply \/ Free(y, p)
    BY <1>0, <1>1, <1>5, <1>14, <2>3, FreeStill
  <2>6. AccountInv(y, p)
    BY <1>0, <2>3, <2>4, <2>5 DEF AccountInv
  <2>7. Good(y, p) /\ (HasReplaced(y) => HasReplaced(x))
    BY <1>1, <1>14, <2>1, <2>3, <2>4, <2>6, Queues DEF TakeOvers
  <2> QED
    BY <2>2, <2>3, <2>4, <2>7 DEF Kept
<1> QED
  BY <1>12, <1>13, <1>14

-----------------------------------------------------------------------------
(* Frames on their way                                                       *)

\* Every connection of q has some of the frames that it has in p, and a register first.
Shorter(p, q) ==
  \A c \in Conns :
    /\ p[c] = << >> => q[c] = << >>
    /\ (\A i \in 1 .. Len(p[c]) : p[c][i] = "register") => \A i \in 1 .. Len(q[c]) : q[c][i] = "register"
    /\ \A i \in 1 .. Len(q[c]) : q[c][i] = "register" => i = 1 /\ \E j \in 1 .. Len(p[c]) : p[c][j] = "register"

\* The account of the frames is kept when no register appears.
LEMMA AccountKept ==
  ASSUME NEW p, NEW q, NEW x, AccountInv(x, p), NEW y, y.conn = x.conn, y.takenOver = x.takenOver,
         y.connected = x.connected, y.sentRegister = x.sentRegister, SameState(x, y), y.outstanding = x.outstanding,
         y.overload = x.overload, y.unreg = x.unreg, x.conn # 0 /\ Free(x, p) => Free(y, q)
  PROVE  AccountInv(y, q)
<1>1. (Ending(y) <=> Ending(x)) /\ y.state = x.state /\ y.closePreReply = x.closePreReply
  BY DEF Ending, SameState
<1> QED
  BY <1>1 DEF AccountInv

\* Frames were answered or lost.
LEMMA FewerFrames ==
  ASSUME NEW p \in Pendings, NEW q \in Pendings, NEW x, Good(x, p), Shorter(p, q)
  PROVE  Good(x, q)
<1>1. x \in SessionRec /\ FrameInv(x, p) /\ AccountInv(x, p) /\ TakeInv(x) /\ x.conn \in 0 .. NConns
  BY Fields DEF Good
<1>2. FrameInv(x, q)
  <2>1. \A i \in 1 .. Len(x.queue) : x.queue[i].do \in Sends => x.queue[i].on \in 1 .. x.conn
    BY <1>1 DEF FrameInv
  <2>2. \A c \in Conns : q[c] # << >> => c <= x.conn
    BY <1>1 DEF FrameInv, Shorter
  <2>3. ~Ending(x) => /\ \A i \in 1 .. Len(x.queue) : x.queue[i].do \notin Unregisters
                      /\ \A c \in Conns : \A i \in 1 .. Len(q[c]) : q[c][i] = "register"
    BY <1>1 DEF FrameInv, Shorter
  <2>4. \A i, j \in 1 .. Len(x.queue) :
          x.queue[i].do = "register" => /\ x.queue[j].do \in Unregisters => i < j
                                        /\ x.queue[j].do = "register" /\ x.queue[j].on = x.queue[i].on => i = j
    BY <1>1 DEF FrameInv
  <2>5. ASSUME NEW i \in 1 .. Len(x.queue), x.queue[i].do = "register" PROVE q[x.queue[i].on] = << >>
    <3>1. x.queue[i].on \in 1 .. x.conn
      BY <2>1, <2>5 DEF Sends
    <3>2. x.queue[i].on \in Conns
      BY <1>1, <3>1, SessionAssumption DEF Conns
    <3>3. p[x.queue[i].on] = << >>
      BY <1>1, <2>5 DEF FrameInv
    <3> QED
      BY <3>2, <3>3 DEF Shorter
  <2>6. \A c \in Conns : \A i \in 1 .. Len(q[c]) : q[c][i] = "register" => i = 1
    BY DEF Shorter
  <2> QED
    BY <2>1, <2>2, <2>3, <2>4, <2>5, <2>6 DEF FrameInv
<1>3. x.conn # 0 /\ Free(x, p) => Free(x, q)
  <2>1. x.conn # 0 => x.conn \in Conns
    BY <1>1, SessionAssumption DEF Conns
  <2> QED
    BY <2>1 DEF Free, Shorter
<1>4. AccountInv(x, q)
  BY <1>1, <1>3, AccountKept DEF SameState
<1> QED
  BY <1>1, <1>2, <1>4 DEF Good

\* The first frame of a connection is answered: no register is in flight on it any more.
LEMMA Pops ==
  ASSUME NEW p \in Pendings, NEW x, Good(x, p), NEW c \in Conns, p[c] # << >>
  PROVE  LET q == [p EXCEPT ![c] = Tail(@)] IN
         /\ q \in Pendings /\ Good(x, q) /\ (c = x.conn => Free(x, q))
         /\ c = x.conn /\ Head(p[c]) = "register" => ~Free(x, p)
<1> DEFINE q == [p EXCEPT ![c] = Tail(@)]
<1>1. x \in SessionRec /\ FrameInv(x, p)
  BY DEF Good
<1>2. p[c] \in Seq(Frames) /\ Len(p[c]) \in Nat /\ 1 \in 1 .. Len(p[c]) /\ Head(p[c]) = p[c][1]
  BY DEF Pendings
<1>3. /\ Tail(p[c]) \in Seq(Frames) /\ Len(Tail(p[c])) \in Nat
      /\ \A i \in 1 .. Len(Tail(p[c])) : i + 1 \in 1 .. Len(p[c]) /\ Tail(p[c])[i] = p[c][i + 1] /\ i + 1 # 1
  BY <1>2
<1>4. q \in Pendings /\ q[c] = Tail(p[c]) /\ \A d \in Conns : d # c => q[d] = p[d]
  BY <1>3 DEF Pendings
<1> SUFFICES /\ Good(x, q) /\ (c = x.conn => Free(x, q))
             /\ c = x.conn /\ Head(p[c]) = "register" => ~Free(x, p)
  BY <1>4
<1> HIDE DEF q
<1>5. \A d \in Conns : \A i \in 1 .. Len(p[d]) : p[d][i] = "register" => i = 1
  BY <1>1 DEF FrameInv
<1>6. \A i \in 1 .. Len(q[c]) : q[c][i] # "register"
  BY <1>3, <1>4, <1>5
<1>7. Shorter(p, q)
  <2> SUFFICES ASSUME NEW d \in Conns
      PROVE  /\ p[d] = << >> => q[d] = << >>
             /\ (\A i \in 1 .. Len(p[d]) : p[d][i] = "register") => \A i \in 1 .. Len(q[d]) : q[d][i] = "register"
             /\ \A i \in 1 .. Len(q[d]) : q[d][i] = "register" => i = 1 /\ \E j \in 1 .. Len(p[d]) : p[d][j] = "register"
    BY DEF Shorter
  <2>1. CASE d = c
    BY <1>3, <1>4, <1>6, <2>1
  <2>2. CASE d # c
    BY <1>4, <1>5, <2>2
  <2> QED
    BY <2>1, <2>2
<1>8. Good(x, q)
  BY <1>4, <1>7, FewerFrames
<1>9. c = x.conn => Free(x, q)
  <2>1. \A i \in 1 .. Len(x.queue) : x.queue[i].do = "register" => x.queue[i].on # c
    BY <1>1 DEF FrameInv
  <2> QED
    BY <1>6, <2>1 DEF Free
<1>10. c = x.conn /\ Head(p[c]) = "register" => ~Free(x, p)
  BY <1>2 DEF Free
<1> QED
  BY <1>8, <1>9, <1>10

\* The last frames of a connection that ended are lost.
LEMMA Cuts ==
  ASSUME NEW p \in Pendings, NEW x, Good(x, p), NEW c \in Conns, NEW n \in 0 .. Len(p[c])
  PROVE  LET q == [p EXCEPT ![c] = SubSeq(@, 1, n)] IN q \in Pendings /\ Good(x, q)
<1> DEFINE q == [p EXCEPT ![c] = SubSeq(@, 1, n)]
<1>1. x \in SessionRec /\ FrameInv(x, p)
  BY DEF Good
<1>2. p[c] \in Seq(Frames) /\ Len(p[c]) \in Nat
  BY DEF Pendings
<1>3. /\ SubSeq(p[c], 1, n) \in Seq(Frames) /\ Len(SubSeq(p[c], 1, n)) = n
      /\ \A i \in 1 .. n : i \in 1 .. Len(p[c]) /\ SubSeq(p[c], 1, n)[i] = p[c][i]
  BY <1>2
<1>4. q \in Pendings /\ q[c] = SubSeq(p[c], 1, n) /\ \A d \in Conns : d # c => q[d] = p[d]
  BY <1>3 DEF Pendings
<1> SUFFICES Good(x, q)
  BY <1>4
<1> HIDE DEF q
<1>5. \A d \in Conns : \A i \in 1 .. Len(p[d]) : p[d][i] = "register" => i = 1
  BY <1>1 DEF FrameInv
<1>6. Shorter(p, q)
  <2> SUFFICES ASSUME NEW d \in Conns
      PROVE  /\ p[d] = << >> => q[d] = << >>
             /\ (\A i \in 1 .. Len(p[d]) : p[d][i] = "register") => \A i \in 1 .. Len(q[d]) : q[d][i] = "register"
             /\ \A i \in 1 .. Len(q[d]) : q[d][i] = "register" => i = 1 /\ \E j \in 1 .. Len(p[d]) : p[d][j] = "register"
    BY DEF Shorter
  <2>1. CASE d = c
    <3>1. p[c] = << >> => q[c] = << >>
      BY <1>2, <1>3, <1>4
    <3>2. Len(q[c]) = n /\ \A i \in 1 .. n : i \in 1 .. Len(p[c]) /\ q[c][i] = p[c][i]
      BY <1>3, <1>4
    <3> QED
      BY <1>5, <2>1, <3>1, <3>2
  <2>2. CASE d # c
    BY <1>4, <1>5, <2>2
  <2> QED
    BY <2>1, <2>2
<1> QED
  BY <1>4, <1>6, FewerFrames

\* The first item leaves the queue.
LEMMA Shifts ==
  ASSUME NEW p, NEW x, Good(x, p), x.queue # << >>
  PROVE  LET y == [x EXCEPT !.queue = Tail(@)] IN
         /\ Moved(x, y, p) /\ SameState(x, y) /\ y.unreg = x.unreg
         /\ y.sentRegister = x.sentRegister /\ y.outstanding = x.outstanding /\ y.overload = x.overload
         /\ y.queue = Tail(x.queue) /\ (Head(x.queue).do \in TakeOvers => ~HasReplaced(y))
<1> DEFINE r == Tail(x.queue)
           y == [x EXCEPT !.queue = r]
<1>1. x \in SessionRec /\ FrameInv(x, p) /\ TakeInv(x) /\ AccountInv(x, p) /\ x.queue \in Seq(Items)
  BY Fields DEF Good
<1>2. /\ r \in Seq(Items) /\ Len(x.queue) \in Nat /\ 1 \in 1 .. Len(x.queue) /\ Head(x.queue) = x.queue[1]
      /\ \A i \in 1 .. Len(r) : i + 1 \in 1 .. Len(x.queue) /\ r[i] = x.queue[i + 1] /\ i + 1 # 1
      /\ \A i, j \in 1 .. Len(r) : (i + 1 = j + 1 => i = j) /\ (i + 1 < j + 1 => i < j)
  BY <1>1
<1> SUFFICES /\ Moved(x, y, p) /\ SameState(x, y) /\ y.unreg = x.unreg
             /\ y.sentRegister = x.sentRegister /\ y.outstanding = x.outstanding /\ y.overload = x.overload
             /\ y.queue = r /\ (Head(x.queue).do \in TakeOvers => ~HasReplaced(y))
  OBVIOUS
<1> HIDE DEF r
<1>3. y \in SessionRec
  BY <1>1, <1>2, ZenonT(60) DEF SessionRec
<1>4. /\ y.queue = r /\ y.conn = x.conn /\ y.takenOver = x.takenOver /\ y.connected = x.connected
      /\ y.sentRegister = x.sentRegister /\ SameState(x, y) /\ y.outstanding = x.outstanding
      /\ y.overload = x.overload /\ y.unreg = x.unreg
  BY <1>1 DEF SessionRec, SameState
<1> HIDE DEF y
<1>5. \A i \in 1 .. Len(y.queue) : \E k \in 1 .. Len(x.queue) : y.queue[i] = x.queue[k]
  BY <1>2, <1>4
<1>6. Ending(y) <=> Ending(x)
  BY <1>4 DEF Ending, SameState
<1>7. Free(x, p) => Free(y, p)
  BY <1>2, <1>4 DEF Free
<1>8. AccountInv(y, p)
  BY <1>1, <1>4, <1>7, AccountKept
<1>9. FrameInv(y, p)
  <2>1. \A i \in 1 .. Len(y.queue) : y.queue[i].do \in Sends => y.queue[i].on \in 1 .. y.conn
    BY <1>1, <1>2, <1>4 DEF FrameInv
  <2>2. \A c \in Conns : p[c] # << >> => c <= y.conn
    BY <1>1, <1>4 DEF FrameInv
  <2>3. ~Ending(y) => /\ \A i \in 1 .. Len(y.queue) : y.queue[i].do \notin Unregisters
                      /\ \A c \in Conns : \A i \in 1 .. Len(p[c]) : p[c][i] = "register"
    BY <1>1, <1>2, <1>4, <1>6 DEF FrameInv
  <2>4. ASSUME NEW i \in 1 .. Len(y.queue), NEW j \in 1 .. Len(y.queue), y.queue[i].do = "register"
        PROVE  /\ y.queue[j].do \in Unregisters => i < j
               /\ y.queue[j].do = "register" /\ y.queue[j].on = y.queue[i].on => i = j
    <3>1. /\ i + 1 \in 1 .. Len(x.queue) /\ j + 1 \in 1 .. Len(x.queue)
          /\ y.queue[i] = x.queue[i + 1] /\ y.queue[j] = x.queue[j + 1]
          /\ (i + 1 = j + 1 => i = j) /\ (i + 1 < j + 1 => i < j)
      BY <1>2, <1>4, <2>4
    <3> DEFINE a == i + 1
               b == j + 1
    <3> HIDE DEF a, b
    <3>2. /\ a \in 1 .. Len(x.queue) /\ b \in 1 .. Len(x.queue) /\ x.queue[a].do = "register"
          => /\ x.queue[b].do \in Unregisters => a < b
             /\ x.queue[b].do = "register" /\ x.queue[b].on = x.queue[a].on => a = b
      BY <1>1 DEF FrameInv
    <3> QED
      BY <2>4, <3>1, <3>2 DEF a, b
  <2>5. \A i \in 1 .. Len(y.queue) : y.queue[i].do = "register" => p[y.queue[i].on] = << >>
    <3>1. \A i \in 1 .. Len(x.queue) : x.queue[i].do = "register" => p[x.queue[i].on] = << >>
      BY <1>1 DEF FrameInv
    <3> QED
      BY <1>4, <1>5, <3>1
  <2>6. \A c \in Conns : \A i \in 1 .. Len(p[c]) : p[c][i] = "register" => i = 1
    BY <1>1 DEF FrameInv
  <2> QED
    BY <2>1, <2>2, <2>3, <2>4, <2>5, <2>6 DEF FrameInv
<1>10. TakeInv(y)
  <2>1. ~y.takenOver => \A i \in 1 .. Len(y.queue) : y.queue[i].do \notin TakeOvers
    BY <1>1, <1>4, <1>5 DEF TakeInv
  <2>2. ASSUME NEW i \in 1 .. Len(y.queue), NEW j \in 1 .. Len(y.queue),
               y.queue[i].do \in TakeOvers, y.queue[j].do \in TakeOvers
        PROVE  i = j
    <3> DEFINE a == i + 1
               b == j + 1
    <3>1. /\ a \in 1 .. Len(x.queue) /\ b \in 1 .. Len(x.queue) /\ (a = b => i = j)
          /\ y.queue[i] = x.queue[a] /\ y.queue[j] = x.queue[b]
      BY <1>2, <1>4, <2>2
    <3> HIDE DEF a, b
    <3> QED
      BY <1>1, <2>2, <3>1 DEF TakeInv
  <2> QED
    BY <2>1, <2>2 DEF TakeInv
<1>11. HasReplaced(y) => HasReplaced(x)
  BY <1>5 DEF HasReplaced
<1>12. Head(x.queue).do \in TakeOvers => ~HasReplaced(y)
  <2>1. \A i \in 1 .. Len(x.queue) : x.queue[1].do \in TakeOvers /\ x.queue[i].do = "replaced" => i = 1
    BY <1>1, <1>2 DEF TakeInv, TakeOvers
  <2> QED
    BY <1>2, <1>4, <2>1 DEF HasReplaced
<1> QED
  BY <1>3, <1>4, <1>6, <1>8, <1>9, <1>10, <1>11, <1>12 DEF Moved, Good

\* A frame is sent: a register is the first on its connection.
LEMMA SendsFrame ==
  ASSUME NEW p \in Pendings, NEW x, Good(x, p), x.queue # << >>, Head(x.queue).do \in Sends
  PROVE  LET item == Head(x.queue)
             frame == IF item.do = "register" THEN "register" ELSE "unregister"
             q == [p EXCEPT ![item.on] = Append(@, frame)]
         IN q \in Pendings /\ Good([x EXCEPT !.queue = Tail(@)], q)
<1> DEFINE item == Head(x.queue)
           d == item.on
           frame == IF item.do = "register" THEN "register" ELSE "unregister"
           q == [p EXCEPT ![d] = Append(@, frame)]
           y == [x EXCEPT !.queue = Tail(@)]
<1>1. /\ x \in SessionRec /\ FrameInv(x, p) /\ AccountInv(x, p) /\ x.queue \in Seq(Items) /\ x.conn \in 0 .. NConns
  BY Fields DEF Good
<1>2. /\ Moved(x, y, p) /\ SameState(x, y) /\ y.unreg = x.unreg
      /\ y.sentRegister = x.sentRegister /\ y.outstanding = x.outstanding /\ y.overload = x.overload
      /\ y.queue = Tail(x.queue)
  BY Shifts
<1>3. /\ Len(x.queue) \in Nat /\ 1 \in 1 .. Len(x.queue) /\ item = x.queue[1]
      /\ \A i \in 1 .. Len(Tail(x.queue)) :
           i + 1 \in 1 .. Len(x.queue) /\ Tail(x.queue)[i] = x.queue[i + 1] /\ i + 1 # 1 /\ ~(i + 1 < 1)
  BY <1>1
<1> SUFFICES q \in Pendings /\ Good(y, q)
  OBVIOUS
<1> HIDE DEF item, y
<1>4. d \in 1 .. x.conn /\ item.do \in Sends
  BY <1>1, <1>3 DEF FrameInv, item
<1>5. d \in Conns /\ d <= x.conn
  BY <1>1, <1>4, SessionAssumption DEF Conns
<1> HIDE DEF d
<1>6. p[d] \in Seq(Frames) /\ frame \in Frames /\ Len(p[d]) \in Nat
  BY <1>5 DEF Pendings, Frames
<1> HIDE DEF frame
<1>7. /\ Append(p[d], frame) \in Seq(Frames) /\ Len(Append(p[d], frame)) = Len(p[d]) + 1
      /\ Append(p[d], frame)[Len(p[d]) + 1] = frame /\ \A i \in 1 .. Len(p[d]) : Append(p[d], frame)[i] = p[d][i]
  BY <1>6
<1>8. q \in Pendings /\ q[d] = Append(p[d], frame) /\ \A c \in Conns : c # d => q[c] = p[c]
  BY <1>5, <1>7 DEF Pendings
<1> HIDE DEF q
<1>9. /\ Len(q[d]) = Len(p[d]) + 1 /\ q[d][Len(p[d]) + 1] = frame
      /\ \A i \in 1 .. Len(p[d]) : q[d][i] = p[d][i]
      /\ \A i \in 1 .. Len(q[d]) : i \in 1 .. Len(p[d]) \/ i = Len(p[d]) + 1
  BY <1>6, <1>7, <1>8
<1>10. Good(y, p) /\ y \in SessionRec /\ FrameInv(y, p) /\ y.conn = x.conn /\ (Ending(y) <=> Ending(x)) /\ TakeInv(y)
  BY <1>2 DEF Moved, Good
<1>11. frame = "register" <=> item.do = "register"
  BY DEF frame
<1>12. item.do # "register" => item.do \in Unregisters
  BY <1>4 DEF Sends
<1>13. \A i \in 1 .. Len(y.queue) : ~(y.queue[i].do = "register" /\ y.queue[i].on = d)
  <2> SUFFICES ASSUME NEW i \in 1 .. Len(y.queue), y.queue[i].do = "register", y.queue[i].on = d
               PROVE  FALSE
    OBVIOUS
  <2> DEFINE k == i + 1
  <2>1. k \in 1 .. Len(x.queue) /\ y.queue[i] = x.queue[k] /\ k # 1 /\ ~(k < 1)
    BY <1>2, <1>3
  <2> HIDE DEF k
  <2>2. x.queue[1].do \in Unregisters => k < 1
    BY <1>1, <1>3, <2>1 DEF FrameInv
  <2>3. x.queue[1].do = "register" /\ x.queue[1].on = x.queue[k].on => k = 1
    BY <1>1, <1>3, <2>1 DEF FrameInv
  <2> QED
    BY <1>3, <1>12, <2>1, <2>2, <2>3 DEF d
<1>14. item.do = "register" => p[d] = << >>
  BY <1>1, <1>3 DEF FrameInv, d
<1>15. \A i \in 1 .. Len(q[d]) : q[d][i] = "register" => i = 1
  <2>1. \A i \in 1 .. Len(p[d]) : p[d][i] = "register" => i = 1
    BY <1>1, <1>5 DEF FrameInv
  <2>2. frame = "register" => Len(p[d]) = 0
    BY <1>11, <1>14
  <2> QED
    BY <1>6, <1>9, <2>1, <2>2
<1>16. FrameInv(y, q)
  <2>1. \A i \in 1 .. Len(y.queue) : y.queue[i].do \in Sends => y.queue[i].on \in 1 .. y.conn
    BY <1>10 DEF FrameInv
  <2>2. \A c \in Conns : q[c] # << >> => c <= y.conn
    BY <1>5, <1>8, <1>10 DEF FrameInv
  <2>3. ~Ending(y) => \A i \in 1 .. Len(y.queue) : y.queue[i].do \notin Unregisters
    BY <1>10 DEF FrameInv
  <2>4. ASSUME ~Ending(y), NEW c \in Conns PROVE \A i \in 1 .. Len(q[c]) : q[c][i] = "register"
    <3>1. frame = "register"
      BY <1>1, <1>3, <1>10, <1>11, <1>12, <2>4 DEF FrameInv
    <3>2. \A i \in 1 .. Len(p[c]) : p[c][i] = "register"
      BY <1>10, <2>4 DEF FrameInv
    <3> QED
      BY <1>8, <1>9, <3>1, <3>2
  <2>5. \A i, j \in 1 .. Len(y.queue) :
          y.queue[i].do = "register" => /\ y.queue[j].do \in Unregisters => i < j
                                        /\ y.queue[j].do = "register" /\ y.queue[j].on = y.queue[i].on => i = j
    BY <1>10 DEF FrameInv
  <2>6. ASSUME NEW i \in 1 .. Len(y.queue), y.queue[i].do = "register" PROVE q[y.queue[i].on] = << >>
    <3>1. y.queue[i].on \in 1 .. x.conn /\ y.queue[i].on # d
      BY <1>10, <1>13, <2>1, <2>6 DEF Sends
    <3>2. y.queue[i].on \in Conns
      BY <1>1, <3>1, SessionAssumption DEF Conns
    <3>3. p[y.queue[i].on] = << >>
      BY <1>10, <2>6 DEF FrameInv
    <3> QED
      BY <1>8, <3>1, <3>2, <3>3
  <2>7. ASSUME NEW c \in Conns PROVE \A i \in 1 .. Len(q[c]) : q[c][i] = "register" => i = 1
    <3>1. \A i \in 1 .. Len(p[c]) : p[c][i] = "register" => i = 1
      BY <1>1 DEF FrameInv
    <3> QED
      BY <1>8, <1>15, <3>1
  <2> QED
    BY <2>1, <2>2, <2>3, <2>4, <2>5, <2>6, <2>7 DEF FrameInv
<1>17. x.conn # 0 /\ Free(x, p) => Free(y, q)
  <2> SUFFICES ASSUME x.conn # 0, Free(x, p) PROVE Free(y, q)
    OBVIOUS
  <2>1. x.conn \in Conns
    BY <1>1, SessionAssumption DEF Conns
  <2>2. \A i \in 1 .. Len(y.queue) : ~(y.queue[i].do = "register" /\ y.queue[i].on = y.conn)
    <3>1. \A i \in 1 .. Len(y.queue) : \E k \in 1 .. Len(x.queue) : y.queue[i] = x.queue[k]
      BY <1>2, <1>3
    <3> QED
      BY <1>10, <3>1 DEF Free
  <2>3. \A i \in 1 .. Len(p[x.conn]) : p[x.conn][i] # "register"
    BY DEF Free
  <2>4. x.conn = d => frame # "register"
    BY <1>3, <1>11 DEF Free, d
  <2>5. \A i \in 1 .. Len(q[x.conn]) : q[x.conn][i] # "register"
    BY <1>8, <1>9, <2>1, <2>3, <2>4
  <2> QED
    BY <1>10, <2>2, <2>5 DEF Free
<1>18. AccountInv(y, q)
  BY <1>1, <1>2, <1>17, AccountKept DEF Moved
<1> QED
  BY <1>8, <1>10, <1>16, <1>18 DEF Good

-----------------------------------------------------------------------------
(* The steps                                                                 *)

\* The parts of the invariant that the helpers do not speak of.
LEMMA Parts ==
  ASSUME SessionInv
  PROVE  /\ Good(s, pending) /\ pending \in Pendings /\ s \in SessionRec /\ s.conn \in 0 .. NConns
         /\ NetType /\ agent \in AgentRec /\ ops \in Nat /\ replaced \in 0 .. MaxReplaced
         /\ early \subseteq {"unreg", "disconnect"} /\ LandInv /\ HoldInv /\ DeadInv /\ EarlyInv
<1>1. TypeOK /\ FrameInv(s, pending) /\ AccountInv(s, pending) /\ TakeInv(s)
  BY DEF SessionInv
<1>2. s \in SessionRec
  BY <1>1 DEF TypeOK
<1>3. s.conn \in 0 .. NConns
  BY <1>2, Fields
<1> QED
  BY <1>1, <1>2, <1>3 DEF SessionInv, TypeOK, Good, Pendings

\* And together again.
LEMMA Together ==
  ASSUME Good(s, pending)', (pending \in Pendings)', NetType', (agent \in AgentRec)', (ops \in Nat)',
         (replaced \in 0 .. MaxReplaced)', (early \subseteq {"unreg", "disconnect"})',
         LandInv', HoldInv', DeadInv', EarlyInv'
  PROVE  SessionInv'
  BY DEF SessionInv, TypeOK, Good, Pendings

\* The connections stay and so does the session's.
LEMMA LandKept ==
  ASSUME LandInv, UNCHANGED <<up, active, welcomed, bound, left>>, s'.conn = s.conn, Ending(s) => Ending(s')
  PROVE  LandInv'
  BY DEF LandInv

\* The disconnects stay held.
LEMMA HoldKept ==
  ASSUME HoldInv, HasReplaced(s') => HasReplaced(s), replaced' = replaced,
         HasReplaced(s') /\ agent.holding => agent'.holding
  PROVE  HoldInv'
<1>1. HasReplaced(s) => replaced > 0 /\ (replaced = 1 => agent.holding)
  BY DEF HoldInv, HasReplaced
<1>2. HasReplaced(s') => replaced' > 0 /\ (replaced' = 1 => agent'.holding)
  BY <1>1
<1> QED
  BY <1>2 DEF HoldInv, HasReplaced

\* A step that does not make the service look registered.
LEMMA DeadKept ==
  ASSUME DeadInv, up' = up, left' = left, s'.conn = s.conn,
         s'.state = s.state \/ s'.state \notin {"registering", "registered"}
  PROVE  DeadInv'
  BY DEF DeadInv

\* A step on the connections there are.
LEMMA StepKept ==
  ASSUME SessionInv, Kept(s, s', pending'), (pending \in Pendings)', UNCHANGED <<up, active, welcomed, bound, left>>,
         (ops \in Nat)', replaced' = replaced, (agent \in AgentRec)',
         HasReplaced(s') /\ agent.holding => agent'.holding,
         (early \subseteq {"unreg", "disconnect"})', EarlyInv', DeadInv'
  PROVE  SessionInv'
<1>1. NetType /\ replaced \in 0 .. MaxReplaced /\ LandInv /\ HoldInv
  BY Parts
<1>2. Good(s', pending') /\ s'.conn = s.conn /\ (Ending(s) => Ending(s')) /\ (HasReplaced(s') => HasReplaced(s))
  BY DEF Kept
<1>3. NetType'
  BY <1>1 DEF NetType
<1>4. LandInv'
  BY <1>1, <1>2, LandKept
<1>5. HoldInv'
  BY <1>1, <1>2, HoldKept
<1> QED
  BY <1>1, <1>2, <1>3, <1>4, <1>5, Together

\* A step of the session alone.
LEMMA SessionStep ==
  ASSUME SessionInv, Kept(s, s', pending), UNCHANGED netVars, (agent \in AgentRec)', agent'.holding = agent.holding,
         early' = early, s'.state = s.state \/ s'.state \notin {"registering", "registered"}
  PROVE  SessionInv'
<1>1. /\ pending \in Pendings /\ ops \in Nat /\ early \subseteq {"unreg", "disconnect"} /\ DeadInv /\ EarlyInv
  BY Parts
<1>2. UNCHANGED <<up, active, welcomed, bound, left>> /\ pending' = pending /\ ops' = ops /\ replaced' = replaced
  BY DEF netVars
<1>3. DeadInv'
  BY <1>1, <1>2, DeadKept DEF Kept
<1>4. EarlyInv'
  BY <1>1, <1>2 DEF EarlyInv, UnregisterWaits, HeldUntilConflict
<1> QED
  BY <1>1, <1>2, <1>3, <1>4, StepKept

\* A helper that moved the session kept it.
LEMMA MovedKept ==
  ASSUME NEW p, NEW x, NEW y, Moved(x, y, p)
  PROVE  Kept(x, y, p)
  BY DEF Moved, Kept

\* The agent's record.
LEMMA AgentTypes ==
  ASSUME NEW a \in AgentRec, NEW b \in BOOLEAN
  PROVE  /\ TrClose(a, b) \in AgentRec /\ TrClose(a, b).holding = a.holding
         /\ Released(a) \in AgentRec
         /\ [a EXCEPT !.finished = b] \in AgentRec /\ [a EXCEPT !.finished = b].holding = a.holding
         /\ [a EXCEPT !.ours = b] \in AgentRec /\ [a EXCEPT !.ours = b].holding = a.holding
         /\ [a EXCEPT !.waiting = b] \in AgentRec /\ [a EXCEPT !.waiting = b].holding = a.holding
         /\ [a EXCEPT !.closing = b] \in AgentRec /\ [a EXCEPT !.closing = b].holding = a.holding
         /\ [a EXCEPT !.holding = b] \in AgentRec /\ [a EXCEPT !.holding = b].holding = b
<1>1. /\ [a EXCEPT !.finished = b] \in AgentRec /\ [a EXCEPT !.ours = b] \in AgentRec
      /\ [a EXCEPT !.waiting = b] \in AgentRec /\ [a EXCEPT !.closing = b] \in AgentRec
      /\ [a EXCEPT !.holding = b] \in AgentRec
  BY ZenonT(60) DEF AgentRec
<1>2. /\ [a EXCEPT !.finished = b].holding = a.holding /\ [a EXCEPT !.ours = b].holding = a.holding
      /\ [a EXCEPT !.waiting = b].holding = a.holding /\ [a EXCEPT !.closing = b].holding = a.holding
      /\ [a EXCEPT !.holding = b].holding = b
  BY DEF AgentRec
<1>3. TrClose(a, b) \in AgentRec /\ TrClose(a, b).holding = a.holding
  <2> DEFINE e == IF a.tr = "open" THEN "closing" ELSE a.tr
             f == a.ours \/ b
  <2>1. e \in {"open", "closing", "ended"}
    BY DEF AgentRec
  <2>2. f \in BOOLEAN
    OBVIOUS
  <2>3. TrClose(a, b) = [a EXCEPT !.tr = e, !.ours = f]
    BY DEF TrClose
  <2> HIDE DEF e, f
  <2>4. [a EXCEPT !.tr = e, !.ours = f] \in AgentRec
    BY <2>1, <2>2, ZenonT(60) DEF AgentRec
  <2>5. [a EXCEPT !.tr = e, !.ours = f].holding = a.holding
    BY DEF AgentRec
  <2> QED
    BY <2>3, <2>4, <2>5
<1>4. Released(a) \in AgentRec
  <2> DEFINE f == a.finished \/ a.held = "fatal"
  <2>1. f \in BOOLEAN
    OBVIOUS
  <2>2. Released(a) = [a EXCEPT !.holding = FALSE, !.held = "none", !.finished = f]
    BY DEF Released
  <2> HIDE DEF f
  <2>3. [a EXCEPT !.holding = FALSE, !.held = "none", !.finished = f] \in AgentRec
    BY <2>1, ZenonT(60) DEF AgentRec
  <2> QED
    BY <2>2, <2>3
<1> QED
  BY <1>1, <1>2, <1>3, <1>4

\* The timers and the budget of the unregister wait.
LEMMA TimerStep ==
  ASSUME SessionInv, RetryFires \/ OverloadFires \/ UnregBudget
  PROVE  SessionInv'
<1>0. Good(s, pending) /\ pending \in Pendings /\ agent \in AgentRec
  BY Parts
<1>1. UNCHANGED netVars /\ agent' = agent /\ early' = early
  BY DEF RetryFires, OverloadFires, UnregBudget
<1>2. Moved(s, s', pending) /\ s'.state = s.state
  <2>1. CASE RetryFires
    BY <1>0, <2>1, Retries DEF RetryFires
  <2>2. CASE OverloadFires
    BY <1>0, <2>2, Repeats DEF OverloadFires
  <2>3. CASE UnregBudget
    BY <1>0, <2>3, ReleasesUnreg DEF UnregBudget, SameState
  <2> QED
    BY <2>1, <2>2, <2>3
<1> QED
  BY <1>0, <1>1, <1>2, MovedKept, SessionStep

\* The close begins.
LEMMA CloseStep ==
  ASSUME SessionInv, CloseAsync
  PROVE  SessionInv'
<1>0. Good(s, pending) /\ pending \in Pendings /\ agent \in AgentRec
  BY Parts
<1>1. s' = BeginCloseAsync(s) /\ UNCHANGED netVars /\ early' = early /\ agent' = [agent EXCEPT !.closing = TRUE]
  BY DEF CloseAsync
<1>2. Kept(s, s', pending) /\ Ending(s')
  BY <1>0, <1>1, Begins
<1>3. (agent \in AgentRec)' /\ agent'.holding = agent.holding
  BY <1>0, <1>1, AgentTypes
<1>4. s'.state \notin {"registering", "registered"}
  BY <1>2 DEF Ending
<1> QED
  BY <1>1, <1>2, <1>3, <1>4, SessionStep

\* The transport closes and the agent ends with it.
LEMMA TransportStep ==
  ASSUME SessionInv, TrRun \/ TrEnds \/ TrEnded
  PROVE  SessionInv'
<1>0. Good(s, pending) /\ pending \in Pendings /\ agent \in AgentRec
  BY Parts
<1>1. UNCHANGED netVars /\ early' = early
  BY DEF TrRun, TrEnds, TrEnded
<1>2. s' = s \/ s' = Finish(s)
  BY DEF TrRun, TrEnds, TrEnded
<1>3. Kept(s, s', pending) /\ (s'.state = s.state \/ s'.state = "closed")
  BY <1>0, <1>2, Finishes DEF Kept
<1>4. (agent \in AgentRec)' /\ agent'.holding = agent.holding
  <2>1. CASE TrRun
    BY <1>0, <2>1, AgentTypes DEF TrRun
  <2>2. CASE TrEnds
    <3> DEFINE f == agent.finished \/ agent.waiting
               g == agent.closed \/ agent.waiting
               a == [agent EXCEPT !.tr = "ended", !.finished = f, !.closed = g, !.waiting = FALSE]
    <3>1. f \in BOOLEAN /\ g \in BOOLEAN
      OBVIOUS
    <3>2. agent' = a
      BY <2>2 DEF TrEnds
    <3> HIDE DEF f, g
    <3>3. a \in AgentRec
      BY <1>0, <3>1, ZenonT(60) DEF AgentRec
    <3>4. a.holding = agent.holding
      BY <1>0 DEF AgentRec
    <3> QED
      BY <3>2, <3>3, <3>4
  <2>3. CASE TrEnded
    <3> DEFINE a == [agent EXCEPT !.finished = TRUE, !.closed = TRUE, !.waiting = FALSE]
    <3>1. a \in AgentRec
      BY <1>0, ZenonT(60) DEF AgentRec
    <3>2. a.holding = agent.holding
      BY <1>0 DEF AgentRec
    <3> QED
      BY <2>3, <3>1, <3>2 DEF TrEnded
  <2> QED
    BY <2>1, <2>2, <2>3
<1>5. s'.state = s.state \/ s'.state \notin {"registering", "registered"}
  BY <1>3
<1> QED
  BY <1>1, <1>3, <1>4, <1>5, SessionStep

\* The next item of the queue runs.
LEMMA FlushStep ==
  ASSUME SessionInv, Flush
  PROVE  SessionInv'
<1> DEFINE item == Head(s.queue)
           rest == [s EXCEPT !.queue = Tail(@)]
<1>0. /\ Good(s, pending) /\ pending \in Pendings /\ agent \in AgentRec /\ s \in SessionRec /\ ops \in Nat
      /\ early \subseteq {"unreg", "disconnect"} /\ EarlyInv /\ DeadInv
  BY Parts
<1>1. s.queue # << >> /\ UNCHANGED <<up, active, welcomed, bound, left, ops, replaced>>
  BY DEF Flush
<1>2. Moved(s, rest, pending) /\ SameState(s, rest) /\ (item.do \in TakeOvers => ~HasReplaced(rest))
  BY <1>0, <1>1, Shifts
<1>3. item \in Items
  BY <1>0, <1>1, Fields
<1>4. Good(rest, pending) /\ rest.state = s.state
  BY <1>2 DEF Moved, SameState
<1>5. /\ early' = early /\ Kept(s, s', pending') /\ (pending \in Pendings)'
      /\ s'.state = s.state \/ s'.state \notin {"registering", "registered"}
      /\ (agent \in AgentRec)' /\ (HasReplaced(s') /\ agent.holding => agent'.holding)
  <2>1. CASE item.do \in Sends
    <3> DEFINE frame == IF item.do = "register" THEN "register" ELSE "unregister"
               q == [pending EXCEPT ![item.on] = Append(@, frame)]
    <3>1. PICK sent \in BOOLEAN :
          /\ pending' = IF sent THEN q ELSE pending
          /\ s' = IF item.do = "unregister" /\ ~sent THEN ReleaseUnreg(rest) ELSE rest
          /\ UNCHANGED <<agent, early>>
      BY <2>1 DEF Flush, Sends, Unregisters
    <3>2. q \in Pendings /\ Good(rest, q)
      BY <1>0, <1>1, <2>1, SendsFrame
    <3> HIDE DEF item, rest, q
    <3>3. CASE sent
      BY <1>0, <1>2, <1>4, <3>1, <3>2, <3>3 DEF Kept, Moved
    <3>4. CASE ~sent
      <4>1. Moved(rest, ReleaseUnreg(rest), pending) /\ ReleaseUnreg(rest).state = rest.state
        BY <1>0, <1>4, ReleasesUnreg DEF SameState
      <4>2. Moved(s, s', pending) /\ s'.state = s.state
        BY <1>2, <1>4, <3>1, <4>1, MovedOn
      <4>3. Kept(s, s', pending')
        BY <3>1, <3>4, <4>2, MovedKept
      <4> QED
        BY <1>0, <3>1, <3>4, <4>2, <4>3
    <3> QED
      BY <3>3, <3>4
  <2>2. CASE item.do \in TakeOvers
    <3>1. s' = AfterHeld(rest) /\ agent' = TrClose(Released(agent), TRUE) /\ UNCHANGED <<pending, early>>
      BY <2>2 DEF Flush, TakeOvers
    <3> HIDE DEF item, rest
    <3>2. Kept(rest, s', pending) /\ (s'.state = rest.state \/ s'.state = "closed")
      BY <1>0, <1>4, <3>1, Finishes DEF AfterHeld, Kept
    <3>3. (agent \in AgentRec)'
      BY <1>0, <3>1, AgentTypes
    <3>4. Kept(s, s', pending) /\ ~HasReplaced(s')
      BY <1>2, <2>2, <3>2 DEF Moved, Kept
    <3> QED
      BY <1>0, <1>4, <3>1, <3>2, <3>3, <3>4
  <2>3. CASE item.do = "fatal"
    <3>1. s' = Finish(rest) /\ agent' = TrClose([agent EXCEPT !.finished = TRUE], FALSE) /\ UNCHANGED <<pending, early>>
      BY <2>3 DEF Flush
    <3> HIDE DEF item, rest
    <3>2. Kept(rest, s', pending) /\ (s'.state = rest.state \/ s'.state = "closed")
      BY <1>0, <1>4, <3>1, Finishes
    <3>3. (agent \in AgentRec)' /\ agent'.holding = agent.holding
      <4> DEFINE a == [agent EXCEPT !.finished = TRUE]
      <4>1. a \in AgentRec /\ a.holding = agent.holding
        BY <1>0, AgentTypes
      <4> HIDE DEF a
      <4>2. TrClose(a, FALSE) \in AgentRec /\ TrClose(a, FALSE).holding = a.holding
        BY <4>1, AgentTypes
      <4> QED
        BY <3>1, <4>1, <4>2 DEF a
    <3>4. Kept(s, s', pending)
      BY <1>2, <3>2 DEF Moved, Kept
    <3> QED
      BY <1>0, <1>4, <3>1, <3>2, <3>3, <3>4
  <2>4. CASE item.do = "done"
    <3>1. s' = rest /\ agent' = [TrClose(agent, FALSE) EXCEPT !.waiting = TRUE] /\ UNCHANGED <<pending, early>>
      BY <2>4 DEF Flush
    <3> HIDE DEF item, rest
    <3>2. (agent \in AgentRec)' /\ agent'.holding = agent.holding
      <4>1. TrClose(agent, FALSE) \in AgentRec /\ TrClose(agent, FALSE).holding = agent.holding
        BY <1>0, AgentTypes
      <4> QED
        BY <3>1, <4>1, AgentTypes
    <3> QED
      BY <1>0, <1>2, <1>4, <3>1, <3>2, MovedKept
  <2> QED
    BY <1>3, <2>1, <2>2, <2>3, <2>4 DEF Items
<1>6. DeadInv'
  BY <1>0, <1>1, <1>5, DeadKept DEF Kept
<1>7. EarlyInv' /\ (early \subseteq {"unreg", "disconnect"})' /\ (ops \in Nat)'
  BY <1>0, <1>1, <1>5 DEF EarlyInv, UnregisterWaits, HeldUntilConflict
<1> QED
  BY <1>1, <1>5, <1>6, <1>7, StepKept

\* Once the end of the last connection was seen no message of a connection changes the
\* registration.
LEMMA NoneSpeaks ==
  ASSUME SessionInv, NEW c \in Conns, up[c] # "none",
         \A d \in Conns : up[d] # "none" => d <= s.conn, s.conn = 0 \/ s.conn \in left
  PROVE  Superseded(From(c)) \/ ConnEnded(From(c))
<1>1. LandInv /\ s.conn \in 0 .. NConns /\ NetType
  BY Parts
<1>2. c \in Nat /\ c # 0 /\ c <= s.conn /\ s.conn \in Nat /\ welcomed \in Nat
  BY <1>1, SessionAssumption DEF Conns, NetType
<1>3. s.conn \in left
  BY <1>2
<1>4. s.conn \in bound /\ up[s.conn] = "ended" /\ s.conn <= welcomed
  BY <1>1, <1>3 DEF LandInv
<1>5. CASE c = s.conn
  BY <1>2, <1>4, <1>5 DEF From, ConnEnded
<1>6. CASE c # s.conn
  <2>1. c < welcomed
    BY <1>2, <1>4, <1>6
  <2>2. c \in bound
    BY <1>1, <2>1 DEF LandInv
  <2> QED
    BY <1>2, <1>6, <2>2 DEF From, Superseded
<1> QED
  BY <1>5, <1>6

\* The dead service stays so, whatever a connection says.
LEMMA DeadMessage ==
  ASSUME SessionInv, NEW c \in Conns, up[c] # "none", NEW msg, s' = OnApp(s, From(c), msg), s'.conn = s.conn,
         UNCHANGED <<up, left>>,
         msg \notin RegisterReplies \cup {"disable", "disableNext", "enable"} => s'.state = s.state \/ s'.state = "conflict"
  PROVE  DeadInv'
<1>1. DeadInv
  BY Parts
<1>2. CASE (\A d \in Conns : up[d] # "none" => d <= s.conn) /\ (s.conn = 0 \/ s.conn \in left)
  <2>1. Superseded(From(c)) \/ ConnEnded(From(c))
    BY <1>2, NoneSpeaks
  <2>2. msg \in RegisterReplies \cup {"disable", "disableNext", "enable"} => s' = s
    BY <2>1 DEF OnApp
  <2>3. s'.state = s.state \/ s'.state \notin {"registering", "registered"}
    BY <2>2
  <2> QED
    BY <1>1, <2>3, DeadKept
<1>3. CASE ~((\A d \in Conns : up[d] # "none" => d <= s.conn) /\ (s.conn = 0 \/ s.conn \in left))
  BY <1>3 DEF DeadInv
<1> QED
  BY <1>2, <1>3

\* A frame is answered on the session's connection, or on one that is superseded.
LEMMA AnswersCurrent ==
  ASSUME SessionInv, NEW c \in Conns, pending[c] # << >>
  PROVE  up[c] # "none" /\ (Superseded(From(c)) \/ c = s.conn)
<1>1. LandInv /\ FrameInv(s, pending) /\ s.conn \in 0 .. NConns /\ NetType
  BY Parts DEF Good
<1>2. c \in Nat /\ c # 0 /\ c <= s.conn /\ s.conn <= welcomed /\ welcomed \in Nat /\ s.conn \in Nat
  BY <1>1, SessionAssumption DEF Conns, FrameInv, LandInv, NetType
<1>3. up[c] # "none"
  BY <1>1, <1>2 DEF LandInv
<1>4. CASE c \in bound
  BY <1>2, <1>3, <1>4 DEF From, Superseded
<1>5. CASE c \notin bound
  <2>1. ~(c < welcomed)
    BY <1>1, <1>5 DEF LandInv
  <2> QED
    BY <1>2, <1>3, <2>1
<1> QED
  BY <1>4, <1>5

\* onApp, for a message that answers a frame.
LEMMA AppAnswers ==
  ASSUME NEW p \in Pendings, Good(s, p), NEW c, Superseded(c) \/ Free(s, p),
         NEW msg \in RegisterReplies \cup {"unregistered", "overloaded", "version", "unknownOp"}
  PROVE  LET y == OnApp(s, c, msg) IN
         /\ Kept(s, y, p) /\ (msg \notin RegisterReplies => y.state = s.state)
         /\ (Superseded(c) => y = s)
         /\ (msg # "unregistered" /\ s.closePreReply => y.unreg = s.unreg)
<1>1. CASE Superseded(c) \/ (ConnEnded(c) /\ msg \in RegisterReplies \cup {"disable", "disableNext", "enable"})
  BY <1>1 DEF OnApp, Kept
<1>2. CASE ~(Superseded(c) \/ (ConnEnded(c) /\ msg \in RegisterReplies \cup {"disable", "disableNext", "enable"})) /\ msg \in RegisterReplies
  <2> DEFINE y == OnRegistered(s, msg)
  <2>1. Moved(s, y, p) /\ y.unreg = s.unreg
    BY <1>2, Registereds
  <2>2. OnApp(s, c, msg) = FlushQueuedRegister(y)
    BY <1>2 DEF OnApp, RegisterReplies
  <2> HIDE DEF y
  <2>3. Moved(y, FlushQueuedRegister(y), p) /\ FlushQueuedRegister(y).unreg = y.unreg
    BY <2>1, FlushesRegister DEF Moved
  <2>4. Kept(s, FlushQueuedRegister(y), p)
    BY <2>1, <2>3, MovedOn, MovedKept
  <2> QED
    BY <1>2, <2>1, <2>2, <2>3, <2>4
<1>3. CASE ~(Superseded(c) \/ (ConnEnded(c) /\ msg \in RegisterReplies \cup {"disable", "disableNext", "enable"})) /\ msg = "unregistered"
  <2>1. OnApp(s, c, msg) = OnUnregistered(s)
    BY <1>3 DEF OnApp, RegisterReplies
  <2>2. Moved(s, OnUnregistered(s), p) /\ OnUnregistered(s).state = s.state
    BY <1>3, Unregistereds
  <2> QED
    BY <1>3, <2>1, <2>2, MovedKept
<1>4. CASE ~(Superseded(c) \/ (ConnEnded(c) /\ msg \in RegisterReplies \cup {"disable", "disableNext", "enable"}))
           /\ msg \in {"overloaded", "version", "unknownOp"}
  <2>1. OnApp(s, c, msg) = OnAppError(s, msg)
    BY <1>4 DEF OnApp, RegisterReplies
  <2>2. LET y == OnAppError(s, msg) IN Moved(s, y, p) /\ y.state = s.state /\ (s.closePreReply => y.unreg = s.unreg)
    BY <1>4, Errs
  <2> QED
    BY <1>4, <2>1, <2>2, MovedKept
<1> QED
  BY <1>1, <1>2, <1>3, <1>4

\* An answer is delivered.
LEMMA ReplyStep ==
  ASSUME SessionInv, NEW c \in Conns, Reply(c)
  PROVE  SessionInv'
<1>0. /\ Good(s, pending) /\ pending \in Pendings /\ agent \in AgentRec /\ ops \in Nat
      /\ early \subseteq {"unreg", "disconnect"} /\ EarlyInv
  BY Parts
<1>1. PICK msg \in Answers(Head(pending[c])) : s' = OnApp(s, From(c), msg)
  BY DEF Reply
<1>2. /\ pending[c] # << >> /\ pending' = [pending EXCEPT ![c] = Tail(@)]
      /\ UNCHANGED <<up, active, welcomed, bound, left, agent, ops, replaced>>
  BY DEF Reply
<1>3. /\ pending' \in Pendings /\ Good(s, pending') /\ (c = s.conn => Free(s, pending'))
      /\ (c = s.conn /\ Head(pending[c]) = "register" => ~Free(s, pending))
  BY <1>0, <1>2, Pops
<1>4. up[c] # "none" /\ (Superseded(From(c)) \/ c = s.conn)
  BY <1>2, AnswersCurrent
<1>5. msg \in RegisterReplies \cup {"unregistered", "overloaded", "version", "unknownOp"}
  BY DEF Answers
<1>6. /\ Kept(s, s', pending') /\ (msg \notin RegisterReplies => s'.state = s.state)
      /\ (Superseded(From(c)) => s' = s) /\ (msg # "unregistered" /\ s.closePreReply => s'.unreg = s.unreg)
  BY <1>1, <1>3, <1>4, <1>5, AppAnswers
<1>7. DeadInv'
  BY <1>1, <1>2, <1>4, <1>6, DeadMessage DEF Kept
<1>8. ~(s.unreg # 0 /\ s'.unreg = 0 /\ Head(pending[c]) = "register")
  <2> SUFFICES ASSUME s.unreg # 0, s'.unreg = 0, Head(pending[c]) = "register" PROVE FALSE
    OBVIOUS
  <2>1. c = s.conn
    BY <1>4, <1>6
  <2>2. s.closePreReply
    BY <1>0, <1>3, <2>1 DEF Good, AccountInv
  <2>3. msg # "unregistered"
    BY DEF Answers, RegisterReplies
  <2> QED
    BY <1>6, <2>2, <2>3
<1>9. early' = early
  BY <1>8 DEF Reply
<1>10. EarlyInv'
  BY <1>0, <1>2, <1>9 DEF EarlyInv, UnregisterWaits, HeldUntilConflict
<1> QED
  BY <1>0, <1>2, <1>3, <1>6, <1>7, <1>9, <1>10, StepKept

\* The edge enables, disables or takes over the service.
LEMMA EdgeStep ==
  ASSUME SessionInv, NEW c \in Conns, NEW msg \in EdgeOps, EdgeOp(c, msg)
  PROVE  SessionInv'
<1>0. /\ Good(s, pending) /\ pending \in Pendings /\ agent \in AgentRec /\ ops \in Nat
      /\ early \subseteq {"unreg", "disconnect"} /\ EarlyInv
  BY Parts
<1>1. /\ up[c] # "none" /\ s' = OnApp(s, From(c), msg) /\ ops' = ops + 1
      /\ UNCHANGED <<up, active, welcomed, bound, left, pending, agent, replaced, early>>
  BY DEF EdgeOp
<1>2. Kept(s, s', pending) /\ (msg = "conflict" => s'.state = s.state \/ s'.state = "conflict")
  <2>1. /\ s' \in {s, OnDisable(s, TRUE), OnDisable(s, FALSE), OnEnable(s), OnConflict(s)}
        /\ msg = "conflict" => s' \in {s, OnConflict(s)}
    BY <1>1 DEF OnApp, RegisterReplies, EdgeOps
  <2>2. Kept(s, s, pending)
    BY <1>0 DEF Kept
  <2>3. /\ Kept(s, OnDisable(s, TRUE), pending) /\ Kept(s, OnDisable(s, FALSE), pending)
        /\ Kept(s, OnEnable(s), pending)
    BY <1>0, DisablesOn, EnablesOn, MovedKept
  <2>4. Kept(s, OnConflict(s), pending) /\ (OnConflict(s).state = s.state \/ OnConflict(s).state = "conflict")
    BY <1>0, Conflicts
  <2> QED
    BY <2>1, <2>2, <2>3, <2>4
<1>3. msg \notin RegisterReplies \cup {"disable", "disableNext", "enable"} => s'.state = s.state \/ s'.state = "conflict"
  BY <1>2 DEF EdgeOps
<1>4. DeadInv'
  BY <1>1, <1>2, <1>3, DeadMessage DEF Kept
<1>5. EarlyInv'
  BY <1>0, <1>1 DEF EarlyInv, UnregisterWaits, HeldUntilConflict
<1> QED
  BY <1>0, <1>1, <1>2, <1>4, <1>5, StepKept

\* A connection lands.
LEMMA LandStep ==
  ASSUME SessionInv, NEW c \in Conns, Land(c)
  PROVE  SessionInv'
<1>0. /\ Good(s, pending) /\ pending \in Pendings /\ agent \in AgentRec /\ ops \in Nat /\ s.conn \in 0 .. NConns
      /\ replaced \in 0 .. MaxReplaced /\ NetType /\ LandInv /\ HoldInv
      /\ early \subseteq {"unreg", "disconnect"} /\ EarlyInv
  BY Parts
<1>1. /\ up[c] = "none" /\ (c > 1 => up[c - 1] # "none") /\ up' = [up EXCEPT ![c] = "up"] /\ active' = c
      /\ UNCHANGED <<s, welcomed, bound, left, pending, agent, ops, replaced, early>>
  BY DEF Land
<1>2. up \in [Conns -> {"none", "up", "ended"}] /\ welcomed \in Nat /\ c \in Nat /\ c # 0 /\ Conns \subseteq Nat
      /\ c \in 0 .. NConns /\ 0 \notin Conns
  BY <1>0, SessionAssumption DEF NetType, Conns
<1>3. up'[c] = "up" /\ (\A d \in Conns : d # c => up'[d] = up[d]) /\ up' \in [Conns -> {"none", "up", "ended"}]
  BY <1>1, <1>2
<1>4. NetType'
  BY <1>0, <1>1, <1>2, <1>3 DEF NetType
<1>5. \A d \in Conns : d < c => up[d] # "none"
  <2> SUFFICES ASSUME NEW d \in Conns, d < c PROVE up[d] # "none"
    OBVIOUS
  <2>1. c - 1 \in Conns /\ (d = c - 1 \/ d < c - 1) /\ c > 1
    BY <1>2, SessionAssumption DEF Conns
  <2> QED
    BY <1>0, <1>1, <2>1 DEF LandInv
<1>6. \A d \in Conns : up[d] # "none" => d <= c
  <2> SUFFICES ASSUME NEW d \in Conns, up[d] # "none", ~(d <= c) PROVE FALSE
    OBVIOUS
  <2>1. c < d
    BY <1>2
  <2> QED
    BY <1>0, <1>1, <2>1 DEF LandInv
<1>7. LandInv'
  <2>1. \A b, d \in Conns : b < d /\ up'[d] # "none" => up'[b] # "none"
    BY <1>0, <1>3, <1>5 DEF LandInv
  <2>2. active' # 0 => up'[active'] = "up" /\ \A d \in Conns : up'[d] # "none" => d <= active'
    BY <1>1, <1>2, <1>3, <1>6
  <2>3. \A d \in Conns : d <= welcomed' => up'[d] # "none"
    BY <1>0, <1>1, <1>3 DEF LandInv
  <2>4. \A d \in left' : d \in bound' /\ up'[d] = "ended"
    <3>1. \A d \in left : d \in Conns /\ d \in bound /\ up[d] = "ended"
      BY <1>0 DEF LandInv, NetType
    <3> QED
      BY <1>1, <1>3, <3>1
  <2> QED
    BY <1>0, <1>1, <2>1, <2>2, <2>3, <2>4 DEF LandInv
<1>8. DeadInv'
  <2>1. ~(c <= s.conn)
    <3>1. c <= s.conn => c <= welcomed
      BY <1>0, <1>2 DEF LandInv
    <3> QED
      BY <1>0, <1>1, <3>1 DEF LandInv
  <2> QED
    BY <1>1, <1>3, <2>1 DEF DeadInv
<1>9. HoldInv' /\ EarlyInv'
  BY <1>0, <1>1 DEF HoldInv, EarlyInv, UnregisterWaits, HeldUntilConflict
<1>10. Good(s, pending)'
  BY <1>0, <1>1
<1> QED
  BY <1>0, <1>1, <1>4, <1>7, <1>8, <1>9, <1>10, Together

\* OnConnect: ev.connect.
LEMMA WelcomeStep ==
  ASSUME SessionInv, NEW c \in Conns, OnWelcome(c)
  PROVE  SessionInv'
<1>0. /\ Good(s, pending) /\ pending \in Pendings /\ agent \in AgentRec /\ ops \in Nat /\ s.conn \in 0 .. NConns
      /\ replaced \in 0 .. MaxReplaced /\ NetType /\ LandInv /\ HoldInv /\ DeadInv
      /\ early \subseteq {"unreg", "disconnect"} /\ EarlyInv
  BY Parts
<1>1. /\ up[c] # "none" /\ welcomed = c - 1 /\ (c > 1 => c - 1 \in bound) /\ s' = WelcomeOn(s, c) /\ welcomed' = c
      /\ UNCHANGED <<up, active, bound, left, pending, agent, ops, replaced, early>>
  BY DEF OnWelcome
<1>2. welcomed \in Nat /\ c \in Nat /\ c # 0 /\ Conns \subseteq Nat /\ c \in 0 .. NConns /\ welcomed < c
      /\ bound \subseteq Conns /\ s.conn \in Nat /\ s.conn <= welcomed
  BY <1>0, <1>1, SessionAssumption DEF NetType, Conns, LandInv
<1>3. NetType'
  BY <1>0, <1>1, <1>2 DEF NetType
<1>4. /\ Good(s', pending) /\ (HasReplaced(s') => HasReplaced(s)) /\ (Ending(s) => s' = s)
      /\ (~Ending(s) => s'.conn = c)
  <2>1. CASE Ending(s)
    BY <1>0, <1>1, <2>1 DEF WelcomeOn
  <2>2. CASE ~Ending(s)
    <3>1. s.conn < c
      BY <1>2
    <3> QED
      BY <1>0, <1>1, <2>2, <3>1, Welcomes
  <2> QED
    BY <2>1, <2>2
<1>5. LandInv'
  <2>1. \A d \in Conns : d <= welcomed' => up'[d] # "none"
    <3>1. \A d \in Conns : d <= c => d <= welcomed \/ d = c
      BY <1>1, <1>2
    <3> QED
      BY <1>0, <1>1, <3>1 DEF LandInv
  <2>2. \A d \in Conns : d < welcomed' => d \in bound'
    <3>1. \A d \in Conns : d < c => d < welcomed \/ (d = c - 1 /\ c > 1)
      BY <1>1, <1>2, SessionAssumption DEF Conns
    <3> QED
      BY <1>0, <1>1, <3>1 DEF LandInv
  <2>3. \A d \in bound' : d <= welcomed'
    <3>1. \A d \in bound : d \in Nat /\ d <= welcomed
      BY <1>0, <1>2 DEF LandInv
    <3> QED
      BY <1>1, <1>2, <3>1
  <2>4. s'.conn <= welcomed' /\ (~Ending(s') => s'.conn = welcomed')
    BY <1>1, <1>2, <1>4
  <2>5. /\ \A b, d \in Conns : b < d /\ up'[d] # "none" => up'[b] # "none"
        /\ active' # 0 => up'[active'] = "up" /\ \A d \in Conns : up'[d] # "none" => d <= active'
        /\ \A d \in left' : d \in bound' /\ up'[d] = "ended"
    BY <1>0, <1>1 DEF LandInv
  <2> QED
    BY <2>1, <2>2, <2>3, <2>4, <2>5 DEF LandInv
<1>6. DeadInv'
  <2>1. CASE Ending(s)
    BY <1>0, <1>1, <1>4, <2>1, DeadKept
  <2>2. CASE ~Ending(s)
    <3>1. c \notin left
      <4>1. c \in left => c <= welcomed
        BY <1>0 DEF LandInv
      <4> QED
        BY <1>2, <4>1
    <3> QED
      BY <1>1, <1>2, <1>4, <2>2, <3>1 DEF DeadInv
  <2> QED
    BY <2>1, <2>2
<1>7. HoldInv'
  BY <1>0, <1>1, <1>4, HoldKept
<1>8. EarlyInv' /\ Good(s, pending)'
  BY <1>0, <1>1, <1>4 DEF EarlyInv, UnregisterWaits, HeldUntilConflict
<1> QED
  BY <1>0, <1>1, <1>3, <1>5, <1>6, <1>7, <1>8, Together

\* OnConnect: c.OnApp.
LEMMA BindStep ==
  ASSUME SessionInv, NEW c \in Conns, Bind(c)
  PROVE  SessionInv'
<1>0. /\ Good(s, pending) /\ pending \in Pendings /\ agent \in AgentRec /\ ops \in Nat
      /\ replaced \in 0 .. MaxReplaced /\ NetType /\ LandInv /\ HoldInv /\ DeadInv
      /\ early \subseteq {"unreg", "disconnect"} /\ EarlyInv
  BY Parts
<1>1. /\ welcomed = c /\ bound' = bound \cup {c}
      /\ UNCHANGED <<s, up, active, welcomed, left, pending, agent, ops, replaced, early>>
  BY DEF Bind
<1>2. NetType'
  BY <1>0, <1>1 DEF NetType
<1>3. LandInv'
  <2>1. c <= c
    BY SessionAssumption DEF Conns
  <2> QED
    BY <1>0, <1>1, <2>1 DEF LandInv
<1>4. HoldInv' /\ EarlyInv' /\ DeadInv' /\ Good(s, pending)'
  BY <1>0, <1>1 DEF HoldInv, EarlyInv, UnregisterWaits, HeldUntilConflict, DeadInv
<1> QED
  BY <1>0, <1>1, <1>2, <1>3, <1>4, Together

\* A connection ends.
LEMMA EndStep ==
  ASSUME SessionInv, NEW c \in Conns, ConnEnds(c)
  PROVE  SessionInv'
<1>0. /\ Good(s, pending) /\ pending \in Pendings /\ agent \in AgentRec /\ ops \in Nat
      /\ replaced \in 0 .. MaxReplaced /\ NetType /\ LandInv /\ HoldInv /\ DeadInv
      /\ early \subseteq {"unreg", "disconnect"} /\ EarlyInv
  BY Parts
<1>1. /\ up[c] = "up" /\ up' = [up EXCEPT ![c] = "ended"] /\ active' = IF active = c THEN 0 ELSE active
      /\ UNCHANGED <<s, welcomed, bound, left, agent, ops, replaced, early>>
  BY DEF ConnEnds
<1>2. PICK n \in 0 .. Len(pending[c]) : pending' = [pending EXCEPT ![c] = SubSeq(@, 1, n)]
  BY DEF ConnEnds
<1>3. pending' \in Pendings /\ Good(s, pending')
  BY <1>0, <1>2, Cuts
<1>4. up \in [Conns -> {"none", "up", "ended"}] /\ active \in 0 .. NConns /\ left \subseteq Conns
  BY <1>0 DEF NetType
<1>5. /\ up'[c] = "ended" /\ up' \in [Conns -> {"none", "up", "ended"}]
      /\ \A d \in Conns : (d # c => up'[d] = up[d]) /\ (up'[d] # "none" <=> up[d] # "none")
  BY <1>1, <1>4
<1>6. NetType'
  BY <1>0, <1>1, <1>4, <1>5, SessionAssumption DEF NetType
<1>7. LandInv'
  <2>1. /\ \A b, d \in Conns : b < d /\ up'[d] # "none" => up'[b] # "none"
        /\ \A d \in Conns : d <= welcomed' => up'[d] # "none"
    BY <1>0, <1>1, <1>5 DEF LandInv
  <2>2. active' # 0 => up'[active'] = "up" /\ \A d \in Conns : up'[d] # "none" => d <= active'
    <3> SUFFICES ASSUME active' # 0 PROVE up'[active'] = "up" /\ \A d \in Conns : up'[d] # "none" => d <= active'
      OBVIOUS
    <3>1. active' = active /\ active # c /\ active \in Conns
      BY <1>1, <1>4, SessionAssumption DEF Conns
    <3>2. up[active] = "up" /\ \A d \in Conns : up[d] # "none" => d <= active
      BY <1>0, <3>1 DEF LandInv
    <3> QED
      BY <1>5, <3>1, <3>2
  <2>3. \A d \in left' : d \in bound' /\ up'[d] = "ended"
    <3>1. \A d \in left : d \in Conns /\ d \in bound /\ up[d] = "ended"
      BY <1>0, <1>4 DEF LandInv
    <3> QED
      BY <1>1, <1>5, <3>1
  <2> QED
    BY <1>0, <1>1, <2>1, <2>2, <2>3 DEF LandInv
<1>8. DeadInv'
  BY <1>0, <1>1, <1>5 DEF DeadInv
<1>9. HoldInv' /\ EarlyInv' /\ Good(s, pending)'
  BY <1>0, <1>1, <1>3 DEF HoldInv, EarlyInv, UnregisterWaits, HeldUntilConflict
<1> QED
  BY <1>0, <1>1, <1>3, <1>6, <1>7, <1>8, <1>9, Together

\* onConnEnd.
LEMMA ConnEndStep ==
  ASSUME SessionInv, NEW c \in Conns, OnConnEnd(c)
  PROVE  SessionInv'
<1>0. /\ Good(s, pending) /\ pending \in Pendings /\ agent \in AgentRec /\ ops \in Nat /\ s.conn \in 0 .. NConns
      /\ replaced \in 0 .. MaxReplaced /\ NetType /\ LandInv /\ HoldInv /\ DeadInv
      /\ early \subseteq {"unreg", "disconnect"} /\ EarlyInv
  BY Parts
<1>1. /\ up[c] = "ended" /\ c \in bound /\ s' = ConnEndOn(s, c) /\ left' = left \cup {c}
      /\ UNCHANGED <<up, active, welcomed, bound, pending, agent, ops, replaced, early>>
  BY DEF OnConnEnd
<1>2. /\ Kept(s, s', pending) /\ s'.state \in {s.state, "connecting"}
      /\ ~Superseded(c) => s'.state \notin {"registering", "registered"}
  BY <1>0, <1>1, ConnEndsOn
<1>3. /\ Good(s', pending) /\ s'.conn = s.conn /\ (Ending(s) => Ending(s')) /\ (HasReplaced(s') => HasReplaced(s))
  BY <1>2 DEF Kept
<1>4. NetType'
  BY <1>0, <1>1 DEF NetType
<1>5. LandInv'
  BY <1>0, <1>1, <1>3 DEF LandInv
<1>6. DeadInv'
  <2> SUFFICES ASSUME \A d \in Conns : up[d] # "none" => d <= s.conn, s.conn = 0 \/ s.conn \in left \cup {c}
               PROVE  s'.state \notin {"registering", "registered"}
    BY <1>1, <1>3 DEF DeadInv
  <2>1. CASE s.conn \in left
    <3>1. s.state \notin {"registering", "registered"}
      BY <1>0, <2>1 DEF DeadInv
    <3> QED
      BY <1>2, <3>1
  <2>2. CASE s.conn \notin left
    <3>1. s.conn = c
      <4>1. c <= s.conn
        BY <1>1
      <4> QED
        BY <1>0, <2>2, <4>1, SessionAssumption DEF Conns
    <3>2. active \in {0, c}
      <4> SUFFICES ASSUME active # 0 PROVE active = c
        OBVIOUS
      <4>1. active \in Conns /\ c \in Nat /\ active \in Nat
        BY <1>0, SessionAssumption DEF NetType, Conns
      <4>2. active <= c /\ c <= active
        BY <1>0, <1>1, <3>1, <4>1 DEF LandInv
      <4> QED
        BY <4>1, <4>2
    <3> QED
      BY <1>2, <3>1, <3>2 DEF Superseded
  <2> QED
    BY <2>1, <2>2
<1>7. HoldInv'
  BY <1>0, <1>1, <1>3, HoldKept
<1>8. EarlyInv' /\ Good(s, pending)'
  BY <1>0, <1>1, <1>3 DEF EarlyInv, UnregisterWaits, HeldUntilConflict
<1> QED
  BY <1>0, <1>1, <1>4, <1>5, <1>6, <1>7, <1>8, Together

\* A disconnect is reported while the event of a drain{replaced} waits.
LEMMA Reports ==
  ASSUME NEW d, d \in EarlyReport
  PROVE  d = "disconnect" /\ (s \in SessionRec => HasReplaced(s))
<1>1. d = "disconnect" /\ \E i \in DOMAIN s.queue : s.queue[i].do = "replaced"
  BY DEF EarlyReport
<1>2. ASSUME s \in SessionRec PROVE HasReplaced(s)
  <2>1. s.queue \in Seq(Items)
    BY <1>2, Fields
  <2>2. DOMAIN s.queue = 1 .. Len(s.queue)
    BY <2>1
  <2> QED
    BY <1>1, <2>2 DEF HasReplaced
<1> QED
  BY <1>1, <1>2

\* onDrain with reason "replaced".
LEMMA ReplacedStep ==
  ASSUME SessionInv, NEW c \in Conns, OnReplaced(c)
  PROVE  SessionInv'
<1> DEFINE took == ~Ending(s) /\ ~s.takenOver
           a == IF took THEN Hold(agent) ELSE Released(agent)
<1>0. /\ Good(s, pending) /\ pending \in Pendings /\ agent \in AgentRec /\ ops \in Nat /\ s \in SessionRec
      /\ replaced \in 0 .. MaxReplaced /\ NetType /\ LandInv /\ HoldInv /\ DeadInv
      /\ early \subseteq {"unreg", "disconnect"} /\ EarlyInv
  BY Parts
<1>1. /\ replaced < MaxReplaced /\ replaced' = replaced + 1
      /\ s' = IF took THEN TakeOver(s, "replaced") ELSE AfterHeld(s)
      /\ agent' = IF took \/ s.state = "closing" THEN TrClose(a, TRUE) ELSE a
      /\ early' = early \cup (IF took \/ agent.held = "none" THEN {} ELSE EarlyReport)
      /\ UNCHANGED <<up, active, welcomed, bound, left, pending, ops>>
  BY DEF OnReplaced
<1>2. replaced' \in 0 .. MaxReplaced /\ replaced \in Nat /\ replaced' > 0
  BY <1>0, <1>1, SessionAssumption
<1>3. HasReplaced(s) => replaced > 0 /\ (replaced = 1 => agent.holding)
  BY <1>0 DEF HoldInv, HasReplaced
<1>4. a \in AgentRec /\ (took => a.holding)
  BY <1>0, AgentTypes DEF Hold
<1> HIDE DEF a
<1>5. (agent \in AgentRec)' /\ (took => agent'.holding)
  BY <1>1, <1>4, AgentTypes
<1>6. /\ Good(s', pending) /\ s'.conn = s.conn /\ (Ending(s) => Ending(s'))
      /\ s'.state = s.state \/ s'.state \notin {"registering", "registered"}
      /\ ~took /\ HasReplaced(s') => HasReplaced(s)
  <2>1. CASE took
    <3>1. s' = TakeOver(s, "replaced") /\ "replaced" \in TakeOvers
      BY <1>1, <2>1 DEF TakeOvers
    <3>2. Good(s', pending) /\ s'.conn = s.conn /\ s'.state = "conflict"
      BY <1>0, <2>1, <3>1, TakesOver
    <3> QED
      BY <2>1, <3>2
  <2>2. CASE ~took
    <3>1. s' = s \/ s' = Finish(s)
      BY <1>1, <2>2 DEF AfterHeld
    <3>2. Kept(s, s', pending) /\ (s'.state = s.state \/ s'.state = "closed")
      BY <1>0, <3>1, Finishes DEF Kept
    <3> QED
      BY <2>2, <3>2 DEF Kept
  <2> QED
    BY <2>1, <2>2
<1> HIDE DEF took
<1>7. HoldInv'
  <2>1. HasReplaced(s') => (replaced' = 1 => agent'.holding)
    <3>1. CASE took
      BY <1>5, <3>1
    <3>2. CASE ~took
      <4>1. HasReplaced(s') => replaced > 0
        BY <1>3, <1>6, <3>2
      <4>2. HasReplaced(s') => replaced' # 1
        BY <1>1, <1>2, <4>1
      <4> QED
        BY <4>2
    <3> QED
      BY <3>1, <3>2
  <2> QED
    BY <1>2, <2>1 DEF HoldInv, HasReplaced
<1>8. EarlyInv' /\ (early \subseteq {"unreg", "disconnect"})'
  <2>1. \A e \in EarlyReport : e = "disconnect" /\ HasReplaced(s)
    BY <1>0, Reports
  <2>2. replaced' <= 1 => EarlyReport = {} /\ replaced <= 1
    BY <1>1, <1>2, <1>3, <2>1
  <2>3. EarlyReport \subseteq {"disconnect"}
    BY <2>1
  <2>4. "unreg" # "disconnect"
    OBVIOUS
  <2> QED
    BY <1>0, <1>1, <2>2, <2>3, <2>4 DEF EarlyInv, UnregisterWaits, HeldUntilConflict
<1>9. LandInv' /\ DeadInv'
  BY <1>0, <1>1, <1>6, LandKept, DeadKept
<1>10. NetType' /\ Good(s, pending)'
  BY <1>0, <1>1, <1>6 DEF NetType
<1> QED
  BY <1>0, <1>1, <1>2, <1>5, <1>7, <1>8, <1>9, <1>10, Together

\* OnDisconnect.
LEMMA DisconnectStep ==
  ASSUME SessionInv, NEW c \in Conns, NEW fatal \in BOOLEAN, OnDisconnect(c, fatal)
  PROVE  SessionInv'
<1>0. /\ Good(s, pending) /\ pending \in Pendings /\ agent \in AgentRec /\ ops \in Nat /\ s \in SessionRec
      /\ replaced \in 0 .. MaxReplaced /\ HoldInv /\ DeadInv
      /\ early \subseteq {"unreg", "disconnect"} /\ EarlyInv
  BY Parts
<1>1. UNCHANGED <<up, active, welcomed, bound, left>> /\ pending' = pending /\ ops' = ops /\ replaced' = replaced
  BY DEF OnDisconnect, netVars
<1>2. Kept(s, s', pending) /\ (s'.state = s.state \/ s'.state = "closed")
  <2>1. s' = s \/ s' = Finish(s)
    BY DEF OnDisconnect
  <2> QED
    BY <1>0, <2>1, Finishes DEF Kept
<1>3. (agent \in AgentRec)' /\ agent'.holding = agent.holding
  <2> DEFINE o == agent.ours \/ fatal
             f == agent.finished \/ fatal
             h == IF fatal \/ agent.held = "fatal" THEN "fatal" ELSE "some"
             a == [agent EXCEPT !.held = h, !.ours = o]
             b == [agent EXCEPT !.finished = f, !.ours = o]
  <2>1. agent' = a \/ agent' = b
    BY DEF OnDisconnect
  <2>2. o \in BOOLEAN /\ f \in BOOLEAN /\ h \in {"none", "some", "fatal"}
    OBVIOUS
  <2> HIDE DEF o, f, h
  <2>3. a \in AgentRec
    BY <1>0, <2>2, ZenonT(60) DEF AgentRec
  <2>4. b \in AgentRec
    BY <1>0, <2>2, ZenonT(60) DEF AgentRec
  <2>5. a.holding = agent.holding /\ b.holding = agent.holding
    BY <1>0 DEF AgentRec
  <2> QED
    BY <2>1, <2>3, <2>4, <2>5
<1>4. EarlyInv' /\ (early \subseteq {"unreg", "disconnect"})'
  <2>1. CASE agent.holding
    BY <1>0, <1>1, <2>1 DEF OnDisconnect, EarlyInv, UnregisterWaits, HeldUntilConflict
  <2>2. CASE ~agent.holding
    <3>1. early' = early \cup EarlyReport
      BY <2>2 DEF OnDisconnect
    <3>2. \A e \in EarlyReport : e = "disconnect" /\ HasReplaced(s)
      BY <1>0, Reports
    <3>3. HasReplaced(s) => replaced > 0 /\ replaced # 1
      BY <1>0, <2>2 DEF HoldInv, HasReplaced
    <3>4. replaced <= 1 => EarlyReport = {}
      BY <1>0, <3>2, <3>3
    <3>5. EarlyReport \subseteq {"disconnect"} /\ "unreg" # "disconnect"
      BY <3>2
    <3> QED
      BY <1>0, <1>1, <3>1, <3>4, <3>5 DEF EarlyInv, UnregisterWaits, HeldUntilConflict
  <2> QED
    BY <2>1, <2>2
<1>5. DeadInv'
  BY <1>0, <1>1, <1>2, DeadKept DEF Kept
<1> QED
  BY <1>0, <1>1, <1>2, <1>3, <1>4, <1>5, StepKept

-----------------------------------------------------------------------------
(* The invariant                                                             *)

\* The session before its first connection.
LEMMA InitInv ==
  ASSUME Init
  PROVE  SessionInv
<1>1. s \in SessionRec
  <2>1. << >> \in Seq(Items) /\ 0 \in 0 .. NConns
    BY SessionAssumption
  <2> QED
    BY <2>1, NoTimerOff DEF Init, SessionRec, States, Frames
<1>2. /\ s.state = "connecting" /\ s.conn = 0 /\ ~s.connected /\ ~s.takenOver /\ s.unreg = 0 /\ s.queue = << >>
      /\ s.overload = NoTimer /\ ~Ending(s)
  BY DEF Init, Ending
<1>3. TypeOK
  <2>1. << >> \in Seq(Frames) /\ 0 \in 0 .. NConns /\ 0 \in 0 .. MaxReplaced
    BY SessionAssumption
  <2>2. agent \in AgentRec
    BY DEF Init, AgentRec
  <2> QED
    BY <1>1, <2>1, <2>2 DEF Init, TypeOK, NetType
<1>4. LandInv
  BY <1>2, SessionAssumption DEF Init, LandInv, Conns
<1>5. 1 .. Len(s.queue) = {} /\ \A c \in Conns : pending[c] = << >> /\ 1 .. Len(pending[c]) = {}
  BY <1>2 DEF Init
<1>6. FrameInv(s, pending) /\ TakeInv(s) /\ HoldInv
  BY <1>5 DEF FrameInv, TakeInv, HoldInv
<1>7. AccountInv(s, pending)
  BY <1>2, NoTimerOff DEF AccountInv
<1>8. DeadInv /\ EarlyInv
  BY <1>2 DEF Init, DeadInv, EarlyInv, UnregisterWaits, HeldUntilConflict
<1> QED
  BY <1>3, <1>4, <1>6, <1>7, <1>8 DEF SessionInv

\* Nothing happens.
LEMMA StutterStep ==
  ASSUME SessionInv, UNCHANGED vars
  PROVE  SessionInv'
<1>1. /\ s' = s /\ up' = up /\ active' = active /\ welcomed' = welcomed /\ bound' = bound /\ left' = left
      /\ pending' = pending /\ agent' = agent /\ ops' = ops /\ replaced' = replaced /\ early' = early
  BY DEF vars
<1>2. /\ Good(s, pending) /\ pending \in Pendings /\ agent \in AgentRec /\ ops \in Nat
      /\ early \subseteq {"unreg", "disconnect"} /\ DeadInv /\ EarlyInv
  BY Parts
<1>3. Kept(s, s', pending')
  BY <1>1, <1>2 DEF Kept
<1>4. DeadInv' /\ EarlyInv'
  BY <1>1, <1>2 DEF DeadInv, EarlyInv, UnregisterWaits, HeldUntilConflict
<1> QED
  BY <1>1, <1>2, <1>3, <1>4, StepKept

\* One step for each operation of the session, the agent, the client and the edge.
LEMMA NextInv ==
  ASSUME SessionInv, [Next]_vars
  PROVE  SessionInv'
<1>1. CASE Flush
  BY <1>1, FlushStep
<1>2. CASE CloseAsync
  BY <1>2, CloseStep
<1>3. CASE TrRun \/ TrEnds \/ TrEnded
  BY <1>3, TransportStep
<1>4. CASE RetryFires \/ OverloadFires \/ UnregBudget
  BY <1>4, TimerStep
<1>5. ASSUME NEW c \in Conns, Land(c) \/ OnWelcome(c) \/ Bind(c) \/ ConnEnds(c) \/ OnConnEnd(c) PROVE SessionInv'
  BY <1>5, LandStep, WelcomeStep, BindStep, EndStep, ConnEndStep
<1>6. ASSUME NEW c \in Conns, Reply(c) \/ OnReplaced(c) PROVE SessionInv'
  BY <1>6, ReplyStep, ReplacedStep
<1>7. ASSUME NEW c \in Conns, NEW msg \in EdgeOps, EdgeOp(c, msg) PROVE SessionInv'
  BY <1>7, EdgeStep
<1>8. ASSUME NEW c \in Conns, NEW fatal \in BOOLEAN, OnDisconnect(c, fatal) PROVE SessionInv'
  BY <1>8, DisconnectStep
<1>9. CASE UNCHANGED vars
  BY <1>9, StutterStep
<1> QED
  BY <1>1, <1>2, <1>3, <1>4, <1>5, <1>6, <1>7, <1>8, <1>9 DEF Next

\* What the session remembers of its frames is what is in flight, whatever order the edge's
\* messages, the timers, the connections and the close come in (session.go, agent.go).
THEOREM SessionInvariant == Spec => []SessionInv
<1>1. Init => SessionInv
  BY InitInv
<1>2. SessionInv /\ [Next]_vars => SessionInv'
  BY NextInv
<1> QED
  BY <1>1, <1>2, PTL DEF Spec

\* A register queued for a connection has nothing ahead of it there, and a register on its
\* way is the first.
LEMMA OneAtATime ==
  ASSUME SessionInv
  PROVE  OneRegister
<1>1. Good(s, pending) /\ pending \in Pendings /\ FrameInv(s, pending) /\ s \in SessionRec
  BY Parts DEF Good
<1>2. s.queue \in Seq(Items)
  BY <1>1, Fields
<1> SUFFICES ASSUME NEW c \in Conns PROVE InFlight(c, "register") <= 1
  BY DEF OneRegister
<1> DEFINE A == {i \in DOMAIN s.queue : s.queue[i].on = c /\ s.queue[i].do = "register"}
           B == {i \in DOMAIN pending[c] : pending[c][i] = "register"}
<1>3. InFlight(c, "register") = Cardinality(A) + Cardinality(B)
  BY DEF InFlight
<1>4. DOMAIN s.queue = 1 .. Len(s.queue) /\ DOMAIN pending[c] = 1 .. Len(pending[c])
  BY <1>1, <1>2 DEF Pendings
<1>5. ASSUME NEW i \in A PROVE A = {i} /\ B = {}
  <2>1. A = {i}
    BY <1>1, <1>4 DEF FrameInv
  <2>2. pending[c] = << >>
    BY <1>1, <1>4 DEF FrameInv
  <2>3. 1 .. Len(pending[c]) = {}
    BY <2>2
  <2> QED
    BY <1>4, <2>1, <2>3
<1>6. B = {} \/ B = {1}
  BY <1>1, <1>4 DEF FrameInv
<1> HIDE DEF A, B
<1>7. Cardinality({}) = 0 /\ Cardinality({1}) = 1 /\ \A i \in A : Cardinality({i}) = 1
  BY FS_EmptySet, FS_Singleton
<1>8. CASE A = {}
  BY <1>3, <1>6, <1>7, <1>8
<1>9. CASE A # {}
  <2>1. PICK i \in A : TRUE
    BY <1>9
  <2>2. A = {i} /\ B = {}
    BY <1>5
  <2> QED
    BY <1>3, <1>7, <2>2
<1> QED
  BY <1>8, <1>9

\* registerLocked, the replies, the re-sends and the hand-overs leave one register in flight on
\* a connection at most, for any number of connections and messages (session.go).
THEOREM AlwaysOneRegister == Spec => []OneRegister
<1>1. SessionInv => OneRegister
  BY OneAtATime
<1> QED
  BY <1>1, SessionInvariant, PTL

\* Once the end of every connection was seen the service does not look registered, whatever
\* arrives late (onApp's checks of the message's connection).
THEOREM AlwaysDeadNotRegistered == Spec => []DeadNotRegistered
<1>1. SessionInv => DeadNotRegistered
  <2> SUFFICES ASSUME SessionInv, left = {c \in Conns : up[c] # "none"}
               PROVE  s.state \notin {"registering", "registered"}
    BY DEF DeadNotRegistered
  <2>1. LandInv /\ DeadInv /\ s.conn \in 0 .. NConns
    BY Parts
  <2>2. CASE Ending(s)
    BY <2>2 DEF Ending
  <2>3. CASE ~Ending(s)
    <3>1. s.conn = welcomed
      BY <2>1, <2>3 DEF LandInv
    <3>2. \A c \in Conns : up[c] # "none" => c <= s.conn
      BY <2>1, <3>1 DEF LandInv
    <3>3. s.conn # 0 => s.conn \in Conns /\ s.conn <= welcomed
      BY <2>1, <3>1, SessionAssumption DEF Conns
    <3>4. s.conn = 0 \/ s.conn \in left
      BY <2>1, <3>3 DEF LandInv
    <3> QED
      BY <2>1, <3>2, <3>4 DEF DeadInv
  <2> QED
    BY <2>2, <2>3
<1> QED
  BY <1>1, SessionInvariant, PTL

\* However often the edge sends drain{replaced} and connections come and go, no answer to a
\* register ends the wait for the unregister (closePreReply in onAppErrorLocked and
\* onRegisteredLocked).
THEOREM AlwaysUnregisterWaits == Spec => []UnregisterWaits
<1>1. SessionInv => UnregisterWaits
  BY Parts DEF EarlyInv
<1> QED
  BY <1>1, SessionInvariant, PTL

\* Until a second drain{replaced} comes, no disconnect is reported before the conflict event of
\* the first (onDrain's hold and its release).
THEOREM AlwaysHeldUntilConflict == Spec => []HeldUntilConflict
<1>1. SessionInv => HeldUntilConflict
  BY Parts DEF EarlyInv
<1> QED
  BY <1>1, SessionInvariant, PTL
=============================================================================
