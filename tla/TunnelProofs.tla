---------------------------- MODULE TunnelProofs ----------------------------
(***************************************************************************)
(* Proofs about Tunnel, for any number of callers, calls and agent events: *)
(* TunnelInv is inductive, and OneConnection, LastWins and                 *)
(* ReturnsAfterClose follow from it.                                       *)
(*                                                                         *)
(* A method maps the Tunnel to its next value x with mu held, and          *)
(* unlockAndFlush lets go of x.  So the helpers are shown to keep the parts*)
(* of the invariant one after another, and Unlocks shows once and for all  *)
(* that letting go of a good x leads to a good state.                      *)
(***************************************************************************)
EXTENDS Tunnel, FiniteSetTheorems, TLAPS

-----------------------------------------------------------------------------
(* The agent calls that are still to run                                     *)

\* The calls still to run are the ones of b and q.
SameTodo(b, q, c, r) ==
  TodoLen(c, r) = TodoLen(b, q) /\ \A i \in 1 .. TodoLen(b, q) : Todo(c, r, i) = Todo(b, q, i)

\* They are items.
LEMMA TodoItems ==
  ASSUME NEW b \in Seq(Items), NEW q \in Seq(Items)
  PROVE  TodoLen(b, q) \in Nat /\ \A i \in 1 .. TodoLen(b, q) : Todo(b, q, i) \in Items
<1>1. Len(b) \in Nat /\ Len(q) \in Nat
  OBVIOUS
<1>2. ASSUME NEW i \in 1 .. TodoLen(b, q) PROVE Todo(b, q, i) \in Items
  <2>1. CASE i <= Len(b)
    BY <1>1, <2>1 DEF Todo, TodoLen
  <2>2. CASE ~(i <= Len(b))
    <3>1. i - Len(b) \in 1 .. Len(q)
      BY <1>1, <2>2 DEF TodoLen
    <3> QED
      BY <2>2, <3>1 DEF Todo
  <2> QED
    BY <2>1, <2>2
<1> QED
  BY <1>1, <1>2 DEF TodoLen

\* A call that is queued comes last.
LEMMA TodoAppend ==
  ASSUME NEW b \in Seq(Items), NEW q \in Seq(Items), NEW item \in Items
  PROVE  /\ TodoLen(b, Append(q, item)) = TodoLen(b, q) + 1
         /\ \A i \in 1 .. TodoLen(b, q) : Todo(b, Append(q, item), i) = Todo(b, q, i)
         /\ Todo(b, Append(q, item), TodoLen(b, q) + 1) = item
<1>1. /\ Len(b) \in Nat /\ Len(q) \in Nat /\ Len(Append(q, item)) = Len(q) + 1
      /\ Append(q, item)[Len(q) + 1] = item /\ \A k \in 1 .. Len(q) : Append(q, item)[k] = q[k]
  OBVIOUS
<1>2. ASSUME NEW i \in 1 .. TodoLen(b, q) PROVE Todo(b, Append(q, item), i) = Todo(b, q, i)
  <2>1. CASE i <= Len(b)
    BY <2>1 DEF Todo
  <2>2. CASE ~(i <= Len(b))
    <3>1. i - Len(b) \in 1 .. Len(q)
      BY <1>1, <2>2 DEF TodoLen
    <3> QED
      BY <1>1, <2>2, <3>1 DEF Todo
  <2> QED
    BY <2>1, <2>2
<1>3. TodoLen(b, Append(q, item)) = TodoLen(b, q) + 1
  BY <1>1 DEF TodoLen
<1>4. Todo(b, Append(q, item), TodoLen(b, q) + 1) = item
  <2>1. ~(TodoLen(b, q) + 1 <= Len(b)) /\ (TodoLen(b, q) + 1) - Len(b) = Len(q) + 1
    BY <1>1 DEF TodoLen
  <2> QED
    BY <1>1, <2>1 DEF Todo
<1> QED
  BY <1>2, <1>3, <1>4

\* The first call of a batch is run.
LEMMA TodoTail ==
  ASSUME NEW b \in Seq(Items), NEW q \in Seq(Items), b # << >>
  PROVE  /\ Tail(b) \in Seq(Items) /\ TodoLen(b, q) \in Nat /\ TodoLen(b, q) >= 1
         /\ TodoLen(Tail(b), q) = TodoLen(b, q) - 1 /\ Head(b) = Todo(b, q, 1)
         /\ \A i \in 1 .. TodoLen(b, q) - 1 : Todo(Tail(b), q, i) = Todo(b, q, i + 1)
<1>1. /\ Len(b) \in Nat \ {0} /\ Len(q) \in Nat /\ Tail(b) \in Seq(Items) /\ Len(Tail(b)) = Len(b) - 1
      /\ Head(b) = b[1] /\ \A k \in 1 .. Len(b) - 1 : Tail(b)[k] = b[k + 1]
  OBVIOUS
<1>2. ASSUME NEW i \in 1 .. TodoLen(b, q) - 1 PROVE Todo(Tail(b), q, i) = Todo(b, q, i + 1)
  <2>1. CASE i <= Len(b) - 1
    BY <1>1, <2>1 DEF Todo, TodoLen
  <2>2. CASE ~(i <= Len(b) - 1)
    <3>1. i - (Len(b) - 1) = (i + 1) - Len(b) /\ ~(i + 1 <= Len(b))
      BY <1>1, <2>2 DEF TodoLen
    <3> QED
      BY <1>1, <2>2, <3>1 DEF Todo
  <2> QED
    BY <2>1, <2>2
<1>3. TodoLen(Tail(b), q) = TodoLen(b, q) - 1 /\ TodoLen(b, q) \in Nat /\ TodoLen(b, q) >= 1
  BY <1>1 DEF TodoLen
<1>4. Head(b) = Todo(b, q, 1)
  BY <1>1 DEF Todo
<1> QED
  BY <1>1, <1>2, <1>3, <1>4

\* A batch is taken.
LEMMA TodoTaken ==
  ASSUME NEW q \in Seq(Items)
  PROVE  SameTodo(<< >>, q, q, << >>)
<1>1. Len(q) \in Nat /\ Len(<< >>) = 0
  OBVIOUS
<1>2. ASSUME NEW i \in 1 .. Len(q) PROVE Todo(q, << >>, i) = Todo(<< >>, q, i)
  <2>1. i <= Len(q) /\ ~(i <= 0) /\ i - 0 = i
    BY <1>1
  <2> QED
    BY <1>1, <2>1 DEF Todo
<1> QED
  BY <1>1, <1>2 DEF SameTodo, TodoLen

-----------------------------------------------------------------------------
(* What the helpers change                                                   *)

\* The fields that the helpers below leave alone, each but its own.
SameConfigs(x, y) ==
  /\ y.desired = x.desired /\ y.pendingApply = x.pendingApply /\ y.applied = x.applied
  /\ y.activeCfg = x.activeCfg
SamePhase(x, y) == y.gen = x.gen /\ y.active = x.active /\ y.draining = x.draining /\ y.queue = x.queue
SameRest(x, y) == y.disposed = x.disposed /\ y.flushing = x.flushing

\* setStatusLocked, by what it leaves alone.
LEMMA SetStatusDoes ==
  ASSUME NEW x \in TunnelRec, NEW next \in Statuses
  PROVE  LET y == SetStatus(x, next) IN
         /\ y \in TunnelRec /\ y.status = next /\ SameConfigs(x, y) /\ SamePhase(x, y) /\ SameRest(x, y)
         /\ y.idle = x.idle
<1>1. CASE next = x.status
  BY <1>1 DEF SetStatus, SameConfigs, SamePhase, SameRest
<1>2. CASE next # x.status
  <2> DEFINE c == Append(x.callbacks, next)
             y == [x EXCEPT !.status = next, !.callbacks = c]
  <2>1. c \in Seq(Statuses)
    BY DEF TunnelRec
  <2>2. SetStatus(x, next) = y
    BY <1>2 DEF SetStatus
  <2> HIDE DEF c
  <2>3. y \in TunnelRec
    BY <2>1, ZenonT(60) DEF TunnelRec
  <2>4. y.status = next /\ SameConfigs(x, y) /\ SamePhase(x, y) /\ SameRest(x, y) /\ y.idle = x.idle
    BY DEF TunnelRec, SameConfigs, SamePhase, SameRest
  <2> QED
    BY <2>2, <2>3, <2>4
<1> QED
  BY <1>1, <1>2

\* checkIdleLocked.
LEMMA CheckIdleDoes ==
  ASSUME NEW x \in TunnelRec
  PROVE  LET y == CheckIdle(x) IN
         /\ y \in TunnelRec /\ y.status = x.status /\ SameConfigs(x, y) /\ SamePhase(x, y) /\ SameRest(x, y)
         /\ y.idle = IF Idle(x) THEN x.idle + 1 ELSE x.idle
<1>1. CASE ~Idle(x)
  BY <1>1 DEF CheckIdle, SameConfigs, SamePhase, SameRest
<1>2. CASE Idle(x)
  <2> DEFINE k == x.idle + 1
             d == IF x.disposeTimer THEN "closed" ELSE x.disposeDone
             y == [x EXCEPT !.idle = k, !.disposeTimer = FALSE, !.disposeDone = d]
  <2>1. k \in Nat /\ d \in {"none", "open", "closed"}
    BY DEF TunnelRec
  <2>2. CheckIdle(x) = y
    BY <1>2 DEF CheckIdle
  <2> HIDE DEF d
  <2>3. y \in TunnelRec
    <3> HIDE DEF k
    <3> QED
      BY <2>1, ZenonT(60) DEF TunnelRec
  <2>4. /\ y.status = x.status /\ SameConfigs(x, y) /\ SamePhase(x, y) /\ SameRest(x, y)
        /\ y.idle = k
    BY DEF TunnelRec, SameConfigs, SamePhase, SameRest
  <2> QED
    BY <1>2, <2>2, <2>3, <2>4
<1> QED
  BY <1>1, <1>2

\* An agent call is queued.
LEMMA DoDoes ==
  ASSUME NEW x \in TunnelRec, NEW what \in {"pump", "start", "close"}, NEW g \in Nat
  PROVE  LET y == Do(x, what, g) IN
         /\ y \in TunnelRec /\ y.status = x.status /\ SameConfigs(x, y) /\ SameRest(x, y) /\ y.idle = x.idle
         /\ y.gen = x.gen /\ y.active = x.active /\ y.draining = x.draining
         /\ y.queue = Append(x.queue, [do |-> what, gen |-> g])
<1> DEFINE q == Append(x.queue, [do |-> what, gen |-> g])
           y == [x EXCEPT !.queue = q]
<1>1. q \in Seq(Items)
  BY DEF TunnelRec, Items
<1>2. Do(x, what, g) = y
  BY DEF Do
<1> HIDE DEF q
<1>3. y \in TunnelRec
  BY <1>1, ZenonT(60) DEF TunnelRec
<1>4. /\ y.status = x.status /\ SameConfigs(x, y) /\ SameRest(x, y) /\ y.idle = x.idle
      /\ y.gen = x.gen /\ y.active = x.active /\ y.draining = x.draining /\ y.queue = q
  BY DEF TunnelRec, SameConfigs, SameRest
<1> QED
  BY <1>2, <1>3, <1>4 DEF q

\* The generation of x has ended in y.
Detached(x, y) ==
  /\ y.active = 0 /\ y.gen = x.gen + 1 /\ y.idle = x.idle
  /\ x.active = 0 => y.draining = x.draining /\ y.queue = x.queue
  /\ x.active # 0 => /\ y.draining = x.draining + 1
                     /\ y.queue = Append(x.queue, [do |-> "close", gen |-> x.active])

\* detachLocked.
LEMMA DetachDoes ==
  ASSUME NEW x \in TunnelRec
  PROVE  LET y == Detach(x) IN
         /\ y \in TunnelRec /\ Detached(x, y) /\ SameRest(x, y) /\ y.status = x.status
         /\ y.desired = x.desired /\ y.pendingApply = x.pendingApply /\ y.applied = x.applied
         /\ y.activeCfg = None
<1> DEFINE g == x.gen + 1
           y == [x EXCEPT !.gen = g, !.active = 0, !.activeCfg = None]
<1>1. g \in Nat /\ None \in Configs /\ 0 \in Nat
  BY DEF TunnelRec, None, Configs, Kinds
<1>2. Detach(x) = IF x.active = 0 THEN y ELSE Do([y EXCEPT !.draining = @ + 1], "close", x.active)
  BY DEF Detach
<1>3. y \in TunnelRec
  <2> HIDE DEF g
  <2> QED
    BY <1>1, ZenonT(60) DEF TunnelRec
<1>4. /\ y.gen = x.gen + 1 /\ y.active = 0 /\ y.activeCfg = None /\ y.draining = x.draining /\ y.queue = x.queue
      /\ SameRest(x, y) /\ y.status = x.status /\ y.desired = x.desired /\ y.idle = x.idle
      /\ y.pendingApply = x.pendingApply /\ y.applied = x.applied
  BY DEF TunnelRec, SameRest
<1> HIDE DEF y
<1>5. CASE x.active = 0
  BY <1>2, <1>3, <1>4, <1>5 DEF Detached
<1>6. CASE x.active # 0
  <2> DEFINE k == y.draining + 1
             z == [y EXCEPT !.draining = k]
  <2>1. k \in Nat /\ x.active \in Nat
    BY <1>3 DEF TunnelRec
  <2>2. z \in TunnelRec
    <3> HIDE DEF k
    <3> QED
      BY <1>3, <2>1, ZenonT(60) DEF TunnelRec
  <2>3. /\ z.gen = y.gen /\ z.active = y.active /\ z.activeCfg = y.activeCfg /\ z.draining = k /\ z.queue = y.queue
        /\ SameRest(y, z) /\ z.status = y.status /\ z.desired = y.desired /\ z.idle = y.idle
        /\ z.pendingApply = y.pendingApply /\ z.applied = y.applied
    BY <1>3 DEF TunnelRec, SameRest
  <2>4. Detach(x) = Do(z, "close", x.active)
    BY <1>2, <1>6
  <2> HIDE DEF z
  <2> QED
    BY <1>4, <1>6, <2>1, <2>2, <2>3, <2>4, DoDoes DEF Detached, SameRest, SameConfigs
<1> QED
  BY <1>5, <1>6

\* forgetLocked.
LEMMA ForgetDoes ==
  ASSUME NEW x \in TunnelRec, NEW cfg
  PROVE  LET y == Forget(x, cfg) IN
         /\ y \in TunnelRec /\ y.status = x.status /\ SamePhase(x, y) /\ SameRest(x, y) /\ y.idle = x.idle
         /\ y.pendingApply = x.pendingApply /\ y.applied = x.applied /\ y.activeCfg = x.activeCfg
         /\ y.desired = IF x.desired = cfg THEN None ELSE x.desired
<1>1. CASE x.desired # cfg
  BY <1>1 DEF Forget, SamePhase, SameRest
<1>2. CASE x.desired = cfg
  <2> DEFINE y == [x EXCEPT !.desired = None]
  <2>1. None \in Configs
    BY DEF None, Configs, Kinds
  <2>2. y \in TunnelRec
    BY <2>1, ZenonT(60) DEF TunnelRec
  <2>3. /\ y.status = x.status /\ SamePhase(x, y) /\ SameRest(x, y) /\ y.idle = x.idle
        /\ y.pendingApply = x.pendingApply /\ y.applied = x.applied /\ y.activeCfg = x.activeCfg
        /\ y.desired = None
    BY DEF TunnelRec, SamePhase, SameRest
  <2> QED
    BY <1>2, <2>2, <2>3 DEF Forget
<1> QED
  BY <1>1, <1>2

\* conflictedLocked and failLocked.
LEMMA FailDoes ==
  ASSUME NEW x \in TunnelRec, NEW cfg, NEW status \in Statuses
  PROVE  LET y == Fail(x, cfg, status) IN
         /\ y \in TunnelRec /\ Detached(x, y) /\ SameRest(x, y) /\ y.status = status
         /\ y.desired = (IF x.desired = cfg THEN None ELSE x.desired)
         /\ y.pendingApply = x.pendingApply /\ y.applied = x.applied /\ y.activeCfg = None
<1> DEFINE f == Forget(x, cfg)
           d == Detach(f)
           y == SetStatus(d, status)
<1>1. /\ f \in TunnelRec /\ SamePhase(x, f) /\ SameRest(x, f) /\ f.idle = x.idle
      /\ f.pendingApply = x.pendingApply /\ f.applied = x.applied
      /\ f.desired = IF x.desired = cfg THEN None ELSE x.desired
  BY ForgetDoes
<1>2. y = Fail(x, cfg, status)
  BY DEF Fail
<1> HIDE DEF f
<1>3. /\ d \in TunnelRec /\ Detached(f, d) /\ SameRest(f, d)
      /\ d.desired = f.desired /\ d.pendingApply = f.pendingApply /\ d.applied = f.applied /\ d.activeCfg = None
  BY <1>1, DetachDoes
<1> HIDE DEF d
<1>4. y \in TunnelRec /\ y.status = status /\ SameConfigs(d, y) /\ SamePhase(d, y) /\ SameRest(d, y) /\ y.idle = d.idle
  BY <1>3, SetStatusDoes
<1> HIDE DEF y
<1>5. Detached(x, y)
  BY <1>1, <1>3, <1>4 DEF Detached, SamePhase
<1> QED
  BY <1>1, <1>2, <1>3, <1>4, <1>5 DEF SameRest, SameConfigs

\* startLocked with nothing active: the config fails at once...
LEMMA StartFails ==
  ASSUME NEW x \in TunnelRec, NEW cfg \in Configs, x.active = 0, cfg.kind = "bad"
  PROVE  LET y == Start(x, cfg) IN
         /\ y \in TunnelRec /\ SameRest(x, y) /\ y.status = "error" /\ y.active = 0 /\ y.gen = x.gen + 2
         /\ y.draining = x.draining /\ y.queue = x.queue /\ y.idle = x.idle
         /\ y.desired = (IF x.desired = cfg THEN None ELSE x.desired)
         /\ y.pendingApply = x.pendingApply /\ y.applied = x.applied /\ y.activeCfg = None
<1> DEFINE g == x.gen + 1
           u == [x EXCEPT !.gen = g]
           v == SetStatus(u, "connecting")
           y == Fail(v, cfg, "error")
<1>1. g \in Nat /\ "connecting" \in Statuses /\ "error" \in Statuses
  BY DEF TunnelRec, Statuses, Trouble
<1>2. u \in TunnelRec
  <2> HIDE DEF g
  <2> QED
    BY <1>1, ZenonT(60) DEF TunnelRec
<1>3. /\ u.gen = g /\ u.active = x.active /\ u.draining = x.draining /\ u.queue = x.queue
      /\ SameConfigs(x, u) /\ SameRest(x, u) /\ u.idle = x.idle
  BY DEF TunnelRec, SameConfigs, SameRest
<1>4. Start(x, cfg) = y
  BY DEF Start
<1> HIDE DEF u
<1>5. v \in TunnelRec /\ SameConfigs(u, v) /\ SamePhase(u, v) /\ SameRest(u, v) /\ v.idle = u.idle
  BY <1>1, <1>2, SetStatusDoes
<1> HIDE DEF v
<1>6. /\ y \in TunnelRec /\ Detached(v, y) /\ SameRest(v, y) /\ y.status = "error"
      /\ y.desired = (IF v.desired = cfg THEN None ELSE v.desired)
      /\ y.pendingApply = v.pendingApply /\ y.applied = v.applied /\ y.activeCfg = None
  BY <1>1, <1>5, FailDoes
<1> HIDE DEF y
<1>7. y.active = 0 /\ y.gen = x.gen + 2 /\ y.draining = x.draining /\ y.queue = x.queue /\ y.idle = x.idle
  BY <1>3, <1>5, <1>6 DEF Detached, SamePhase, TunnelRec
<1> QED
  BY <1>3, <1>4, <1>5, <1>6, <1>7 DEF SameConfigs, SameRest

\* ...or a generation begins.
LEMMA StartBegins ==
  ASSUME NEW x \in TunnelRec, NEW cfg \in Configs, cfg.kind # "bad"
  PROVE  LET y == Start(x, cfg) IN
         /\ y \in TunnelRec /\ SameRest(x, y) /\ y.status = "connecting"
         /\ y.gen = x.gen + 1 /\ y.active = y.gen /\ y.draining = x.draining /\ y.idle = x.idle
         /\ y.queue = Append(x.queue, [do |-> "start", gen |-> y.gen])
         /\ y.desired = x.desired /\ y.pendingApply = x.pendingApply /\ y.applied = x.applied
         /\ y.activeCfg = cfg
<1> DEFINE g == x.gen + 1
           u == [x EXCEPT !.gen = g]
           v == SetStatus(u, "connecting")
           w == [v EXCEPT !.active = v.gen, !.activeCfg = cfg]
<1>1. g \in Nat /\ "connecting" \in Statuses
  BY DEF TunnelRec, Statuses, Trouble
<1>2. u \in TunnelRec
  <2> HIDE DEF g
  <2> QED
    BY <1>1, ZenonT(60) DEF TunnelRec
<1>3. /\ u.gen = g /\ u.active = x.active /\ u.draining = x.draining /\ u.queue = x.queue
      /\ SameConfigs(x, u) /\ SameRest(x, u) /\ u.idle = x.idle
  BY DEF TunnelRec, SameConfigs, SameRest
<1>4. Start(x, cfg) = Do(w, "start", v.gen)
  BY DEF Start
<1> HIDE DEF u
<1>5. /\ v \in TunnelRec /\ v.status = "connecting" /\ SameConfigs(u, v) /\ SamePhase(u, v) /\ SameRest(u, v)
      /\ v.idle = u.idle
  BY <1>1, <1>2, SetStatusDoes
<1> HIDE DEF v
<1>6. v.gen \in Nat
  BY <1>5 DEF TunnelRec
<1>7. w \in TunnelRec
  BY <1>5, <1>6, ZenonT(60) DEF TunnelRec
<1>8. /\ w.status = v.status /\ w.active = v.gen /\ w.activeCfg = cfg /\ w.gen = v.gen /\ w.draining = v.draining
      /\ w.queue = v.queue /\ SameRest(v, w) /\ w.idle = v.idle
      /\ w.desired = v.desired /\ w.pendingApply = v.pendingApply /\ w.applied = v.applied
  BY <1>5 DEF TunnelRec, SameRest
<1> HIDE DEF w
<1> DEFINE y == Do(w, "start", v.gen)
<1>9. /\ y \in TunnelRec /\ y.status = w.status /\ SameConfigs(w, y) /\ SameRest(w, y) /\ y.idle = w.idle
      /\ y.gen = w.gen /\ y.active = w.active /\ y.draining = w.draining
      /\ y.queue = Append(w.queue, [do |-> "start", gen |-> v.gen])
  BY <1>6, <1>7, DoDoes
<1> HIDE DEF y
<1>10. /\ y.gen = x.gen + 1 /\ y.active = y.gen /\ y.draining = x.draining /\ y.idle = x.idle
       /\ y.queue = Append(x.queue, [do |-> "start", gen |-> y.gen])
  BY <1>3, <1>5, <1>8, <1>9 DEF SamePhase
<1>11. y.desired = x.desired /\ y.pendingApply = x.pendingApply /\ y.applied = x.applied /\ y.activeCfg = cfg
  BY <1>3, <1>5, <1>8, <1>9 DEF SameConfigs
<1>12. SameRest(x, y) /\ y.status = "connecting"
  BY <1>3, <1>5, <1>8, <1>9 DEF SameRest
<1> QED
  BY <1>4, <1>9, <1>10, <1>11, <1>12 DEF y

-----------------------------------------------------------------------------
(* The calls still to run, when one is queued or run                         *)

\* A pump is queued.
LEMMA QueuePump ==
  ASSUME NEW b \in Seq(Items), NEW q \in Seq(Items), NEW item \in Items, item.do = "pump", NEW g
  PROVE  LET r == Append(q, item) IN
         /\ PumpsBut(b, q, {}) => PumpsBut(b, r, {})
         /\ ToStart(b, q, g) => ToStart(b, r, g)
         /\ ToClose(b, q, g) => ToClose(b, r, g)
         /\ ToStartAndClose(b, q, g) => ToStartAndClose(b, r, g)
<1> DEFINE r == Append(q, item)
<1>1. /\ TodoLen(b, r) = TodoLen(b, q) + 1 /\ TodoLen(b, q) \in Nat
      /\ \A i \in 1 .. TodoLen(b, q) : Todo(b, r, i) = Todo(b, q, i)
      /\ Todo(b, r, TodoLen(b, q) + 1) = item
  BY TodoAppend, TodoItems
<1> HIDE DEF r
<1>2. \A i \in 1 .. TodoLen(b, r) : i \in 1 .. TodoLen(b, q) \/ i = TodoLen(b, q) + 1
  BY <1>1
<1>3. \A i \in 1 .. TodoLen(b, q) : i \in 1 .. TodoLen(b, r)
  BY <1>1
<1>4. \A P : PumpsBut(b, q, P) => PumpsBut(b, r, P)
  BY <1>1, <1>2 DEF PumpsBut
<1>5. ToStart(b, q, g) => ToStart(b, r, g)
  BY <1>1, <1>3, <1>4 DEF ToStart
<1>6. ToClose(b, q, g) => ToClose(b, r, g)
  BY <1>1, <1>3, <1>4 DEF ToClose
<1>7. ToStartAndClose(b, q, g) => ToStartAndClose(b, r, g)
  BY <1>1, <1>3, <1>4 DEF ToStartAndClose
<1> QED
  BY <1>4, <1>5, <1>6, <1>7 DEF r

\* A start or a close is queued.
LEMMA QueueCall ==
  ASSUME NEW b \in Seq(Items), NEW q \in Seq(Items), NEW g \in Nat
  PROVE  /\ PumpsBut(b, q, {}) => ToStart(b, Append(q, [do |-> "start", gen |-> g]), g)
         /\ PumpsBut(b, q, {}) => ToClose(b, Append(q, [do |-> "close", gen |-> g]), g)
         /\ ToStart(b, q, g) => ToStartAndClose(b, Append(q, [do |-> "close", gen |-> g]), g)
<1>1. ASSUME NEW item \in Items
      PROVE  LET r == Append(q, item)
                 n == TodoLen(b, q) + 1
             IN /\ n \in 1 .. TodoLen(b, r) /\ Todo(b, r, n) = item
                /\ \A i \in 1 .. TodoLen(b, q) : i \in 1 .. TodoLen(b, r) /\ Todo(b, r, i) = Todo(b, q, i) /\ i < n
                /\ \A P : PumpsBut(b, q, P) => PumpsBut(b, r, P \cup {n})
  <2> DEFINE r == Append(q, item)
             n == TodoLen(b, q) + 1
  <2>1. /\ TodoLen(b, r) = n /\ TodoLen(b, q) \in Nat /\ Todo(b, r, n) = item
        /\ \A i \in 1 .. TodoLen(b, q) : Todo(b, r, i) = Todo(b, q, i)
    BY TodoAppend, TodoItems
  <2> HIDE DEF r
  <2>2. \A i \in 1 .. TodoLen(b, r) : i \in 1 .. TodoLen(b, q) \/ i = n
    BY <2>1
  <2>3. \A P : PumpsBut(b, q, P) => PumpsBut(b, r, P \cup {n})
    BY <2>1, <2>2 DEF PumpsBut
  <2>4. n \in 1 .. TodoLen(b, r) /\ \A i \in 1 .. TodoLen(b, q) : i \in 1 .. TodoLen(b, r) /\ i < n
    BY <2>1
  <2> QED
    BY <2>1, <2>3, <2>4 DEF r
<1> DEFINE s == [do |-> "start", gen |-> g]
           c == [do |-> "close", gen |-> g]
           n == TodoLen(b, q) + 1
<1>2. s \in Items /\ c \in Items
  BY DEF Items
<1>3. ASSUME PumpsBut(b, q, {}) PROVE ToStart(b, Append(q, s), g)
  <2>1. n \in 1 .. TodoLen(b, Append(q, s)) /\ Todo(b, Append(q, s), n) = s /\ PumpsBut(b, Append(q, s), {} \cup {n})
    BY <1>1, <1>2, <1>3
  <2>2. {} \cup {n} = {n}
    OBVIOUS
  <2> QED
    BY <2>1, <2>2 DEF ToStart
<1>4. ASSUME PumpsBut(b, q, {}) PROVE ToClose(b, Append(q, c), g)
  <2>1. n \in 1 .. TodoLen(b, Append(q, c)) /\ Todo(b, Append(q, c), n) = c /\ PumpsBut(b, Append(q, c), {} \cup {n})
    BY <1>1, <1>2, <1>4
  <2>2. {} \cup {n} = {n}
    OBVIOUS
  <2> QED
    BY <2>1, <2>2 DEF ToClose
<1>5. ASSUME ToStart(b, q, g) PROVE ToStartAndClose(b, Append(q, c), g)
  <2>1. PICK i \in 1 .. TodoLen(b, q) : Todo(b, q, i) = s /\ PumpsBut(b, q, {i})
    BY <1>5 DEF ToStart
  <2>2. n \in 1 .. TodoLen(b, Append(q, c)) /\ Todo(b, Append(q, c), n) = c /\ PumpsBut(b, Append(q, c), {i} \cup {n})
    BY <1>1, <1>2, <2>1
  <2>3. i \in 1 .. TodoLen(b, Append(q, c)) /\ Todo(b, Append(q, c), i) = s /\ i < n
    BY <1>1, <1>2, <2>1
  <2>4. {i} \cup {n} = {i, n}
    OBVIOUS
  <2> QED
    BY <2>2, <2>3, <2>4 DEF ToStartAndClose
<1> QED
  BY <1>3, <1>4, <1>5

\* The first call of the batch runs.
LEMMA RunsCall ==
  ASSUME NEW b \in Seq(Items), NEW q \in Seq(Items), b # << >>, NEW g
  PROVE  LET s == [do |-> "start", gen |-> g]
             c == [do |-> "close", gen |-> g]
         IN
         /\ PumpsBut(b, q, {}) => Head(b).do = "pump" /\ PumpsBut(Tail(b), q, {})
         /\ ToStart(b, q, g) => \/ Head(b).do = "pump" /\ ToStart(Tail(b), q, g)
                                \/ Head(b) = s /\ PumpsBut(Tail(b), q, {})
         /\ ToClose(b, q, g) => \/ Head(b).do = "pump" /\ ToClose(Tail(b), q, g)
                                \/ Head(b) = c /\ PumpsBut(Tail(b), q, {})
         /\ ToStartAndClose(b, q, g) => \/ Head(b).do = "pump" /\ ToStartAndClose(Tail(b), q, g)
                                        \/ Head(b) = s /\ ToClose(Tail(b), q, g)
<1> DEFINE s == [do |-> "start", gen |-> g]
           c == [do |-> "close", gen |-> g]
           n == TodoLen(b, q)
           d == Tail(b)
<1>1. /\ n \in Nat /\ n >= 1 /\ TodoLen(d, q) = n - 1 /\ Head(b) = Todo(b, q, 1)
      /\ \A i \in 1 .. n - 1 : Todo(d, q, i) = Todo(b, q, i + 1)
  BY TodoTail
<1> HIDE DEF d, n
<1>2. 1 \in 1 .. n /\ \A i \in 1 .. n - 1 : i + 1 \in 1 .. n /\ i + 1 # 1
  BY <1>1
<1>3. \A i \in 1 .. n : i # 1 => i - 1 \in 1 .. n - 1 /\ Todo(d, q, i - 1) = Todo(b, q, i)
  <2> SUFFICES ASSUME NEW i \in 1 .. n, i # 1 PROVE i - 1 \in 1 .. n - 1 /\ Todo(d, q, i - 1) = Todo(b, q, i)
    OBVIOUS
  <2>1. i - 1 \in 1 .. n - 1 /\ (i - 1) + 1 = i
    BY <1>1
  <2> QED
    BY <1>1, <2>1
<1>4. PumpsBut(b, q, {}) => Head(b).do = "pump" /\ PumpsBut(d, q, {})
  BY <1>1, <1>2 DEF PumpsBut, n
<1>5. ASSUME NEW i \in 1 .. n, PumpsBut(b, q, {i})
      PROVE  /\ i = 1 => PumpsBut(d, q, {})
             /\ i # 1 => Head(b).do = "pump" /\ PumpsBut(d, q, {i - 1})
  BY <1>1, <1>2, <1>5 DEF PumpsBut, n
<1>6. ASSUME NEW i \in 1 .. n, NEW j \in 1 .. n, i < j, PumpsBut(b, q, {i, j})
      PROVE  /\ i = 1 => PumpsBut(d, q, {j - 1})
             /\ i # 1 => Head(b).do = "pump" /\ PumpsBut(d, q, {i - 1, j - 1})
  BY <1>1, <1>2, <1>6 DEF PumpsBut, n
<1>7. ToStart(b, q, g) => \/ Head(b).do = "pump" /\ ToStart(d, q, g)
                          \/ Head(b) = s /\ PumpsBut(d, q, {})
  <2> SUFFICES ASSUME ToStart(b, q, g) PROVE \/ Head(b).do = "pump" /\ ToStart(d, q, g)
                                             \/ Head(b) = s /\ PumpsBut(d, q, {})
    OBVIOUS
  <2>1. PICK i \in 1 .. n : Todo(b, q, i) = s /\ PumpsBut(b, q, {i})
    BY DEF ToStart, n
  <2>2. CASE i = 1
    BY <1>1, <1>5, <2>1, <2>2
  <2>3. CASE i # 1
    <3>1. Head(b).do = "pump" /\ PumpsBut(d, q, {i - 1}) /\ i - 1 \in 1 .. TodoLen(d, q) /\ Todo(d, q, i - 1) = s
      BY <1>1, <1>3, <1>5, <2>1, <2>3
    <3> QED
      BY <3>1 DEF ToStart
  <2> QED
    BY <2>2, <2>3
<1>8. ToClose(b, q, g) => \/ Head(b).do = "pump" /\ ToClose(d, q, g)
                          \/ Head(b) = c /\ PumpsBut(d, q, {})
  <2> SUFFICES ASSUME ToClose(b, q, g) PROVE \/ Head(b).do = "pump" /\ ToClose(d, q, g)
                                             \/ Head(b) = c /\ PumpsBut(d, q, {})
    OBVIOUS
  <2>1. PICK i \in 1 .. n : Todo(b, q, i) = c /\ PumpsBut(b, q, {i})
    BY DEF ToClose, n
  <2>2. CASE i = 1
    BY <1>1, <1>5, <2>1, <2>2
  <2>3. CASE i # 1
    <3>1. Head(b).do = "pump" /\ PumpsBut(d, q, {i - 1}) /\ i - 1 \in 1 .. TodoLen(d, q) /\ Todo(d, q, i - 1) = c
      BY <1>1, <1>3, <1>5, <2>1, <2>3
    <3> QED
      BY <3>1 DEF ToClose
  <2> QED
    BY <2>2, <2>3
<1>9. ToStartAndClose(b, q, g) => \/ Head(b).do = "pump" /\ ToStartAndClose(d, q, g)
                                  \/ Head(b) = s /\ ToClose(d, q, g)
  <2> SUFFICES ASSUME ToStartAndClose(b, q, g) PROVE \/ Head(b).do = "pump" /\ ToStartAndClose(d, q, g)
                                                     \/ Head(b) = s /\ ToClose(d, q, g)
    OBVIOUS
  <2>1. PICK i, j \in 1 .. n : i < j /\ Todo(b, q, i) = s /\ Todo(b, q, j) = c /\ PumpsBut(b, q, {i, j})
    BY DEF ToStartAndClose, n
  <2>2. j # 1 /\ j - 1 \in 1 .. TodoLen(d, q) /\ Todo(d, q, j - 1) = c
    BY <1>1, <1>3, <2>1
  <2>3. CASE i = 1
    <3>1. PumpsBut(d, q, {j - 1}) /\ Head(b) = s
      BY <1>1, <1>6, <2>1, <2>3
    <3> QED
      BY <2>2, <3>1 DEF ToClose
  <2>4. CASE i # 1
    <3>1. Head(b).do = "pump" /\ PumpsBut(d, q, {i - 1, j - 1})
      BY <1>6, <2>1, <2>4
    <3>2. i - 1 \in 1 .. TodoLen(d, q) /\ Todo(d, q, i - 1) = s
      BY <1>1, <1>3, <2>1, <2>4
    <3>3. i - 1 < j - 1
      BY <1>1, <2>1
    <3> QED
      BY <2>2, <3>1, <3>2, <3>3 DEF ToStartAndClose
  <2> QED
    BY <2>3, <2>4
<1> QED
  BY <1>4, <1>7, <1>8, <1>9 DEF d

\* The same calls, wherever they wait.
LEMMA SameCalls ==
  ASSUME NEW b \in Seq(Items), NEW q \in Seq(Items), NEW c, NEW r, SameTodo(b, q, c, r), NEW g
  PROVE  /\ PumpsBut(b, q, {}) => PumpsBut(c, r, {})
         /\ ToStart(b, q, g) => ToStart(c, r, g)
         /\ ToClose(b, q, g) => ToClose(c, r, g)
         /\ ToStartAndClose(b, q, g) => ToStartAndClose(c, r, g)
<1>1. \A P : PumpsBut(b, q, P) => PumpsBut(c, r, P)
  BY DEF PumpsBut, SameTodo
<1> QED
  BY <1>1 DEF ToStart, ToClose, ToStartAndClose, SameTodo

-----------------------------------------------------------------------------
(* The generations and the waits, from one value of the Tunnel to the next   *)

Held(x, b, A, ws) == OneAtATime(x, b, A) /\ \A c \in Callers : Kept(x, b, A, ws[c])

\* What the records hold.
LEMMA Numbers ==
  ASSUME NEW x \in TunnelRec
  PROVE  x.gen \in Nat /\ x.active \in Nat /\ x.draining \in Nat /\ x.idle \in Nat /\ x.queue \in Seq(Items)
  BY DEF TunnelRec

\* What a wait was told stays true while nothing older starts.
LEMMA KeptOn ==
  ASSUME NEW x \in TunnelRec, NEW y \in TunnelRec, NEW b, NEW A, NEW w \in Waits, Kept(x, b, A, w),
         y.idle = x.idle, y.gen >= x.gen,
         y.active # 0 => y.active > x.gen \/ (y.active = x.active /\ (x.pendingApply => y.pendingApply)),
         NEW c, NEW B, w.gen <= x.gen /\ Younger(x, b, A, w.gen) => Younger(y, c, B, w.gen)
  PROVE  Kept(y, c, B, w)
<1>1. w.gen \in Nat /\ w.on \in Int
  BY DEF Waits
<1>2. x.gen \in Nat /\ y.gen \in Nat /\ y.active \in Nat
  BY Numbers
<1> QED
  BY <1>1, <1>2 DEF Kept

\* Nothing of the generations changes.
LEMMA HeldSame ==
  ASSUME NEW x \in TunnelRec, NEW y \in TunnelRec, NEW b, NEW A, NEW ws \in [Callers -> Waits], Held(x, b, A, ws),
         SamePhase(x, y), y.idle = x.idle, x.active # 0 /\ x.pendingApply => y.pendingApply
  PROVE  Held(y, b, A, ws)
<1>1. OneAtATime(y, b, A)
  BY DEF Held, OneAtATime, Resting, Running, Closing, SamePhase
<1>2. ASSUME NEW k \in Callers PROVE Kept(y, b, A, ws[k])
  <2>1. Younger(x, b, A, ws[k].gen) => Younger(y, b, A, ws[k].gen)
    BY DEF Younger, SamePhase
  <2>2. y.gen >= x.gen /\ (y.active # 0 => y.active = x.active /\ (x.pendingApply => y.pendingApply))
    BY Numbers DEF SamePhase
  <2> QED
    BY <2>1, <2>2, KeptOn DEF Held
<1> QED
  BY <1>1, <1>2 DEF Held

\* With nothing active a generation number is skipped.
LEMMA HeldSkip ==
  ASSUME NEW x \in TunnelRec, NEW y \in TunnelRec, NEW b, NEW A, NEW ws \in [Callers -> Waits], Held(x, b, A, ws),
         x.active = 0, y.active = 0, y.gen >= x.gen, y.draining = x.draining, y.queue = x.queue, y.idle = x.idle
  PROVE  Held(y, b, A, ws)
<1>0. x.gen \in Nat /\ y.gen \in Nat
  BY Numbers
<1>1. OneAtATime(y, b, A)
  <2>1. CASE Resting(x, b, A)
    BY <2>1 DEF OneAtATime, Resting
  <2>2. CASE Running(x, b, A)
    BY <1>0, <2>2 DEF Running
  <2>3. CASE Closing(x, b, A)
    <3>1. \A g \in 1 .. x.gen - 1 : g \in 1 .. y.gen - 1
      BY <1>0
    <3> QED
      BY <2>3, <3>1 DEF OneAtATime, Closing
  <2> QED
    BY <2>1, <2>2, <2>3 DEF Held, OneAtATime
<1>2. ASSUME NEW k \in Callers PROVE Kept(y, b, A, ws[k])
  <2>1. Younger(x, b, A, ws[k].gen) => Younger(y, b, A, ws[k].gen)
    BY DEF Younger
  <2> QED
    BY <2>1, KeptOn DEF Held
<1> QED
  BY <1>1, <1>2 DEF Held

\* A call that starts nothing old is queued.
LEMMA YoungerQueued ==
  ASSUME NEW x \in TunnelRec, NEW y \in TunnelRec, NEW b \in Seq(Items), NEW A, NEW g \in Nat,
         NEW item \in Items, y.queue = Append(x.queue, item), item.do = "start" => item.gen > g, Younger(x, b, A, g)
  PROVE  Younger(y, b, A, g)
<1>0. x.queue \in Seq(Items)
  BY Numbers
<1>1. /\ TodoLen(b, y.queue) = TodoLen(b, x.queue) + 1 /\ TodoLen(b, x.queue) \in Nat
      /\ \A i \in 1 .. TodoLen(b, x.queue) : Todo(b, y.queue, i) = Todo(b, x.queue, i)
      /\ Todo(b, y.queue, TodoLen(b, x.queue) + 1) = item
  <2>1. TodoLen(b, x.queue) \in Nat
    BY <1>0, TodoItems
  <2>2. /\ TodoLen(b, Append(x.queue, item)) = TodoLen(b, x.queue) + 1
        /\ \A i \in 1 .. TodoLen(b, x.queue) : Todo(b, Append(x.queue, item), i) = Todo(b, x.queue, i)
        /\ Todo(b, Append(x.queue, item), TodoLen(b, x.queue) + 1) = item
    BY <1>0, TodoAppend, Zenon
  <2> QED
    BY <2>1, <2>2, Zenon
<1>2. \A i \in 1 .. TodoLen(b, y.queue) : i \in 1 .. TodoLen(b, x.queue) \/ i = TodoLen(b, x.queue) + 1
  BY <1>1
<1> QED
  BY <1>1, <1>2 DEF Younger

\* The generation ends, and its agent is to be closed.
LEMMA HeldDetach ==
  ASSUME NEW x \in TunnelRec, NEW y \in TunnelRec, NEW b \in Seq(Items), NEW A, NEW ws \in [Callers -> Waits],
         Held(x, b, A, ws), Detached(x, y)
  PROVE  Held(y, b, A, ws)
<1>0. x.gen \in Nat /\ y.gen \in Nat /\ x.queue \in Seq(Items)
  BY Numbers
<1>1. CASE x.active = 0
  BY <1>0, <1>1, HeldSkip DEF Detached
<1>2. CASE x.active # 0
  <2>1. /\ Running(x, b, A) /\ y.active = 0 /\ y.gen = x.gen + 1 /\ y.idle = x.idle
        /\ x.active = x.gen /\ x.draining = 0 /\ y.draining = 1
        /\ y.queue = Append(x.queue, [do |-> "close", gen |-> x.gen])
    BY <1>2 DEF Detached, Held, OneAtATime, Resting, Running, Closing
  <2>2. x.gen \in 1 .. y.gen - 1
    BY <1>0, <2>1 DEF Running
  <2>3. OneAtATime(y, b, A)
    <3>1. CASE A = {} /\ ToStart(b, x.queue, x.gen)
      <4>1. ToStartAndClose(b, y.queue, x.gen)
        BY <1>0, <2>1, <3>1, QueueCall
      <4> QED
        BY <2>1, <2>2, <3>1, <4>1 DEF OneAtATime, Closing
    <3>2. CASE A = {[gen |-> x.gen, dialled |-> TRUE, closing |-> FALSE]} /\ PumpsBut(b, x.queue, {})
      <4>1. ToClose(b, y.queue, x.gen)
        BY <1>0, <2>1, <3>2, QueueCall
      <4> QED
        BY <2>1, <2>2, <3>2, <4>1 DEF OneAtATime, Closing
    <3> QED
      BY <2>1, <3>1, <3>2 DEF Running
  <2>4. ASSUME NEW k \in Callers PROVE Kept(y, b, A, ws[k])
    <3> DEFINE item == [do |-> "close", gen |-> x.gen]
    <3>1. item \in Items /\ item.do # "start" /\ ws[k] \in Waits /\ ws[k].gen \in Nat
      BY <1>0 DEF Items, Waits
    <3>2. Younger(x, b, A, ws[k].gen) => Younger(y, b, A, ws[k].gen)
      BY <2>1, <3>1, YoungerQueued
    <3>3. y.gen >= x.gen
      BY <1>0, <2>1
    <3> QED
      BY <2>1, <3>1, <3>2, <3>3, KeptOn DEF Held
  <2> QED
    BY <2>3, <2>4 DEF Held
<1> QED
  BY <1>1, <1>2

\* A generation begins once there is no other.
LEMMA HeldStart ==
  ASSUME NEW x \in TunnelRec, NEW y \in TunnelRec, NEW b \in Seq(Items), NEW A, NEW ws \in [Callers -> Waits],
         Held(x, b, A, ws), x.active = 0, x.draining = 0,
         y.gen = x.gen + 1, y.active = y.gen, y.draining = x.draining, y.idle = x.idle,
         y.queue = Append(x.queue, [do |-> "start", gen |-> y.gen])
  PROVE  Held(y, b, A, ws)
<1>0. x.gen \in Nat /\ y.gen \in Nat /\ x.queue \in Seq(Items) /\ y.gen > x.gen /\ y.gen >= x.gen
  BY Numbers
<1>1. A = {} /\ PumpsBut(b, x.queue, {})
  BY <1>0 DEF Held, OneAtATime, Resting, Running, Closing
<1>2. OneAtATime(y, b, A)
  <2>1. ToStart(b, y.queue, y.gen)
    BY <1>0, <1>1, QueueCall
  <2> QED
    BY <1>0, <1>1, <2>1 DEF OneAtATime, Running
<1>3. ASSUME NEW k \in Callers PROVE Kept(y, b, A, ws[k])
  <2> DEFINE item == [do |-> "start", gen |-> y.gen]
  <2>1. item \in Items /\ ws[k] \in Waits /\ ws[k].gen \in Nat
    BY <1>0 DEF Items, Waits
  <2>2. ws[k].gen <= x.gen => item.gen > ws[k].gen
    BY <1>0, <2>1
  <2>3. ws[k].gen <= x.gen /\ Younger(x, b, A, ws[k].gen) => Younger(y, b, A, ws[k].gen)
    BY <2>1, <2>2, YoungerQueued
  <2> QED
    BY <1>0, <2>1, <2>3, KeptOn DEF Held
<1> QED
  BY <1>2, <1>3 DEF Held

\* A pump is queued.
LEMMA HeldPump ==
  ASSUME NEW x \in TunnelRec, NEW y \in TunnelRec, NEW b \in Seq(Items), NEW A, NEW ws \in [Callers -> Waits],
         Held(x, b, A, ws), y.gen = x.gen, y.active = x.active, y.draining = x.draining, y.idle = x.idle,
         x.pendingApply => y.pendingApply, y.queue = Append(x.queue, [do |-> "pump", gen |-> 0])
  PROVE  Held(y, b, A, ws)
<1> DEFINE item == [do |-> "pump", gen |-> 0]
<1>0. x.gen \in Nat /\ x.queue \in Seq(Items) /\ item \in Items /\ item.do = "pump" /\ y.gen >= x.gen
  BY Numbers DEF Items
<1>1. \A g : /\ PumpsBut(b, x.queue, {}) => PumpsBut(b, y.queue, {})
             /\ ToStart(b, x.queue, g) => ToStart(b, y.queue, g)
             /\ ToClose(b, x.queue, g) => ToClose(b, y.queue, g)
             /\ ToStartAndClose(b, x.queue, g) => ToStartAndClose(b, y.queue, g)
  BY <1>0, QueuePump
<1>2. OneAtATime(y, b, A)
  <2>1. CASE Resting(x, b, A)
    BY <1>1, <2>1 DEF OneAtATime, Resting
  <2>2. CASE Running(x, b, A)
    BY <1>1, <2>2 DEF OneAtATime, Running
  <2>3. CASE Closing(x, b, A)
    BY <1>1, <2>3 DEF OneAtATime, Closing
  <2> QED
    BY <2>1, <2>2, <2>3 DEF Held, OneAtATime
<1>3. ASSUME NEW k \in Callers PROVE Kept(y, b, A, ws[k])
  <2>1. ws[k] \in Waits /\ ws[k].gen \in Nat
    BY DEF Waits
  <2>2. Younger(x, b, A, ws[k].gen) => Younger(y, b, A, ws[k].gen)
    BY <1>0, <2>1, YoungerQueued
  <2> QED
    BY <1>0, <2>1, <2>2, KeptOn DEF Held
<1> QED
  BY <1>2, <1>3 DEF Held

\* checkIdleLocked: the waits end when no agent is left but one that began after them.
LEMMA HeldIdle ==
  ASSUME NEW x \in TunnelRec, NEW b \in Seq(Items), NEW A, NEW ws \in [Callers -> Waits], Held(x, b, A, ws)
  PROVE  Held(CheckIdle(x), b, A, ws)
<1> DEFINE y == CheckIdle(x)
<1>0. /\ y \in TunnelRec /\ SameConfigs(x, y) /\ SamePhase(x, y)
      /\ y.idle = IF Idle(x) THEN x.idle + 1 ELSE x.idle
  BY CheckIdleDoes
<1> HIDE DEF y
<1>1. CASE ~Idle(x)
  BY <1>0, <1>1, HeldSame DEF SameConfigs, y
<1>2. CASE Idle(x)
  <2>1. OneAtATime(y, b, A)
    BY <1>0 DEF Held, OneAtATime, Resting, Running, Closing, SamePhase
  <2>2. ASSUME NEW k \in Callers PROVE Kept(y, b, A, ws[k])
    <3>1. ws[k] \in Waits /\ ws[k].gen \in Nat /\ ws[k].on \in Int
      BY DEF Waits
    <3>2. /\ x.gen \in Nat /\ x.idle \in Nat /\ x.queue \in Seq(Items) /\ y.idle = x.idle + 1 /\ y.gen = x.gen
          /\ y.active = x.active /\ y.queue = x.queue
      BY <1>0, <1>2, Numbers DEF SamePhase
    <3>3. ~x.pendingApply /\ x.draining = 0
      BY <1>2 DEF Idle
    <3>4. ASSUME ws[k].on = x.idle, x.active # 0 => x.active > ws[k].gen PROVE Younger(x, b, A, ws[k].gen)
      <4>1. CASE Resting(x, b, A)
        BY <4>1 DEF Resting, Younger, PumpsBut
      <4>2. CASE Running(x, b, A)
        <5>1. x.gen > ws[k].gen
          BY <3>2, <3>4, <4>2 DEF Running
        <5>2. \A a \in A : a.gen > ws[k].gen
          BY <4>2, <5>1 DEF Running
        <5>3. \A i \in 1 .. TodoLen(b, x.queue) :
                Todo(b, x.queue, i).do # "start" \/ Todo(b, x.queue, i) = [do |-> "start", gen |-> x.gen]
          BY <4>2 DEF Running, ToStart, PumpsBut
        <5> QED
          BY <5>1, <5>2, <5>3 DEF Younger
      <4> QED
        BY <3>3, <4>1, <4>2 DEF Held, OneAtATime, Closing
    <3>5. ws[k].on > 0 => ws[k].on <= x.idle /\ ws[k].gen <= x.gen /\ Younger(x, b, A, ws[k].gen)
      BY <3>1, <3>2, <3>3, <3>4 DEF Held, Kept
    <3>6. Younger(x, b, A, ws[k].gen) => Younger(y, b, A, ws[k].gen)
      BY <3>2 DEF Younger
    <3> QED
      BY <3>1, <3>2, <3>5, <3>6 DEF Kept
  <2> QED
    BY <2>1, <2>2 DEF Held, y
<1> QED
  BY <1>1, <1>2

\* The same calls wait elsewhere.
LEMMA HeldMoved ==
  ASSUME NEW x \in TunnelRec, NEW y \in TunnelRec, NEW b \in Seq(Items), NEW c \in Seq(Items), NEW A,
         NEW ws \in [Callers -> Waits], Held(x, b, A, ws), SameTodo(b, x.queue, c, y.queue),
         y.gen = x.gen, y.active = x.active, y.draining = x.draining, y.idle = x.idle, y.pendingApply = x.pendingApply
  PROVE  Held(y, c, A, ws)
<1>0. x.gen \in Nat /\ x.queue \in Seq(Items) /\ y.gen >= x.gen
  BY Numbers
<1>1. \A g : /\ PumpsBut(b, x.queue, {}) => PumpsBut(c, y.queue, {})
             /\ ToStart(b, x.queue, g) => ToStart(c, y.queue, g)
             /\ ToClose(b, x.queue, g) => ToClose(c, y.queue, g)
             /\ ToStartAndClose(b, x.queue, g) => ToStartAndClose(c, y.queue, g)
  BY <1>0, SameCalls
<1>2. OneAtATime(y, c, A)
  <2>1. CASE Resting(x, b, A)
    BY <1>1, <2>1 DEF OneAtATime, Resting
  <2>2. CASE Running(x, b, A)
    BY <1>1, <2>2 DEF OneAtATime, Running
  <2>3. CASE Closing(x, b, A)
    BY <1>1, <2>3 DEF OneAtATime, Closing
  <2> QED
    BY <2>1, <2>2, <2>3 DEF Held, OneAtATime
<1>3. ASSUME NEW k \in Callers PROVE Kept(y, c, A, ws[k])
  <2>1. ws[k] \in Waits
    OBVIOUS
  <2>2. Younger(x, b, A, ws[k].gen) => Younger(y, c, A, ws[k].gen)
    BY DEF Younger, SameTodo
  <2> QED
    BY <1>0, <2>1, <2>2, KeptOn DEF Held
<1> QED
  BY <1>2, <1>3 DEF Held

-----------------------------------------------------------------------------
(* What is wanted                                                            *)

\* The config that is no config.
LEMMA NoConfig == None \in Configs /\ None.id = 0 /\ ~willStart(None)
  BY DEF None, Configs, Kinds, willStart

\* What is wanted, applied and active stays.
LEMMA WantedSame ==
  ASSUME NEW x, NEW y, NEW n, Wanted(x, n), SameConfigs(x, y), y.active = x.active, y.status = x.status,
         y.disposed = x.disposed
  PROVE  Wanted(y, n)
  BY DEF Wanted, SameConfigs

\* Only the status of the connection changes.
LEMMA WantedStatus ==
  ASSUME NEW x \in TunnelRec, NEW next \in Statuses, NEW n, Wanted(x, n), x.active # 0
  PROVE  Wanted(SetStatus(x, next), n)
<1> DEFINE y == SetStatus(x, next)
<1>1. SameConfigs(x, y) /\ y.active = x.active /\ y.disposed = x.disposed
  BY SetStatusDoes DEF SamePhase, SameRest
<1> HIDE DEF y
<1>2. Wanted(y, n)
  BY <1>1 DEF Wanted, SameConfigs
<1> QED
  BY <1>2 DEF y

\* conflictedLocked and failLocked end the connection of the config they forget.
LEMMA WantedFail ==
  ASSUME NEW x \in TunnelRec, NEW next \in {"conflict", "error"}, NEW n \in Nat, Wanted(x, n), x.active # 0
  PROVE  Wanted(Fail(x, x.activeCfg, next), n)
<1> DEFINE y == Fail(x, x.activeCfg, next)
<1> SUFFICES Wanted(y, n)
  OBVIOUS
<1>1. next \in Statuses
  BY DEF Statuses
<1>2. /\ Detached(x, y) /\ y.status = next /\ SameRest(x, y)
      /\ y.desired = (IF x.desired = x.activeCfg THEN None ELSE x.desired)
      /\ y.pendingApply = x.pendingApply /\ y.applied = x.applied /\ y.activeCfg = None
  BY <1>1, FailDoes
<1>3. y.active = 0 /\ y.disposed = x.disposed
  BY <1>2 DEF Detached, SameRest
<1> HIDE DEF y
<1>4. ~x.disposed /\ x.applied = None /\ x.desired.id <= n
  BY DEF Wanted
<1>5. None.id <= n
  BY NoConfig
<1>6. CASE x.pendingApply
  <2>1. y.desired = x.desired /\ x.desired # None
    BY <1>2, <1>4, <1>6 DEF Wanted
  <2> QED
    BY <1>2, <1>3, <1>4, <1>5, <1>6, <2>1 DEF Wanted
<1>7. CASE ~x.pendingApply
  <2>1. y.desired = None
    BY <1>2, <1>7 DEF Wanted
  <2> QED
    BY <1>2, <1>3, <1>4, <1>5, <1>7, <2>1, NoConfig DEF Wanted
<1> QED
  BY <1>6, <1>7

\* startLocked and what maybeStartLocked does before it: what is applied starts or is given up.
LEMMA Applies ==
  ASSUME NEW x \in TunnelRec, NEW n \in Nat, NEW b \in Seq(Items), NEW A, NEW ws \in [Callers -> Waits],
         Wanted(x, n), Held(x, b, A, ws), ~MustWait(x)
  PROVE  LET y == StartApplied(x) IN
         y \in TunnelRec /\ SameRest(x, y) /\ Wanted(y, n) /\ Held(y, b, A, ws)
<1> DEFINE u == [x EXCEPT !.applied = None]
           y == StartApplied(x)
<1>0. x.applied # None /\ x.draining = 0 /\ x.active = 0 /\ x.applied \in Configs /\ ~x.disposed
  <2>1. x.draining \in Nat /\ x.applied \in Configs
    BY DEF TunnelRec
  <2> QED
    BY <2>1 DEF MustWait, Wanted
<1>1. u \in TunnelRec
  BY NoConfig, ZenonT(60) DEF TunnelRec
<1>2. /\ u.applied = None /\ u.desired = x.desired /\ u.pendingApply = x.pendingApply /\ u.activeCfg = x.activeCfg
      /\ SamePhase(x, u) /\ SameRest(x, u) /\ u.idle = x.idle /\ u.status = x.status
  BY DEF TunnelRec, SamePhase, SameRest
<1>3. y = IF x.applied = x.desired /\ willStart(x.applied) THEN Start(u, x.applied) ELSE u
  BY <1>0 DEF StartApplied, StillWanted
<1> HIDE DEF u, y
<1>4. Held(u, b, A, ws)
  BY <1>1, <1>2, HeldSame
<1>5. CASE x.pendingApply
  <2>1. y = u
    BY <1>3, <1>5 DEF Wanted
  <2>2. Wanted(u, n)
    BY <1>0, <1>2, <1>5, NoConfig DEF Wanted, SamePhase, SameRest
  <2> QED
    BY <1>1, <1>2, <1>4, <2>1, <2>2 DEF y
<1>6. CASE ~x.pendingApply /\ ~willStart(x.applied)
  <2>1. y = u
    BY <1>3, <1>6
  <2>2. Wanted(u, n)
    BY <1>0, <1>2, <1>6, NoConfig DEF Wanted, SamePhase, SameRest
  <2> QED
    BY <1>1, <1>2, <1>4, <2>1, <2>2 DEF y
<1>7. CASE ~x.pendingApply /\ willStart(x.applied) /\ x.applied.kind = "bad"
  <2>1. y = Start(u, x.applied) /\ x.applied = x.desired /\ u.active = 0
    BY <1>0, <1>2, <1>3, <1>7 DEF Wanted, SamePhase
  <2>2. /\ y \in TunnelRec /\ SameRest(u, y) /\ y.status = "error" /\ y.active = 0 /\ y.gen = u.gen + 2
        /\ y.draining = u.draining /\ y.queue = u.queue /\ y.idle = u.idle
        /\ y.desired = None /\ y.pendingApply = u.pendingApply /\ y.applied = u.applied /\ y.activeCfg = None
    BY <1>0, <1>1, <1>2, <1>7, <2>1, StartFails
  <2>3. Wanted(y, n)
    BY <1>0, <1>2, <1>7, <2>2, NoConfig DEF Wanted, SameRest
  <2>4. y.gen >= u.gen
    BY <1>1, <2>2, Numbers
  <2>5. Held(y, b, A, ws)
    BY <1>1, <1>4, <2>1, <2>2, <2>4, HeldSkip
  <2> QED
    BY <1>2, <2>2, <2>3, <2>5 DEF SameRest, y
<1>8. CASE ~x.pendingApply /\ willStart(x.applied) /\ x.applied.kind # "bad"
  <2>1. y = Start(u, x.applied) /\ x.applied = x.desired /\ u.active = 0 /\ u.draining = 0
    BY <1>0, <1>2, <1>3, <1>8 DEF Wanted, SamePhase
  <2>2. /\ y \in TunnelRec /\ SameRest(u, y) /\ y.status = "connecting"
        /\ y.gen = u.gen + 1 /\ y.active = y.gen /\ y.draining = u.draining /\ y.idle = u.idle
        /\ y.queue = Append(u.queue, [do |-> "start", gen |-> y.gen])
        /\ y.desired = u.desired /\ y.pendingApply = u.pendingApply /\ y.applied = u.applied
        /\ y.activeCfg = x.applied
    BY <1>0, <1>1, <1>8, <2>1, StartBegins
  <2>3. y.active # 0
    BY <1>1, <2>2, Numbers
  <2>4. Wanted(y, n)
    BY <1>0, <1>2, <1>8, <2>1, <2>2, <2>3, NoConfig DEF Wanted, SameRest
  <2>5. Held(y, b, A, ws)
    BY <1>1, <1>4, <2>1, <2>2, HeldStart
  <2> QED
    BY <1>2, <2>2, <2>4, <2>5 DEF SameRest, y
<1> QED
  BY <1>5, <1>6, <1>7, <1>8

\* checkIdleLocked changes nothing else.
LEMMA Idles ==
  ASSUME NEW x \in TunnelRec, NEW n \in Nat, NEW b \in Seq(Items), NEW A, NEW ws \in [Callers -> Waits],
         Wanted(x, n), Held(x, b, A, ws)
  PROVE  LET y == CheckIdle(x) IN
         y \in TunnelRec /\ SameRest(x, y) /\ Wanted(y, n) /\ Held(y, b, A, ws)
<1> DEFINE y == CheckIdle(x)
<1>1. y \in TunnelRec /\ y.status = x.status /\ SameConfigs(x, y) /\ SamePhase(x, y) /\ SameRest(x, y)
  BY CheckIdleDoes
<1>2. Held(y, b, A, ws)
  BY HeldIdle
<1> HIDE DEF y
<1>3. Wanted(y, n)
  BY <1>1, WantedSame DEF SamePhase, SameRest
<1> QED
  BY <1>1, <1>2, <1>3 DEF y

\* maybeStartLocked.
LEMMA MaybeStarts ==
  ASSUME NEW x \in TunnelRec, NEW n \in Nat, NEW b \in Seq(Items), NEW A, NEW ws \in [Callers -> Waits],
         Wanted(x, n), Held(x, b, A, ws)
  PROVE  LET y == MaybeStart(x) IN
         y \in TunnelRec /\ SameRest(x, y) /\ Wanted(y, n) /\ Held(y, b, A, ws)
<1> DEFINE u == IF MustWait(x) THEN x ELSE StartApplied(x)
<1>1. u \in TunnelRec /\ SameRest(x, u) /\ Wanted(u, n) /\ Held(u, b, A, ws)
  <2>1. CASE MustWait(x)
    BY <2>1 DEF SameRest
  <2>2. CASE ~MustWait(x)
    BY <2>2, Applies
  <2> QED
    BY <2>1, <2>2
<1>2. MaybeStart(x) = CheckIdle(u)
  BY DEF MaybeStart
<1> HIDE DEF u
<1> QED
  BY <1>1, <1>2, Idles DEF SameRest

\* The pump: what is wanted is applied, and the generation before it ends.
LEMMA Pumps ==
  ASSUME NEW x \in TunnelRec, NEW n \in Nat, NEW b \in Seq(Items), NEW A, NEW ws \in [Callers -> Waits],
         Wanted(x, n), Held(x, b, A, ws)
  PROVE  LET y == Pumped(x) IN
         y \in TunnelRec /\ SameRest(x, y) /\ Wanted(y, n) /\ Held(y, b, A, ws)
<1>1. CASE ~x.pendingApply
  BY <1>1 DEF Pumped, SameRest
<1>2. CASE x.pendingApply
  <2> DEFINE cfg == x.desired
             st == IF willStart(cfg) THEN "connecting" ELSE "off"
             u == [x EXCEPT !.pendingApply = FALSE]
             v == Detach(u)
             w == SetStatus(v, st)
             z == [w EXCEPT !.applied = cfg]
  <2>1. cfg # None /\ ~x.disposed /\ cfg \in Configs /\ cfg.id <= n
    BY <1>2 DEF Wanted, TunnelRec
  <2>2. Pumped(x) = MaybeStart(z)
    BY <1>2, <2>1 DEF Pumped
  <2>3. st \in Statuses
    BY DEF Statuses, Trouble
  <2>4. u \in TunnelRec
    BY ZenonT(60) DEF TunnelRec
  <2>5. u.pendingApply = FALSE /\ u.desired = cfg /\ SamePhase(x, u) /\ SameRest(x, u) /\ u.idle = x.idle
    BY DEF TunnelRec, SamePhase, SameRest
  <2> HIDE DEF cfg, u, st
  <2>6. /\ v \in TunnelRec /\ Detached(u, v) /\ SameRest(u, v) /\ v.desired = u.desired
        /\ v.pendingApply = u.pendingApply /\ v.activeCfg = None
    BY <2>4, DetachDoes
  <2> HIDE DEF v
  <2>7. w \in TunnelRec /\ w.status = st /\ SameConfigs(v, w) /\ SamePhase(v, w) /\ SameRest(v, w) /\ w.idle = v.idle
    BY <2>3, <2>6, SetStatusDoes
  <2> HIDE DEF w
  <2>8. z \in TunnelRec
    BY <2>1, <2>7, ZenonT(60) DEF TunnelRec
  <2>9. /\ z.applied = cfg /\ z.status = w.status /\ SamePhase(w, z) /\ SameRest(w, z) /\ z.idle = w.idle
        /\ z.desired = w.desired /\ z.pendingApply = w.pendingApply /\ z.activeCfg = w.activeCfg
    BY <2>7 DEF TunnelRec, SamePhase, SameRest
  <2> HIDE DEF z
  <2>10. Detached(x, z)
    BY <2>5, <2>6, <2>7, <2>9 DEF Detached, SamePhase
  <2>11. Held(z, b, A, ws)
    BY <2>8, <2>10, HeldDetach
  <2>12. /\ z.desired = cfg /\ z.applied = cfg /\ z.pendingApply = FALSE /\ z.activeCfg = None /\ z.status = st
         /\ z.active = 0 /\ SameRest(x, z)
    BY <2>5, <2>6, <2>7, <2>9, <2>10 DEF SameConfigs, SameRest, Detached
  <2>13. None.id <= n /\ ~z.disposed
    BY <2>1, <2>12, NoConfig DEF SameRest
  <2>14. Wanted(z, n)
    BY <2>1, <2>12, <2>13 DEF Wanted, st
  <2> QED
    BY <2>2, <2>8, <2>11, <2>12, <2>14, MaybeStarts DEF SameRest
<1> QED
  BY <1>1, <1>2

\* onAgentEvent, for an event of the generation that is active.
LEMMA Hears ==
  ASSUME NEW x \in TunnelRec, NEW n \in Nat, NEW b \in Seq(Items), NEW A, NEW ws \in [Callers -> Waits],
         Wanted(x, n), Held(x, b, A, ws), x.active # 0,
         NEW ev \in SessionEvents \cup ClientEvents
  PROVE  LET y == OnEvent(x, ev) IN
         y \in TunnelRec /\ SameRest(x, y) /\ Wanted(y, n) /\ Held(y, b, A, ws)
<1> DEFINE Good(y) == y \in TunnelRec /\ SameRest(x, y) /\ Wanted(y, n) /\ Held(y, b, A, ws)
<1>1. \/ OnEvent(x, ev) = x
      \/ \E next \in Statuses : OnEvent(x, ev) = SetStatus(x, next)
      \/ \E next \in {"conflict", "error"} : OnEvent(x, ev) = Fail(x, x.activeCfg, next)
  <2>1. CASE ev = "registered"
    BY <2>1 DEF OnEvent, Statuses
  <2>2. CASE ev = "disabled"
    BY <2>2 DEF OnEvent, Statuses
  <2>3. CASE ev = "enabled"
    BY <2>3 DEF OnEvent, Statuses, Trouble
  <2>4. CASE ev = "conflict"
    BY <2>4 DEF OnEvent
  <2>5. CASE ev = "close"
    BY <2>5 DEF OnEvent
  <2>6. CASE ev = "appError"
    BY <2>6 DEF OnEvent, Statuses, Trouble
  <2>7. CASE ev = "registerRetry"
    BY <2>7 DEF OnEvent, Statuses, Trouble
  <2>8. CASE ev = "lost"
    BY <2>8 DEF OnEvent, Statuses, Trouble
  <2>9. CASE ev = "dialFailed"
    BY <2>9 DEF OnEvent, Statuses, Trouble
  <2>10. CASE ev = "logged"
    BY <2>10 DEF OnEvent
  <2> QED
    BY <2>1, <2>2, <2>3, <2>4, <2>5, <2>6, <2>7, <2>8, <2>9, <2>10 DEF SessionEvents, ClientEvents
<1>2. Good(x)
  BY DEF SameRest
<1>3. ASSUME NEW next \in Statuses PROVE Good(SetStatus(x, next))
  <2> DEFINE y == SetStatus(x, next)
  <2>1. y \in TunnelRec /\ SameConfigs(x, y) /\ SamePhase(x, y) /\ SameRest(x, y) /\ y.idle = x.idle
    BY SetStatusDoes
  <2>2. Wanted(y, n)
    BY WantedStatus
  <2> HIDE DEF y
  <2>3. Held(y, b, A, ws)
    BY <2>1, HeldSame DEF SameConfigs
  <2> QED
    BY <2>1, <2>2, <2>3 DEF y
<1>4. ASSUME NEW next \in {"conflict", "error"} PROVE Good(Fail(x, x.activeCfg, next))
  <2> DEFINE y == Fail(x, x.activeCfg, next)
  <2>1. next \in Statuses
    BY DEF Statuses
  <2>2. y \in TunnelRec /\ Detached(x, y) /\ SameRest(x, y)
    BY <2>1, FailDoes
  <2>3. Wanted(y, n)
    BY WantedFail
  <2> HIDE DEF y
  <2>4. Held(y, b, A, ws)
    BY <2>2, HeldDetach
  <2> QED
    BY <2>2, <2>3, <2>4 DEF y
<1> HIDE DEF Good
<1>5. Good(OnEvent(x, ev))
  BY <1>1, <1>2, <1>3, <1>4
<1> QED
  BY <1>5 DEF Good

\* What Stop and Dispose begin with: nothing is wanted, and the generation ends.
LEMMA Offs ==
  ASSUME NEW x \in TunnelRec, NEW n \in Nat
  PROVE  LET y == Off(x) IN
         /\ y \in TunnelRec /\ SameRest(x, y) /\ Detached(x, y) /\ Wanted(y, n)
<1> DEFINE u == [x EXCEPT !.desired = None, !.pendingApply = FALSE, !.applied = None]
           v == Detach(u)
           y == SetStatus(v, "off")
<1>1. u \in TunnelRec
  BY NoConfig, ZenonT(60) DEF TunnelRec
<1>2. /\ u.desired = None /\ u.pendingApply = FALSE /\ u.applied = None /\ SamePhase(x, u) /\ SameRest(x, u)
      /\ u.idle = x.idle
  BY DEF TunnelRec, SamePhase, SameRest
<1>3. Off(x) = y
  BY DEF Off
<1> HIDE DEF u
<1>4. /\ v \in TunnelRec /\ Detached(u, v) /\ SameRest(u, v) /\ v.desired = u.desired
      /\ v.pendingApply = u.pendingApply /\ v.applied = u.applied /\ v.activeCfg = None
  BY <1>1, DetachDoes
<1> HIDE DEF v
<1>5. y \in TunnelRec /\ y.status = "off" /\ SameConfigs(v, y) /\ SamePhase(v, y) /\ SameRest(v, y) /\ y.idle = v.idle
  BY <1>4, SetStatusDoes DEF Statuses
<1> HIDE DEF y
<1>6. Detached(x, y)
  BY <1>2, <1>4, <1>5 DEF Detached, SamePhase
<1>7. /\ y.desired = None /\ y.applied = None /\ y.pendingApply = FALSE /\ y.activeCfg = None /\ y.active = 0
      /\ SameRest(x, y)
  BY <1>2, <1>4, <1>5, <1>6 DEF SameConfigs, SameRest, Detached
<1>8. None.id <= n
  BY NoConfig
<1>9. Wanted(y, n)
  BY <1>5, <1>7, <1>8 DEF Wanted
<1> QED
  BY <1>3, <1>5, <1>6, <1>7, <1>9

-----------------------------------------------------------------------------
(* Configure, Stop and Dispose                                               *)

\* A call leaves a good Tunnel, and a wait that is told the truth.
Answered(r) ==
  /\ r.t \in TunnelRec /\ r.t.flushing = t.flushing /\ Wanted(r.t, calls + 1)
  /\ Held(r.t, batch, agents, waits)
  /\ r.wait \in Waits /\ Kept(r.t, batch, agents, r.wait)

\* A call that changes nothing.
LEMMA SameAnswer ==
  ASSUME TunnelInv, NEW w \in Waits, Kept(t, batch, agents, w)
  PROVE  Answered([t |-> t, wait |-> w])
<1>1. Wanted(t, calls + 1)
  <2>1. /\ calls \in Nat /\ t.desired.id \in Nat /\ t.applied.id \in Nat /\ t.activeCfg.id \in Nat
        /\ t.desired.id <= calls /\ t.applied.id <= calls /\ t.activeCfg.id <= calls
    BY DEF TunnelInv, TypeOK, TunnelRec, Configs, Wanted
  <2>2. t.desired.id <= calls + 1 /\ t.applied.id <= calls + 1 /\ t.activeCfg.id <= calls + 1
    BY <2>1
  <2> QED
    BY <2>2 DEF TunnelInv, Wanted
<1> QED
  BY <1>1 DEF Answered, TunnelInv, TypeOK, Held

\* A wait that is over, and one for disposeDone.
LEMMA ShortWaits ==
  ASSUME NEW x, NEW b, NEW A
  PROVE  /\ NoWait \in Waits /\ Kept(x, b, A, NoWait)
         /\ [on |-> -1, gen |-> 0] \in Waits /\ Kept(x, b, A, [on |-> -1, gen |-> 0])
  BY DEF NoWait, Waits, Kept

\* A wait for the idle channel that is not closed yet.
LEMMA IdleWait ==
  ASSUME NEW x \in TunnelRec, NEW b, NEW A, NEW g \in Nat, g <= x.gen,
         x.active # 0 => x.active > g \/ x.pendingApply
  PROVE  OnIdle(x, g) \in Waits /\ Kept(x, b, A, OnIdle(x, g)) /\ Waiter(x, g) \in Waits /\ Kept(x, b, A, Waiter(x, g))
<1> DEFINE w == OnIdle(x, g)
<1>1. x.idle \in Nat /\ w = [on |-> x.idle, gen |-> g]
  BY Numbers DEF OnIdle
<1>2. w \in Waits /\ w.on = x.idle /\ w.gen = g
  BY <1>1 DEF Waits
<1> HIDE DEF w
<1>3. Kept(x, b, A, w)
  BY <1>1, <1>2 DEF Kept
<1> QED
  BY <1>2, <1>3, ShortWaits DEF Waiter, w

\* configureAsync: the new config is newer than every other, and waits for the pump.
LEMMA Configures ==
  ASSUME TunnelInv, NEW kind \in Kinds
  PROVE  Answered(Configured(kind))
<1>0. t \in TunnelRec /\ calls \in Nat /\ Wanted(t, calls) /\ batch \in Seq(Items) /\ waits \in [Callers -> Waits]
      /\ Held(t, batch, agents, waits)
  BY DEF TunnelInv, TypeOK, Held
<1>1. CASE t.disposed
  BY <1>1, SameAnswer, ShortWaits DEF Configured
<1>2. CASE ~t.disposed /\ t.desired # None /\ t.desired.kind = kind
  <2>1. t.active # 0 => t.active > 0
    BY <1>0, Numbers
  <2>2. Waiter(t, 0) \in Waits /\ Kept(t, batch, agents, Waiter(t, 0))
    BY <1>0, <2>1, IdleWait, Numbers
  <2>3. Configured(kind) = [t |-> t, wait |-> Waiter(t, 0)]
    BY <1>2 DEF Configured
  <2> QED
    BY <2>2, <2>3, SameAnswer
<1>3. CASE ~t.disposed /\ ~(t.desired # None /\ t.desired.kind = kind)
  <2> DEFINE cfg == [id |-> calls + 1, kind |-> kind]
             y == [t EXCEPT !.desired = cfg, !.pendingApply = TRUE]
             z == IF t.pendingApply THEN y ELSE Do(y, "pump", 0)
             w == OnIdle(t, t.gen)
  <2>1. Configured(kind) = [t |-> z, wait |-> w]
    BY <1>3 DEF Configured
  <2>2. cfg \in Configs /\ cfg.id = calls + 1
    BY <1>0 DEF Configs
  <2> HIDE DEF cfg
  <2>3. y \in TunnelRec
    BY <1>0, <2>2, ZenonT(60) DEF TunnelRec
  <2>4. /\ y.desired = cfg /\ y.pendingApply = TRUE /\ y.applied = t.applied /\ y.activeCfg = t.activeCfg
        /\ SamePhase(t, y) /\ SameRest(t, y) /\ y.idle = t.idle /\ y.status = t.status
    BY <1>0 DEF TunnelRec, SamePhase, SameRest
  <2> HIDE DEF y
  <2>5. /\ z \in TunnelRec /\ SameConfigs(y, z) /\ SameRest(y, z) /\ z.idle = y.idle /\ z.status = y.status
        /\ z.gen = y.gen /\ z.active = y.active /\ z.draining = y.draining
        /\ z.queue = IF t.pendingApply THEN y.queue ELSE Append(y.queue, [do |-> "pump", gen |-> 0])
    <3>1. CASE t.pendingApply
      BY <2>3, <3>1 DEF SameConfigs, SameRest
    <3>2. CASE ~t.pendingApply
      BY <2>3, <3>2, DoDoes
    <3> QED
      BY <3>1, <3>2
  <2> HIDE DEF z
  <2>6. /\ z.desired = cfg /\ z.pendingApply = TRUE /\ z.applied = t.applied /\ z.activeCfg = t.activeCfg
        /\ z.status = t.status /\ z.disposed = t.disposed /\ z.flushing = t.flushing /\ z.idle = t.idle
        /\ z.gen = t.gen /\ z.active = t.active /\ z.draining = t.draining
        /\ z.queue = IF t.pendingApply THEN t.queue ELSE Append(t.queue, [do |-> "pump", gen |-> 0])
    BY <2>4, <2>5 DEF SameConfigs, SameRest, SamePhase
  <2>7. Wanted(z, calls + 1)
    <3>1. /\ t.applied.id \in Nat /\ t.activeCfg.id \in Nat /\ t.applied.id <= calls /\ t.activeCfg.id <= calls
      BY <1>0 DEF TunnelRec, Configs, Wanted
    <3>2. /\ t.applied.id <= calls + 1 /\ t.activeCfg.id <= calls + 1 /\ cfg.id <= calls + 1
          /\ cfg # None /\ cfg # t.applied /\ cfg # t.activeCfg
      BY <1>0, <2>2, <3>1, NoConfig
    <3>3. t.applied # None => t.active = 0 /\ t.status = IF willStart(t.applied) THEN "connecting" ELSE "off"
      BY <1>0 DEF Wanted
    <3> QED
      BY <1>3, <2>6, <3>2, <3>3 DEF Wanted
  <2>8. Held(z, batch, agents, waits)
    <3>1. CASE t.pendingApply
      BY <1>0, <2>5, <2>6, <3>1, HeldSame DEF SamePhase
    <3>2. CASE ~t.pendingApply
      BY <1>0, <2>5, <2>6, <3>2, HeldPump
    <3> QED
      BY <3>1, <3>2
  <2>9. w \in Waits /\ Kept(z, batch, agents, w)
    <3>1. OnIdle(t, t.gen) = OnIdle(z, z.gen) /\ z.gen \in Nat /\ z.gen <= z.gen
      BY <2>5, <2>6, Numbers DEF OnIdle
    <3> QED
      BY <2>5, <2>6, <3>1, IdleWait
  <2> HIDE DEF w
  <2> QED
    BY <2>1, <2>5, <2>6, <2>7, <2>8, <2>9 DEF Answered
<1> QED
  BY <1>1, <1>2, <1>3

\* stopAsync.
LEMMA Stops ==
  ASSUME TunnelInv
  PROVE  Answered(Stopped)
<1>0. t \in TunnelRec /\ calls \in Nat /\ batch \in Seq(Items) /\ waits \in [Callers -> Waits]
      /\ Held(t, batch, agents, waits)
  BY DEF TunnelInv, TypeOK, Held
<1>1. CASE t.disposed
  BY <1>1, SameAnswer, ShortWaits DEF Stopped
<1>2. CASE ~t.disposed
  <2> DEFINE u == Off(t)
             y == CheckIdle(u)
             w == Waiter(y, t.gen)
  <2>1. Stopped = [t |-> y, wait |-> w]
    BY <1>2 DEF Stopped
  <2>2. calls + 1 \in Nat
    BY <1>0
  <2>3. u \in TunnelRec /\ SameRest(t, u) /\ Detached(t, u) /\ Wanted(u, calls + 1)
    BY <1>0, <2>2, Offs
  <2> HIDE DEF u
  <2>4. Held(u, batch, agents, waits)
    BY <1>0, <2>3, HeldDetach
  <2>5. y \in TunnelRec /\ SameRest(u, y) /\ Wanted(y, calls + 1) /\ Held(y, batch, agents, waits)
    BY <1>0, <2>2, <2>3, <2>4, Idles
  <2>6. SamePhase(u, y)
    BY <2>3, CheckIdleDoes
  <2> HIDE DEF y
  <2>7. y.active = 0 /\ t.gen \in Nat /\ t.gen <= y.gen
    BY <1>0, <2>3, <2>6, Numbers DEF Detached, SamePhase
  <2>8. w \in Waits /\ Kept(y, batch, agents, w)
    BY <2>5, <2>7, IdleWait
  <2> HIDE DEF w
  <2> QED
    BY <2>1, <2>3, <2>5, <2>8 DEF Answered, SameRest
<1> QED
  BY <1>1, <1>2

\* disposeAsync.
LEMMA Disposes ==
  ASSUME TunnelInv
  PROVE  Answered(Disposed)
<1> DEFINE w == [on |-> -1, gen |-> 0]
<1>0. t \in TunnelRec /\ calls \in Nat /\ batch \in Seq(Items) /\ waits \in [Callers -> Waits]
      /\ Held(t, batch, agents, waits)
  BY DEF TunnelInv, TypeOK, Held
<1>1. CASE t.disposeDone # "none"
  <2>1. Disposed = [t |-> t, wait |-> w]
    BY <1>1 DEF Disposed
  <2> QED
    BY <2>1, SameAnswer, ShortWaits
<1>2. CASE t.disposeDone = "none"
  <2> DEFINE u == [t EXCEPT !.disposed = TRUE]
             y == Off(u)
             done == IF Idle(y) THEN "closed" ELSE "open"
             on == ~Idle(y)
             z == [y EXCEPT !.disposeDone = done, !.disposeTimer = on]
  <2>1. Disposed = [t |-> z, wait |-> w]
    BY <1>2 DEF Disposed
  <2>2. calls + 1 \in Nat
    BY <1>0
  <2>3. u \in TunnelRec
    BY <1>0, ZenonT(60) DEF TunnelRec
  <2>4. SamePhase(t, u) /\ u.idle = t.idle /\ u.flushing = t.flushing
    BY <1>0 DEF TunnelRec, SamePhase
  <2> HIDE DEF u
  <2>5. y \in TunnelRec /\ SameRest(u, y) /\ Detached(u, y) /\ Wanted(y, calls + 1)
    BY <2>2, <2>3, Offs
  <2>6. done \in {"none", "open", "closed"} /\ on \in BOOLEAN
    OBVIOUS
  <2> HIDE DEF y, done, on
  <2>7. z \in TunnelRec
    BY <2>5, <2>6, ZenonT(60) DEF TunnelRec
  <2>8. SameConfigs(y, z) /\ SamePhase(y, z) /\ SameRest(y, z) /\ z.idle = y.idle /\ z.status = y.status
    BY <2>5 DEF TunnelRec, SameConfigs, SamePhase, SameRest
  <2> HIDE DEF z
  <2>9. Detached(t, z)
    BY <2>4, <2>5, <2>8 DEF Detached, SamePhase
  <2>10. Held(z, batch, agents, waits)
    BY <1>0, <2>7, <2>9, HeldDetach
  <2>11. Wanted(z, calls + 1)
    BY <2>5, <2>8, WantedSame DEF SamePhase, SameRest
  <2>12. z.flushing = t.flushing
    BY <2>4, <2>5, <2>8 DEF SameRest
  <2>13. w \in Waits /\ Kept(z, batch, agents, w)
    BY ShortWaits
  <2> HIDE DEF w
  <2> QED
    BY <2>1, <2>7, <2>10, <2>11, <2>12, <2>13 DEF Answered
<1> QED
  BY <1>1, <1>2

\* Whatever is called.
LEMMA Answers ==
  ASSUME TunnelInv, NEW r \in Results
  PROVE  Answered(r)
  BY Configures, Stops, Disposes DEF Results

-----------------------------------------------------------------------------
(* The agent calls run, and the agents close                                 *)

\* Running a call of the batch: at most one call is no pump, and it is its agent's turn.
LEMMA HeldRun ==
  ASSUME TunnelInv, FlushItem
  PROVE  Held(t, batch', agents', waits)
<1> DEFINE s(g) == [do |-> "start", gen |-> g]
           c(g) == [do |-> "close", gen |-> g]
           q == t.queue
           ag(g, d, k) == [gen |-> g, dialled |-> d, closing |-> k]
<1>0. /\ t \in TunnelRec /\ batch \in Seq(Items) /\ waits \in [Callers -> Waits] /\ batch # << >> /\ batch' = Tail(batch)
      /\ q \in Seq(Items) /\ t.gen \in Nat /\ Held(t, batch, agents, waits)
  BY Numbers DEF TunnelInv, TypeOK, FlushItem, Held
<1>1. Head(batch).do = "pump" => agents' = agents
  BY DEF FlushItem
<1>2. \A g : Head(batch) = s(g) => agents' = agents \cup {ag(g, t.gen = g, FALSE)}
  BY DEF FlushItem
<1>3. \A g : Head(batch) = c(g) => agents' = {IF a.gen = g THEN [a EXCEPT !.closing = TRUE] ELSE a : a \in agents}
  BY DEF FlushItem
<1>4. \A g : /\ PumpsBut(batch, q, {}) => Head(batch).do = "pump" /\ PumpsBut(batch', q, {})
             /\ ToStart(batch, q, g) => \/ Head(batch).do = "pump" /\ ToStart(batch', q, g)
                                        \/ Head(batch) = s(g) /\ PumpsBut(batch', q, {})
             /\ ToClose(batch, q, g) => \/ Head(batch).do = "pump" /\ ToClose(batch', q, g)
                                        \/ Head(batch) = c(g) /\ PumpsBut(batch', q, {})
             /\ ToStartAndClose(batch, q, g) => \/ Head(batch).do = "pump" /\ ToStartAndClose(batch', q, g)
                                                \/ Head(batch) = s(g) /\ ToClose(batch', q, g)
  BY <1>0, RunsCall
<1>5. OneAtATime(t, batch', agents')
  <2> HIDE DEF s, c
  <2>1. CASE Resting(t, batch, agents)
    BY <1>1, <1>4, <2>1 DEF OneAtATime, Resting, q
  <2>2. CASE Running(t, batch, agents)
    <3>1. CASE agents = {} /\ ToStart(batch, q, t.gen)
      <4>1. CASE Head(batch).do = "pump" /\ ToStart(batch', q, t.gen)
        BY <1>1, <2>2, <3>1, <4>1 DEF OneAtATime, Running, q
      <4>2. CASE Head(batch) = s(t.gen) /\ PumpsBut(batch', q, {})
        <5>1. agents' = {ag(t.gen, TRUE, FALSE)}
          BY <1>2, <3>1, <4>2
        <5> QED
          BY <2>2, <4>2, <5>1 DEF OneAtATime, Running, q
      <4> QED
        BY <1>4, <3>1, <4>1, <4>2
    <3>2. CASE agents = {ag(t.gen, TRUE, FALSE)} /\ PumpsBut(batch, q, {})
      BY <1>1, <1>4, <2>2, <3>2 DEF OneAtATime, Running, q
    <3> QED
      BY <2>2, <3>1, <3>2 DEF Running, q
  <2>3. CASE Closing(t, batch, agents)
    <3>1. PICK g \in 1 .. t.gen - 1 :
            \/ agents = {} /\ ToStartAndClose(batch, q, g)
            \/ \E d \in BOOLEAN : agents = {ag(g, d, FALSE)} /\ ToClose(batch, q, g)
            \/ \E d \in BOOLEAN : agents = {ag(g, d, TRUE)} /\ PumpsBut(batch, q, {})
      BY <2>3 DEF Closing, q
    <3> SUFFICES \/ agents' = {} /\ ToStartAndClose(batch', q, g)
                 \/ \E d \in BOOLEAN : agents' = {ag(g, d, FALSE)} /\ ToClose(batch', q, g)
                 \/ \E d \in BOOLEAN : agents' = {ag(g, d, TRUE)} /\ PumpsBut(batch', q, {})
      BY <2>3 DEF OneAtATime, Closing, q
    <3>2. CASE agents = {} /\ ToStartAndClose(batch, q, g)
      <4>1. CASE Head(batch).do = "pump" /\ ToStartAndClose(batch', q, g)
        BY <1>1, <3>2, <4>1
      <4>2. CASE Head(batch) = s(g) /\ ToClose(batch', q, g)
        <5>1. agents' = {ag(g, t.gen = g, FALSE)} /\ (t.gen = g) \in BOOLEAN
          BY <1>2, <3>2, <4>2
        <5> QED
          BY <4>2, <5>1
      <4> QED
        BY <1>4, <3>2, <4>1, <4>2
    <3>3. ASSUME NEW d \in BOOLEAN, agents = {ag(g, d, FALSE)}, ToClose(batch, q, g)
          PROVE  \/ \E e \in BOOLEAN : agents' = {ag(g, e, FALSE)} /\ ToClose(batch', q, g)
                 \/ \E e \in BOOLEAN : agents' = {ag(g, e, TRUE)} /\ PumpsBut(batch', q, {})
      <4>1. CASE Head(batch).do = "pump" /\ ToClose(batch', q, g)
        BY <1>1, <3>3, <4>1
      <4>2. CASE Head(batch) = c(g) /\ PumpsBut(batch', q, {})
        <5>1. agents' = {IF a.gen = g THEN [a EXCEPT !.closing = TRUE] ELSE a : a \in agents}
          BY <1>3, <4>2
        <5>2. ASSUME NEW f, NEW e PROVE [ag(g, d, f) EXCEPT !.closing = e] = ag(g, d, e) /\ ag(g, d, f).gen = g
          OBVIOUS
        <5> HIDE DEF ag
        <5>3. agents' = {ag(g, d, TRUE)}
          BY <3>3, <5>1, <5>2
        <5> QED
          BY <4>2, <5>3
      <4> QED
        BY <1>4, <3>3, <4>1, <4>2
    <3>4. ASSUME NEW d \in BOOLEAN, agents = {ag(g, d, TRUE)}, PumpsBut(batch, q, {})
          PROVE  agents' = {ag(g, d, TRUE)} /\ PumpsBut(batch', q, {})
      BY <1>1, <1>4, <3>4
    <3> QED
      BY <3>1, <3>2, <3>3, <3>4
  <2> QED
    BY <1>0, <2>1, <2>2, <2>3 DEF Held, OneAtATime
<1>6. ASSUME NEW k \in Callers PROVE Kept(t, batch', agents', waits[k])
  <2>1. waits[k] \in Waits /\ t.gen >= t.gen
    BY <1>0
  <2>2. ASSUME NEW g, Younger(t, batch, agents, g) PROVE Younger(t, batch', agents', g)
    <3>1. /\ TodoLen(batch, q) \in Nat /\ TodoLen(batch, q) >= 1
          /\ TodoLen(batch', q) = TodoLen(batch, q) - 1 /\ Head(batch) = Todo(batch, q, 1)
          /\ \A i \in 1 .. TodoLen(batch, q) - 1 : Todo(batch', q, i) = Todo(batch, q, i + 1)
      BY <1>0, TodoTail
    <3>2. Head(batch).do = "start" => Head(batch).gen > g
      <4>1. 1 \in 1 .. TodoLen(batch, q)
        BY <3>1
      <4> QED
        BY <2>2, <3>1, <4>1 DEF Younger
    <3>3. \A a \in agents' : a.gen > g
      <4>1. CASE Head(batch).do = "pump"
        BY <1>1, <2>2, <4>1 DEF Younger
      <4>2. CASE Head(batch).do = "start"
        <5>1. agents' = agents \cup {[gen |-> Head(batch).gen, dialled |-> t.gen = Head(batch).gen, closing |-> FALSE]}
          BY <4>2 DEF FlushItem
        <5> QED
          BY <2>2, <3>2, <4>2, <5>1 DEF Younger
      <4>3. CASE Head(batch).do = "close"
        <5>1. agents' = {IF a.gen = Head(batch).gen THEN [a EXCEPT !.closing = TRUE] ELSE a : a \in agents}
          BY <4>3 DEF FlushItem
        <5>2. \A a \in agents : a \in [gen : Nat, dialled : BOOLEAN, closing : BOOLEAN]
          BY DEF TunnelInv, TypeOK
        <5>3. \A a \in agents : [a EXCEPT !.closing = TRUE].gen = a.gen
          BY <5>2
        <5> QED
          BY <2>2, <5>1, <5>3 DEF Younger
      <4> QED
        BY <4>1, <4>2, <4>3 DEF FlushItem
    <3>4. \A i \in 1 .. TodoLen(batch', q) : i + 1 \in 1 .. TodoLen(batch, q) /\ i \in 1 .. TodoLen(batch, q) - 1
      BY <3>1
    <3> QED
      BY <2>2, <3>1, <3>3, <3>4 DEF Younger
  <2> QED
    BY <1>0, <2>1, <2>2, KeptOn DEF Held
<1> QED
  BY <1>5, <1>6 DEF Held

\* An agent that closes is the only one, and nothing waits to run but pumps.
LEMMA ClosesLast ==
  ASSUME NEW x, NEW b, NEW A, OneAtATime(x, b, A), NEW a \in A, a.closing
  PROVE  x.active = 0 /\ x.draining = 1 /\ A \ {a} = {} /\ PumpsBut(b, x.queue, {})
<1>1. CASE Resting(x, b, A)
  BY <1>1 DEF Resting
<1>2. CASE Running(x, b, A)
  BY <1>2 DEF Running
<1>3. CASE Closing(x, b, A)
  <2>1. PICK g \in 1 .. x.gen - 1 :
          \/ A = {}
          \/ \E d \in BOOLEAN : A = {[gen |-> g, dialled |-> d, closing |-> FALSE]}
          \/ \E d \in BOOLEAN : A = {[gen |-> g, dialled |-> d, closing |-> TRUE]} /\ PumpsBut(b, x.queue, {})
    BY <1>3 DEF Closing
  <2>2. PICK d \in BOOLEAN : A = {[gen |-> g, dialled |-> d, closing |-> TRUE]} /\ PumpsBut(b, x.queue, {})
    BY <2>1
  <2> QED
    BY <1>3, <2>2 DEF Closing
<1> QED
  BY <1>1, <1>2, <1>3 DEF OneAtATime

\* Its close is over.
LEMMA HeldClosed ==
  ASSUME NEW x \in TunnelRec, NEW y \in TunnelRec, NEW b \in Seq(Items), NEW A, NEW ws \in [Callers -> Waits],
         Held(x, b, A, ws), NEW a \in A, a.closing, y.draining = x.draining - 1,
         y.gen = x.gen, y.active = x.active, y.idle = x.idle, y.queue = x.queue
  PROVE  Held(y, b, A \ {a}, ws)
<1>1. x.active = 0 /\ x.draining = 1 /\ A \ {a} = {} /\ PumpsBut(b, x.queue, {})
  BY ClosesLast DEF Held
<1>2. OneAtATime(y, b, A \ {a})
  BY <1>1 DEF OneAtATime, Resting
<1>3. ASSUME NEW k \in Callers PROVE Kept(y, b, A \ {a}, ws[k])
  <2>1. ws[k] \in Waits /\ y.gen >= x.gen
    BY Numbers
  <2>2. \A g : Younger(x, b, A, g) => Younger(y, b, A \ {a}, g)
    BY DEF Younger
  <2> QED
    BY <1>1, <2>1, <2>2, KeptOn DEF Held
<1> QED
  BY <1>2, <1>3 DEF Held

\* An agent of the current generation is the active one's.
LEMMA ActiveAgent ==
  ASSUME NEW x \in TunnelRec, NEW b, NEW A, OneAtATime(x, b, A), NEW a \in A, a.gen = x.gen
  PROVE  x.active # 0
<1>0. x.gen \in Nat
  BY Numbers
<1>1. CASE Resting(x, b, A)
  BY <1>1 DEF Resting
<1>2. CASE Running(x, b, A)
  BY <1>0, <1>2 DEF Running
<1>3. CASE Closing(x, b, A)
  <2>1. PICK g \in 1 .. x.gen - 1 : \A e \in A : e.gen = g
    BY <1>3 DEF Closing
  <2> QED
    BY <1>0, <2>1
<1> QED
  BY <1>1, <1>2, <1>3 DEF OneAtATime

-----------------------------------------------------------------------------
(* unlockAndFlush                                                            *)

\* A step that let go of mu left the Tunnel, the batches and the waits as they should be.
Flushed(A, ws, n) ==
  /\ t' \in TunnelRec /\ batch' \in Seq(Items) /\ shown' \in Seq(Statuses) /\ inner' \in BOOLEAN
  /\ ~t'.flushing => batch' = << >>
  /\ Wanted(t', n) /\ Held(t', batch', A, ws)

\* All that the invariant does not find in the rest of the state.
LEMMA Finish ==
  ASSUME Flushed(agents', waits', calls'), waits' \in [Callers -> Waits], timer' \in BOOLEAN, pumps' \in Nat,
         agents' \subseteq [gen : Nat, dialled : BOOLEAN, closing : BOOLEAN], calls' \in Nat, events' \in Nat,
         who' \in Owners
  PROVE  TunnelInv'
  BY DEF TunnelInv, TypeOK, Flushed, Held

\* The callbacks are taken, with the agent calls as they are.
LEMMA TakesCallbacks ==
  ASSUME NEW x \in TunnelRec, NEW own, TakeCallbacks(x, own)
  PROVE  /\ t' \in TunnelRec /\ shown' \in Seq(Statuses) /\ SameConfigs(x, t') /\ SamePhase(x, t')
         /\ SameRest(x, t') /\ t'.idle = x.idle /\ t'.status = x.status
<1> DEFINE d == x.callbacks # << >>
           y == [x EXCEPT !.delivering = d, !.callbacks = << >>]
<1>1. t' = y /\ shown' = x.callbacks
  BY DEF TakeCallbacks
<1>2. d \in BOOLEAN /\ << >> \in Seq(Statuses) /\ x.callbacks \in Seq(Statuses)
  BY DEF TunnelRec
<1> HIDE DEF d
<1>3. y \in TunnelRec
  BY <1>2, ZenonT(60) DEF TunnelRec
<1>4. SameConfigs(x, y) /\ SamePhase(x, y) /\ SameRest(x, y) /\ y.idle = x.idle /\ y.status = x.status
  BY DEF TunnelRec, SameConfigs, SamePhase, SameRest
<1> QED
  BY <1>1, <1>2, <1>3, <1>4

\* runQueueLocked, with nothing left of the last batch.
LEMMA RunsQueue ==
  ASSUME NEW x \in TunnelRec, NEW own \in BOOLEAN, NEW n, NEW A, NEW ws \in [Callers -> Waits],
         batch = << >>, shown \in Seq(Statuses), Wanted(x, n), Held(x, batch, A, ws), RunQueue(x, own)
  PROVE  Flushed(A, ws, n)
<1>1. CASE x.queue # << >>
  <2> DEFINE y == [x EXCEPT !.flushing = TRUE, !.queue = << >>]
  <2>1. t' = y /\ batch' = x.queue /\ inner' = own /\ shown' = shown
    BY <1>1 DEF RunQueue
  <2>2. << >> \in Seq(Items) /\ x.queue \in Seq(Items)
    BY DEF TunnelRec
  <2>3. y \in TunnelRec
    BY <2>2, ZenonT(60) DEF TunnelRec
  <2>4. /\ SameConfigs(x, y) /\ y.gen = x.gen /\ y.active = x.active /\ y.draining = x.draining /\ y.queue = << >>
        /\ y.flushing = TRUE /\ y.idle = x.idle /\ y.status = x.status /\ y.disposed = x.disposed
    BY DEF TunnelRec, SameConfigs
  <2> HIDE DEF y
  <2>5. SameTodo(batch, x.queue, batch', y.queue)
    BY <2>1, <2>2, <2>4, TodoTaken
  <2>6. Held(y, batch', A, ws)
    BY <2>1, <2>2, <2>3, <2>4, <2>5, HeldMoved DEF SameConfigs
  <2>7. Wanted(y, n)
    BY <2>4, WantedSame
  <2> QED
    BY <2>1, <2>2, <2>3, <2>4, <2>6, <2>7 DEF Flushed
<1>2. CASE x.queue = << >>
  <2> DEFINE y == [x EXCEPT !.flushing = FALSE]
  <2>1. /\ batch' = << >> /\ inner' = FALSE
        /\ \/ t' = y /\ shown' = shown
           \/ TakeCallbacks(y, own)
    BY <1>2 DEF RunQueue
  <2>2. y \in TunnelRec
    BY ZenonT(60) DEF TunnelRec
  <2>3. /\ SameConfigs(x, y) /\ SamePhase(x, y) /\ y.flushing = FALSE /\ y.idle = x.idle /\ y.status = x.status
        /\ y.disposed = x.disposed
    BY DEF TunnelRec, SameConfigs, SamePhase
  <2> HIDE DEF y
  <2>4. /\ t' \in TunnelRec /\ shown' \in Seq(Statuses) /\ SameConfigs(y, t') /\ SamePhase(y, t')
        /\ SameRest(y, t') /\ t'.idle = y.idle /\ t'.status = y.status
    <3>1. CASE t' = y /\ shown' = shown
      BY <2>2, <3>1 DEF SameConfigs, SamePhase, SameRest
    <3>2. CASE TakeCallbacks(y, own)
      BY <2>2, <3>2, TakesCallbacks
    <3> QED
      BY <2>1, <3>1, <3>2
  <2>5. Wanted(t', n)
    BY <2>3, <2>4, WantedSame DEF SameConfigs, SamePhase, SameRest
  <2>6. SamePhase(x, t') /\ t'.idle = x.idle /\ (x.pendingApply => t'.pendingApply)
    BY <2>3, <2>4 DEF SamePhase, SameConfigs
  <2>7. Held(t', batch', A, ws)
    BY <2>1, <2>4, <2>6, HeldSame
  <2>8. << >> \in Seq(Items) /\ FALSE \in BOOLEAN
    OBVIOUS
  <2> QED
    BY <2>1, <2>4, <2>5, <2>7, <2>8 DEF Flushed
<1> QED
  BY <1>1, <1>2

\* A good Tunnel is let go of.
LEMMA Unlocks ==
  ASSUME TypeOK, NEW x \in TunnelRec, x.flushing = t.flushing, NEW n, NEW A, NEW ws \in [Callers -> Waits],
         Wanted(x, n), Held(x, batch, A, ws), Unlock(x)
  PROVE  Flushed(A, ws, n)
<1>1. CASE x.flushing
  BY <1>1 DEF Unlock, TypeOK, Flushed
<1>2. CASE ~x.flushing
  BY <1>2, RunsQueue DEF Unlock, TypeOK
<1> QED
  BY <1>1, <1>2

-----------------------------------------------------------------------------
(* The steps                                                                 *)

\* What the invariant says of the state a step begins in.
LEMMA Before ==
  ASSUME TunnelInv
  PROVE  /\ TypeOK /\ t \in TunnelRec /\ batch \in Seq(Items) /\ shown \in Seq(Statuses) /\ pumps \in Nat
         /\ agents \subseteq [gen : Nat, dialled : BOOLEAN, closing : BOOLEAN] /\ inner \in BOOLEAN
         /\ waits \in [Callers -> Waits] /\ timer \in BOOLEAN /\ calls \in Nat /\ events \in Nat
         /\ who \in Owners /\ Wanted(t, calls) /\ Held(t, batch, agents, waits)
  BY DEF TunnelInv, TypeOK, Held

\* Whoever runs the queue or delivers after a step, it is a generation's flush or nobody's.
LEMMA RolesType ==
  ASSUME TunnelInv, NEW g \in Nat, Roles(g)
  PROVE  who' \in Owners
<1>1. who \in Owners
  BY DEF TunnelInv, TypeOK
<1> QED
  BY <1>1 DEF Roles, Owners

\* A call of Configure, Stop or Dispose, from outside or from a status callback.
LEMMA CallStep ==
  ASSUME TunnelInv, NEW c \in Callers, NEW r \in Results, Call(c, r),
         UNCHANGED <<agents, pumps, seen, events>>
  PROVE  TunnelInv'
<1>1. Answered(r)
  BY Answers
<1>2. waits' = [waits EXCEPT ![c] = r.wait] /\ calls' = calls + 1 /\ Unlock(r.t)
      /\ timer' = (timer \/ (r.t.disposeTimer /\ ~t.disposeTimer))
  BY DEF Call
<1>3. waits' \in [Callers -> Waits] /\ calls' \in Nat /\ timer' \in BOOLEAN
  BY <1>1, <1>2, Before DEF Answered
<1>4. \A k \in Callers : waits'[k] = IF k = c THEN r.wait ELSE waits[k]
  BY <1>2, Before
<1>5. Held(r.t, batch, agents', waits')
  BY <1>1, <1>4 DEF Answered, Held
<1>6. Flushed(agents', waits', calls')
  BY <1>1, <1>2, <1>3, <1>5, Before, Unlocks DEF Answered
<1>7. who' \in Owners
  <2>1. who.deliver \in Nat
    BY Before DEF Owners
  <2> QED
    BY <2>1, RolesType DEF Call
<1> QED
  BY <1>3, <1>6, <1>7, Before, Finish

\* The invariant is inductive.
LEMMA InvNext ==
  ASSUME TunnelInv, [Next]_vars
  PROVE  TunnelInv'
<1>1. CASE FlushItem
  <2>1. Held(t, batch', agents', waits)
    BY <1>1, HeldRun
  <2>2. batch' = Tail(batch) /\ batch # << >> /\ UNCHANGED <<t, shown, inner, who, seen, waits, timer, calls, events>>
    BY <1>1 DEF FlushItem
  <2>3. batch' \in Seq(Items) /\ t.flushing
    BY <2>2, Before DEF TypeOK
  <2>4. Flushed(agents', waits', calls')
    BY <2>1, <2>2, <2>3, Before DEF Flushed
  <2>5. pumps' \in Nat
    BY <1>1, Before DEF FlushItem
  <2>6. agents' \subseteq [gen : Nat, dialled : BOOLEAN, closing : BOOLEAN]
    <3>1. Head(batch) \in Items
      BY <2>2, Before
    <3>2. \A a \in agents : [a EXCEPT !.closing = TRUE] \in [gen : Nat, dialled : BOOLEAN, closing : BOOLEAN]
      BY Before
    <3>3. ASSUME NEW item \in Items
          PROVE  [gen |-> item.gen, dialled |-> t.gen = item.gen, closing |-> FALSE]
                   \in [gen : Nat, dialled : BOOLEAN, closing : BOOLEAN]
      BY DEF Items
    <3>4. \/ agents' = agents
          \/ agents' = agents \cup {[gen |-> Head(batch).gen, dialled |-> t.gen = Head(batch).gen, closing |-> FALSE]}
          \/ agents' = {IF a.gen = Head(batch).gen THEN [a EXCEPT !.closing = TRUE] ELSE a : a \in agents}
      BY <1>1 DEF FlushItem
    <3>5. CASE agents' = agents \cup {[gen |-> Head(batch).gen, dialled |-> t.gen = Head(batch).gen, closing |-> FALSE]}
      BY <3>1, <3>3, <3>5, Before
    <3>6. CASE agents' = {IF a.gen = Head(batch).gen THEN [a EXCEPT !.closing = TRUE] ELSE a : a \in agents}
      BY <3>2, <3>6, Before
    <3> QED
      BY <3>4, <3>5, <3>6, Before
  <2> QED
    BY <2>2, <2>4, <2>5, <2>6, Before, Finish
<1>2. CASE FlushNext
  <2>1. batch = << >> /\ RunQueue(t, inner) /\ UNCHANGED <<agents, pumps, seen, waits, timer, calls, events>>
    BY <1>2 DEF FlushNext
  <2>2. Flushed(agents', waits', calls')
    BY <2>1, Before, RunsQueue
  <2>3. who' \in Owners
    BY <1>2, Before, RolesType DEF FlushNext, Owners
  <2> QED
    BY <2>1, <2>2, <2>3, Before, Finish
<1>3. CASE DeliverItem
  <2>1. shown' = Tail(shown) /\ shown # << >> /\ UNCHANGED <<t, agents, pumps, batch, inner, who, waits, timer, calls, events>>
    BY <1>3 DEF DeliverItem
  <2>2. shown' \in Seq(Statuses)
    BY <2>1, Before
  <2>3. Flushed(agents', waits', calls')
    BY <2>1, <2>2, Before DEF Flushed, TypeOK
  <2> QED
    BY <2>1, <2>3, Before, Finish
<1>4. CASE DeliverNext
  <2>1. UNCHANGED <<agents, pumps, seen, waits, timer, calls, events>>
    BY <1>4 DEF DeliverNext
  <2>4. who' \in Owners
    BY <1>4, Before, RolesType DEF DeliverNext, Owners
  <2>2. CASE t.flushing
    <3>1. TakeCallbacks(t, TRUE) /\ UNCHANGED <<batch, inner>>
      BY <1>4, <2>2 DEF DeliverNext
    <3>2. /\ t' \in TunnelRec /\ shown' \in Seq(Statuses) /\ SameConfigs(t, t') /\ SamePhase(t, t')
          /\ SameRest(t, t') /\ t'.idle = t.idle /\ t'.status = t.status
      BY <3>1, Before, TakesCallbacks
    <3>3. Wanted(t', calls)
      BY <3>2, Before, WantedSame DEF SamePhase, SameRest
    <3>4. Held(t', batch, agents, waits)
      BY <3>2, Before, HeldSame DEF SameConfigs
    <3>5. Flushed(agents', waits', calls')
      BY <2>1, <2>2, <3>1, <3>2, <3>3, <3>4, Before DEF Flushed, SameRest
    <3> QED
      BY <2>1, <2>4, <3>5, Before, Finish
  <2>3. CASE ~t.flushing
    <3>1. RunQueue(t, TRUE) /\ batch = << >>
      BY <1>4, <2>3, Before DEF DeliverNext, TypeOK
    <3>2. Flushed(agents', waits', calls')
      BY <2>1, <3>1, Before, RunsQueue
    <3> QED
      BY <2>1, <2>4, <3>2, Before, Finish
  <2> QED
    BY <2>2, <2>3
<1>5. CASE Pump
  <2>1. pumps > 0 /\ pumps' = pumps - 1 /\ Unlock(Pumped(t)) /\ UNCHANGED <<agents, seen, waits, timer, calls, events>>
    BY <1>5 DEF Pump
  <2>2. /\ Pumped(t) \in TunnelRec /\ SameRest(t, Pumped(t)) /\ Wanted(Pumped(t), calls)
        /\ Held(Pumped(t), batch, agents, waits)
    BY Before, Pumps
  <2>3. Flushed(agents', waits', calls')
    BY <2>1, <2>2, Before, Unlocks DEF SameRest
  <2>4. pumps' \in Nat
    BY <2>1, Before
  <2>5. who' \in Owners
    BY <1>5, RolesType DEF Pump
  <2> QED
    BY <2>1, <2>3, <2>4, <2>5, Before, Finish
<1>6. CASE DisposeTimerFires
  <2> DEFINE y == [t EXCEPT !.disposeTimer = FALSE, !.disposeDone = "closed"]
             z == IF t.disposeTimer THEN y ELSE t
  <2>1. timer' = FALSE /\ Unlock(z) /\ UNCHANGED <<agents, pumps, seen, waits, calls, events>>
    BY <1>6 DEF DisposeTimerFires
  <2>2. y \in TunnelRec
    BY Before, ZenonT(60) DEF TunnelRec
  <2>3. SameConfigs(t, y) /\ SamePhase(t, y) /\ SameRest(t, y) /\ y.idle = t.idle /\ y.status = t.status
    BY Before DEF TunnelRec, SameConfigs, SamePhase, SameRest
  <2> HIDE DEF y
  <2>4. z \in TunnelRec /\ SameConfigs(t, z) /\ SamePhase(t, z) /\ SameRest(t, z) /\ z.idle = t.idle /\ z.status = t.status
    <3>1. CASE t.disposeTimer
      BY <2>2, <2>3, <3>1
    <3>2. CASE ~t.disposeTimer
      BY <3>2, Before DEF SameConfigs, SamePhase, SameRest
    <3> QED
      BY <3>1, <3>2
  <2> HIDE DEF z
  <2>5. Wanted(z, calls)
    BY <2>4, Before, WantedSame DEF SamePhase, SameRest
  <2>6. Held(z, batch, agents, waits)
    BY <2>4, Before, HeldSame DEF SameConfigs
  <2>7. Flushed(agents', waits', calls')
    BY <2>1, <2>4, <2>5, <2>6, Before, Unlocks DEF SameRest
  <2>8. who' \in Owners
    BY <1>6, RolesType DEF DisposeTimerFires
  <2> QED
    BY <2>1, <2>7, <2>8, Before, Finish
<1>7. ASSUME NEW c \in Callers, Return(c) \/ GiveUp(c) PROVE TunnelInv'
  <2>1. waits' = [waits EXCEPT ![c] = NoWait]
        /\ UNCHANGED <<t, agents, pumps, batch, shown, inner, who, seen, timer, calls, events>>
    BY <1>7 DEF Return, GiveUp
  <2>2. NoWait \in Waits /\ Kept(t, batch, agents, NoWait)
    BY ShortWaits
  <2>3. waits' \in [Callers -> Waits] /\ \A k \in Callers : waits'[k] = IF k = c THEN NoWait ELSE waits[k]
    BY <2>1, <2>2, Before
  <2>4. Held(t, batch, agents, waits')
    BY <2>2, <2>3, Before DEF Held
  <2>5. Flushed(agents', waits', calls')
    BY <2>1, <2>4, Before DEF Flushed, TypeOK
  <2> QED
    BY <2>1, <2>3, <2>5, Before, Finish
<1>8. ASSUME NEW a \in agents, AgentCloses(a) PROVE TunnelInv'
  <2> DEFINE k == t.draining - 1
             y == [t EXCEPT !.draining = k]
             z == MaybeStart(y)
  <2>1. a.closing /\ agents' = agents \ {a} /\ Unlock(z) /\ UNCHANGED <<pumps, seen, waits, timer, calls, events>>
    BY <1>8 DEF AgentCloses
  <2>2. k \in Nat
    BY <2>1, Before, ClosesLast DEF Held
  <2>3. y \in TunnelRec
    <3> HIDE DEF k
    <3> QED
      BY <2>2, Before, ZenonT(60) DEF TunnelRec
  <2>4. /\ SameConfigs(t, y) /\ SameRest(t, y) /\ y.idle = t.idle /\ y.status = t.status /\ y.gen = t.gen
        /\ y.active = t.active /\ y.queue = t.queue /\ y.draining = t.draining - 1
    BY Before DEF TunnelRec, SameConfigs, SameRest
  <2> HIDE DEF y
  <2>5. Held(y, batch, agents \ {a}, waits)
    BY <2>1, <2>3, <2>4, Before, HeldClosed
  <2>6. Wanted(y, calls)
    BY <2>4, Before, WantedSame DEF SameRest
  <2>7. z \in TunnelRec /\ SameRest(y, z) /\ Wanted(z, calls) /\ Held(z, batch, agents \ {a}, waits)
    BY <2>3, <2>5, <2>6, Before, MaybeStarts
  <2> HIDE DEF z
  <2>8. Flushed(agents', waits', calls')
    BY <2>1, <2>4, <2>7, Before, Unlocks DEF SameRest
  <2>9. who' \in Owners
    BY <1>8, RolesType DEF AgentCloses
  <2> QED
    BY <2>1, <2>8, <2>9, Before, Finish
<1>9. CASE CallbackCalls
  <2>1. PICK r \in Results : Call("cb", r) /\ UNCHANGED <<agents, pumps, seen, events>>
    BY <1>9 DEF CallbackCalls
  <2> QED
    BY <2>1, CallStep DEF Callers
<1>10. ASSUME NEW c \in Mains, MainCalls(c) PROVE TunnelInv'
  <2>1. PICK r \in Results : Call(c, r) /\ UNCHANGED <<agents, pumps, seen, events>>
    BY <1>10 DEF MainCalls
  <2> QED
    BY <2>1, CallStep DEF Callers
<1>11. ASSUME NEW a \in agents,
              NEW ev \in SessionEvents \cup ClientEvents, NEW g \in {a.gen, 0}, AgentEvent(a, ev, g)
       PROVE  TunnelInv'
  <2> DEFINE y == IF a.gen = t.gen THEN OnEvent(t, ev) ELSE t
  <2>1. Unlock(y) /\ events' = events + 1 /\ UNCHANGED <<agents, pumps, seen, waits, timer, calls>>
    BY <1>11 DEF AgentEvent
  <2>2. y \in TunnelRec /\ SameRest(t, y) /\ Wanted(y, calls) /\ Held(y, batch, agents, waits)
    <3>1. CASE a.gen = t.gen
      <4>1. t.active # 0
        BY <3>1, Before, ActiveAgent DEF Held
      <4> QED
        BY <3>1, <4>1, Before, Hears
    <3>2. CASE a.gen # t.gen
      BY <3>2, Before DEF SameRest
    <3> QED
      BY <3>1, <3>2
  <2> HIDE DEF y
  <2>3. Flushed(agents', waits', calls')
    BY <2>1, <2>2, Before, Unlocks DEF SameRest
  <2>4. events' \in Nat
    BY <2>1, Before
  <2>5. who' \in Owners
    <3>1. g \in Nat
      BY Before
    <3> QED
      BY <1>11, <3>1, RolesType DEF AgentEvent
  <2> QED
    BY <2>1, <2>3, <2>4, <2>5, Before, Finish
<1>12. CASE UNCHANGED vars
  BY <1>12 DEF vars, TunnelInv, TypeOK
<1> QED
  BY <1>1, <1>2, <1>3, <1>4, <1>5, <1>6, <1>7, <1>8, <1>9, <1>10, <1>11, <1>12 DEF Next, Works, Callers

\* The invariant holds at first.
LEMMA InvInit == Init => TunnelInv
<1> SUFFICES ASSUME Init PROVE TunnelInv
  OBVIOUS
<1>1. << >> \in Seq(Items) /\ << >> \in Seq(Statuses) /\ None \in Configs /\ NoWait \in Waits /\ None.id = 0
  BY NoConfig, ShortWaits
<1>2. t \in TunnelRec
  BY <1>1 DEF Init, TunnelRec, Statuses
<1>3. TypeOK
  BY <1>1, <1>2 DEF Init, TypeOK, Owners
<1>4. Wanted(t, calls)
  BY <1>1 DEF Init, Wanted
<1>5. Resting(t, batch, agents)
  <2>1. TodoLen(<< >>, << >>) = 0
    BY DEF TodoLen
  <2> QED
    BY <2>1 DEF Init, Resting, PumpsBut
<1>6. \A c \in Callers : Kept(t, batch, agents, waits[c])
  BY DEF Init, Kept, NoWait
<1> QED
  BY <1>3, <1>4, <1>5, <1>6 DEF TunnelInv, OneAtATime

-----------------------------------------------------------------------------
(* The theorems                                                              *)

\* What every reachable state of the tunnel controller satisfies: what is wanted, applied and
\* active agree (Wanted), one generation at a time has an agent or is to have one
\* (OneAtATime), and a call's wait ends after the agents it waits for (Kept).
THEOREM TunnelInvariant == Spec => []TunnelInv
<1>1. Init => TunnelInv
  BY InvInit
<1>2. TunnelInv /\ [Next]_vars => TunnelInv'
  BY InvNext
<1> QED
  BY <1>1, <1>2, PTL DEF Spec

\* However Configure, Stop, Dispose, failures and late closes follow each other, startLocked
\* never makes a second connection while one is open.
THEOREM AlwaysOneConnection == Spec => []OneConnection
<1>1. TunnelInv => OneConnection
  <2> SUFFICES ASSUME TunnelInv PROVE OneConnection
    OBVIOUS
  <2> DEFINE D == {a \in agents : a.dialled}
  <2>1. agents = {} \/ \E e : agents = {e}
    <3>1. CASE Resting(t, batch, agents)
      BY <3>1 DEF Resting
    <3>2. CASE Running(t, batch, agents)
      BY <3>2 DEF Running
    <3>3. CASE Closing(t, batch, agents)
      BY <3>3 DEF Closing
    <3> QED
      BY <3>1, <3>2, <3>3 DEF TunnelInv, OneAtATime
  <2>2. D = {} \/ \E e : D = {e}
    BY <2>1
  <2>3. Cardinality({}) = 0 /\ \A e : Cardinality({e}) = 1
    BY FS_EmptySet, FS_Singleton
  <2>4. Cardinality(D) <= 1
    <3> HIDE DEF D
    <3>1. Cardinality(D) = 0 \/ Cardinality(D) = 1
      BY <2>2, <2>3, Zenon
    <3> QED
      BY <3>1
  <2> QED
    BY <2>4 DEF OneConnection
<1> QED
  BY <1>1, TunnelInvariant, PTL

\* Once nothing is pending, the connection is the last config's, and the status its.
THEOREM AlwaysLastWins == Spec => []LastWins
<1>1. TunnelInv => LastWins
  BY DEF TunnelInv, Wanted, LastWins, Idle
<1> QED
  BY <1>1, TunnelInvariant, PTL

\* A Configure or Stop that returns has seen every connection older than the call close.
THEOREM AlwaysReturnsAfterClose == Spec => []ReturnsAfterClose
<1>1. TunnelInv => ReturnsAfterClose
  <2> SUFFICES ASSUME TunnelInv, NEW c \in Callers, waits[c].on > 0, Released(waits[c]), NEW a \in agents
               PROVE  a.gen > waits[c].gen
    BY DEF ReturnsAfterClose
  <2>1. waits[c].on < t.idle
    BY Before DEF Released, TunnelRec, Waits
  <2> QED
    BY <2>1 DEF TunnelInv, Kept, Younger
<1> QED
  BY <1>1, TunnelInvariant, PTL
=============================================================================
