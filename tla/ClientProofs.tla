---------------------------- MODULE ClientProofs ----------------------------
(***************************************************************************)
(* Proofs about Client, for any number of ids, attempts, drains, closers   *)
(* and configurations: ClientInv is inductive, and ReportedOnce, NoOrphan, *)
(* OneDriver and ClosedIsFinal follow from it.                             *)
(*                                                                         *)
(* The steps fall into a few kinds: an attempt goes on or ends, a watcher  *)
(* that decides goes on or ends, a fatal path ends the client, a goroutine *)
(* starts the next attempt, something happens beside all that.  One lemma  *)
(* per kind says that such a step keeps the invariant, and so does one for *)
(* each step that hands a connection over; then each action is shown to be *)
(* a step of one of these kinds.                                           *)
(***************************************************************************)
EXTENDS Client, FiniteSetTheorems, TLAPS

\* An id is not 0, which stands for nil.
LEMMA IdRange == 0 \in 0 .. N /\ Ids \subseteq 0 .. N /\ 0 \notin Ids /\ \A i \in 0 .. N : i # 0 => i \in Ids
  BY ClientAssumption DEF Ids

\* A goroutine moves to another place.
LEMMA Move ==
  ASSUME NEW p \in [Threads -> Places], NEW k \in Kinds, NEW i \in Ids, NEW v \in Places
  PROVE  /\ [p EXCEPT ![<<k, i>>] = v] \in [Threads -> Places]
         /\ \A l \in Kinds, j \in Ids :
              [p EXCEPT ![<<k, i>>] = v][<<l, j>>] = IF l = k /\ j = i THEN v ELSE p[<<l, j>>]
<1>1. <<k, i>> \in Threads /\ \A l \in Kinds, j \in Ids : <<l, j>> \in Threads
  BY DEF Threads
<1>2. \A l \in Kinds, j \in Ids : <<l, j>> = <<k, i>> <=> l = k /\ j = i
  OBVIOUS
<1> QED
  BY <1>1, <1>2

\* Two goroutines move to other places.
LEMMA MoveTwo ==
  ASSUME NEW p \in [Threads -> Places], NEW k \in Kinds, NEW i \in Ids, NEW v \in Places,
         NEW m \in Kinds, NEW h \in Ids, NEW w \in Places
  PROVE  /\ [p EXCEPT ![<<k, i>>] = v, ![<<m, h>>] = w] \in [Threads -> Places]
         /\ \A l \in Kinds, j \in Ids :
              [p EXCEPT ![<<k, i>>] = v, ![<<m, h>>] = w][<<l, j>>] =
                IF l = m /\ j = h THEN w ELSE IF l = k /\ j = i THEN v ELSE p[<<l, j>>]
<1> DEFINE q == [p EXCEPT ![<<k, i>>] = v]
<1>1. /\ q \in [Threads -> Places]
      /\ \A l \in Kinds, j \in Ids : q[<<l, j>>] = IF l = k /\ j = i THEN v ELSE p[<<l, j>>]
  BY Move
<1> DEFINE r == [p EXCEPT ![<<k, i>>] = v, ![<<m, h>>] = w]
<1>2. r = [q EXCEPT ![<<m, h>>] = w]
  OBVIOUS
<1> HIDE DEF q
<1>3. /\ [q EXCEPT ![<<m, h>>] = w] \in [Threads -> Places]
      /\ \A l \in Kinds, j \in Ids :
           [q EXCEPT ![<<m, h>>] = w][<<l, j>>] = IF l = m /\ j = h THEN w ELSE q[<<l, j>>]
  BY <1>1, Move
<1> HIDE DEF r
<1>4. r \in [Threads -> Places]
  BY <1>2, <1>3
<1>5. \A l \in Kinds, j \in Ids :
        r[<<l, j>>] = IF l = m /\ j = h THEN w ELSE IF l = k /\ j = i THEN v ELSE p[<<l, j>>]
  <2>1. \A l \in Kinds, j \in Ids : r[<<l, j>>] = IF l = m /\ j = h THEN w ELSE q[<<l, j>>]
    BY <1>2, <1>3
  <2>2. \A l \in Kinds, j \in Ids : q[<<l, j>>] = IF l = k /\ j = i THEN v ELSE p[<<l, j>>]
    BY <1>1
  <2> QED
    BY <2>1, <2>2
<1> QED
  BY <1>4, <1>5 DEF r

\* What the helpers do to the connections.
LEMMA AskedOK ==
  ASSUME NEW c \in [Ids -> ConnRec], NEW S
  PROVE  /\ Asked(c, S) \in [Ids -> ConnRec]
         /\ \A j \in Ids : /\ Asked(c, S)[j].live = c[j].live /\ Asked(c, S)[j].reports = c[j].reports
                           /\ Asked(c, S)[j].current <=> c[j].current
                           /\ Asked(c, S)[j].asked <=> c[j].asked \/ (j \in S /\ c[j].live = "up")
  BY DEF Asked, ConnRec

\* Reported counts one more report of the end of i and does nothing else.
LEMMA ReportedOK ==
  ASSUME NEW c \in [Ids -> ConnRec], NEW i \in Ids
  PROVE  /\ Reported(c, i) \in [Ids -> ConnRec]
         /\ \A j \in Ids : /\ Reported(c, i)[j].live = c[j].live
                           /\ Reported(c, i)[j].reports = IF j = i THEN c[j].reports + 1 ELSE c[j].reports
                           /\ Reported(c, i)[j].current <=> c[j].current
                           /\ Reported(c, i)[j].asked <=> c[j].asked
  BY DEF Reported, ConnRec

\* A new attempt takes an id that nothing refers to.
LEMMA FreshOK ==
  ASSUME CanSpawn
  PROVE  Fresh \in Ids /\ Free(Fresh)
  BY DEF CanSpawn, Fresh

\* Before Connect every id is free.
LEMMA FreeAtStart ==
  ASSUME StartInv, EndInv, CurrentInv, ~cl.started, ~cl.closing
  PROVE  CanSpawn
<1>1. 1 \in Ids
  BY ClientAssumption DEF Ids
<1>2. Free(1)
  BY <1>1, IdRange DEF Free, StartInv, CurrentInv
<1> QED
  BY <1>1, <1>2 DEF CanSpawn

\* A watcher of the current connection only reports while the client closes or a replacement
\* is on its way, and decides otherwise.
LEMMA VerdictOK ==
  ASSUME FieldType, CurrentInv, NEW i \in Ids, NEW code \in Codes
  PROVE  /\ cl.closing \/ cl.drainSched => Verdict(i, code) = "report"
         /\ ~cl.closing /\ ~cl.drainSched =>
              Verdict(i, code) \in {"goFatal", "handOver", "keepalive", "againLater"}
<1>1. cl.drainSched => ~cl.drainedNoReconnect
  BY DEF CurrentInv, FieldType, ClientRec
<1>2. cl.closing \in BOOLEAN /\ cl.drainSched \in BOOLEAN /\ cl.drainedNoReconnect \in BOOLEAN
  BY DEF FieldType, ClientRec
<1> QED
  BY <1>1, <1>2 DEF Verdict

\* What an action does to the goroutines of a kind: nothing, or one of them moves to v.
Kept(k) == \A j \in Ids : pc'[<<k, j>>] = pc[<<k, j>>]
Only(k, i, v) == \A j \in Ids : pc'[<<k, j>>] = IF j = i THEN v ELSE pc[<<k, j>>]

\* What decides which fields refer to which connection stays as it is.
FieldsKept ==
  /\ cl'.conn = cl.conn /\ cl'.retiring = cl.retiring /\ cl'.graceful = cl.graceful
  /\ cl'.retired = cl.retired /\ cl'.drainSched = cl.drainSched
  /\ cl'.closing = cl.closing /\ cl'.started = cl.started
FieldsOK ==
  /\ cl' \in ClientRec /\ (cl'.closing => cl'.state = "closed") /\ (~cl'.closing => ~cl'.closeCh)
  /\ cl'.drainedNoReconnect => cl.drainedNoReconnect \/ config.disabled
  /\ cl'.cbClosed => cl'.closing /\ (cl.cbClosed \/ WgZero)

\* What is said about a connection stays as it is, or a local Close of it starts.
ConnKept(j) ==
  /\ conns'[j].live = conns[j].live /\ conns'[j].asked = conns[j].asked
  /\ conns'[j].current = conns[j].current /\ conns'[j].reports = conns[j].reports
ConnMore(j) ==
  /\ conns'[j].live = conns[j].live /\ (conns[j].asked => conns'[j].asked)
  /\ conns'[j].current = conns[j].current /\ conns'[j].reports = conns[j].reports

\* What happens beside the hand-over of connections: goroutines on the side end, a local
\* Close starts, a connection ends, a call of Close goes on and forgets its connections.
SidePcs ==
  /\ pc' \in [Threads -> Places] /\ Kept("attempt")
  /\ \A j \in Ids : \/ pc'[<<"watch", j>>] = pc[<<"watch", j>>]
                    \/ cl.closing /\ pc[<<"watch", j>>] = "watching" /\ pc'[<<"watch", j>>] = "ending"
                    \/ /\ pc[<<"watch", j>>] \in {"watching", "ending"} /\ pc'[<<"watch", j>>] = "none"
                       /\ ~Up(j) /\ j # cl.conn
  /\ \A j \in Ids : \/ pc'[<<"retire", j>>] = pc[<<"retire", j>>]
                    \/ pc[<<"retire", j>>] = "serving" /\ pc'[<<"retire", j>>] = "closing"
  /\ \A j \in Ids : pc'[<<"stable", j>>] \in {"none", pc[<<"stable", j>>]}
  /\ \A j \in Ids : pc'[<<"drain", j>>] = pc[<<"drain", j>>] \/ (cl.closing /\ pc'[<<"drain", j>>] = "none")
SideConns ==
  /\ conns' \in [Ids -> ConnRec]
  /\ \A j \in Ids : /\ Up(j)' => Up(j) /\ (conns[j].asked => conns'[j].asked)
                    /\ conns'[j].current = conns[j].current /\ conns'[j].reports = conns[j].reports
SideClosers ==
  /\ closer' \in [Closers -> CloserRec]
  /\ \A x \in Closers : closer'[x] = closer[x] \/ (closer'[x].pc # "idle" /\ cl.closing)
  /\ \A x \in Closers : /\ closer'[x].conn \in {0, closer[x].conn}
                        /\ closer'[x].retiring \in {0, closer[x].retiring}

\* A goroutine of i ends and starts an attempt under the id f; a watcher also reports.
ReadyToSpawn(kind, i) ==
  /\ kind = "attempt" => Young(i) /\ ~Up(i)
  /\ kind = "watch" => pc[<<"watch", i>>] \in Deciding
  /\ kind = "drain" => pc[<<"drain", i>>] = "track" /\ ~cl.closing
SpawnPcs(kind, i, f, v) == pc' = [pc EXCEPT ![<<"attempt", f>>] = v, ![<<kind, i>>] = "none"]
SpawnConns(kind, i, f) ==
  /\ conns' \in [Ids -> ConnRec]
  /\ \A j \in Ids : j # i /\ j # f => ConnKept(j)
  /\ i # f => /\ conns'[i].live = conns[i].live /\ conns'[i].asked = conns[i].asked
              /\ conns'[i].current = conns[i].current
              /\ conns'[i].reports = IF kind = "watch" THEN conns[i].reports + 1 ELSE conns[i].reports
  /\ conns'[f].live = "none" /\ conns'[f].reports = 0 /\ ~conns'[f].current

\* One goroutine moves: an attempt...
LEMMA MoveAttempt ==
  ASSUME PlaceType, NEW i \in Ids, NEW v \in AttemptPcs, pc' = [pc EXCEPT ![<<"attempt", i>>] = v]
  PROVE  /\ pc' \in [Threads -> Places] /\ Only("attempt", i, v)
         /\ Kept("watch") /\ Kept("retire") /\ Kept("stable") /\ Kept("drain")
<1>1. "attempt" \in Kinds /\ "watch" \in Kinds /\ "retire" \in Kinds /\ "stable" \in Kinds /\ "drain" \in Kinds
  BY DEF Kinds
<1>2. pc \in [Threads -> Places] /\ v \in Places
  BY DEF PlaceType, Places
<1> QED
  BY <1>1, <1>2, Move DEF Only, Kept

\* ...a watcher...
LEMMA MoveWatch ==
  ASSUME PlaceType, NEW i \in Ids, NEW v \in Deciding \cup {"none", "watching", "ending"},
         pc' = [pc EXCEPT ![<<"watch", i>>] = v]
  PROVE  /\ pc' \in [Threads -> Places] /\ Only("watch", i, v)
         /\ Kept("attempt") /\ Kept("retire") /\ Kept("stable") /\ Kept("drain")
<1>1. "attempt" \in Kinds /\ "watch" \in Kinds /\ "retire" \in Kinds /\ "stable" \in Kinds /\ "drain" \in Kinds
  BY DEF Kinds
<1>2. pc \in [Threads -> Places] /\ v \in Places
  BY DEF PlaceType, Places, AttemptPcs
<1> QED
  BY <1>1, <1>2, Move DEF Only, Kept

\* ...a retire goroutine...
LEMMA MoveRetire ==
  ASSUME PlaceType, NEW i \in Ids, NEW v \in {"none", "serving", "closing"},
         pc' = [pc EXCEPT ![<<"retire", i>>] = v]
  PROVE  /\ pc' \in [Threads -> Places] /\ Only("retire", i, v)
         /\ Kept("attempt") /\ Kept("watch") /\ Kept("stable") /\ Kept("drain")
<1>1. "attempt" \in Kinds /\ "watch" \in Kinds /\ "retire" \in Kinds /\ "stable" \in Kinds /\ "drain" \in Kinds
  BY DEF Kinds
<1>2. pc \in [Threads -> Places] /\ v \in Places
  BY DEF PlaceType, Places, AttemptPcs
<1> QED
  BY <1>1, <1>2, Move DEF Only, Kept

\* ...a stable timer...
LEMMA MoveStable ==
  ASSUME PlaceType, NEW i \in Ids, NEW v \in {"none", "waiting"},
         pc' = [pc EXCEPT ![<<"stable", i>>] = v]
  PROVE  /\ pc' \in [Threads -> Places] /\ Only("stable", i, v)
         /\ Kept("attempt") /\ Kept("watch") /\ Kept("retire") /\ Kept("drain")
<1>1. "attempt" \in Kinds /\ "watch" \in Kinds /\ "retire" \in Kinds /\ "stable" \in Kinds /\ "drain" \in Kinds
  BY DEF Kinds
<1>2. pc \in [Threads -> Places] /\ v \in Places
  BY DEF PlaceType, Places, AttemptPcs
<1> QED
  BY <1>1, <1>2, Move DEF Only, Kept

\* ...or the goroutine a drain starts.
LEMMA MoveDrain ==
  ASSUME PlaceType, NEW i \in Ids, NEW v \in {"none", "track"},
         pc' = [pc EXCEPT ![<<"drain", i>>] = v]
  PROVE  /\ pc' \in [Threads -> Places] /\ Only("drain", i, v)
         /\ Kept("attempt") /\ Kept("watch") /\ Kept("retire") /\ Kept("stable")
<1>1. "attempt" \in Kinds /\ "watch" \in Kinds /\ "retire" \in Kinds /\ "stable" \in Kinds /\ "drain" \in Kinds
  BY DEF Kinds
<1>2. pc \in [Threads -> Places] /\ v \in Places
  BY DEF PlaceType, Places, AttemptPcs
<1> QED
  BY <1>1, <1>2, Move DEF Only, Kept

\* The driver stays the same when no goroutine starts or stops being one.
LEMMA DriverSame ==
  ASSUME DriverInv, cl'.started = cl.started, cl'.closing = cl.closing, cl'.conn = cl.conn,
         cl'.drainSched = cl.drainSched,
         \A k \in Kinds, j \in Ids : Drives(k, pc'[<<k, j>>]) <=> Drives(k, pc[<<k, j>>])
  PROVE  DriverInv'
<1>1. CASE ~(cl.started /\ ~cl.closing)
  BY <1>1 DEF DriverInv
<1>2. CASE cl.started /\ ~cl.closing /\ cl.conn # 0 /\ ~cl.drainSched
  BY <1>2 DEF DriverInv
<1>3. CASE cl.started /\ ~cl.closing /\ ~(cl.conn # 0 /\ ~cl.drainSched)
  <2>1. PICK kind \in Kinds, id \in Ids :
          \A k \in Kinds, j \in Ids : Drives(k, pc[<<k, j>>]) <=> k = kind /\ j = id
    BY <1>3 DEF DriverInv
  <2>2. \A k \in Kinds, j \in Ids : Drives(k, pc'[<<k, j>>]) <=> k = kind /\ j = id
    BY <2>1
  <2> QED
    BY <1>3, <2>2 DEF DriverInv
<1> QED
  BY <1>1, <1>2, <1>3

\* A goroutine that drives is the only driver.
LEMMA WhoDrives ==
  ASSUME DriverInv, cl.started, ~cl.closing, NEW kind \in Kinds, NEW id \in Ids, Drives(kind, pc[<<kind, id>>])
  PROVE  /\ ~(cl.conn # 0 /\ ~cl.drainSched)
         /\ \A k \in Kinds, j \in Ids : Drives(k, pc[<<k, j>>]) <=> k = kind /\ j = id
<1>1. ~(cl.conn # 0 /\ ~cl.drainSched)
  BY DEF DriverInv
<1>2. PICK m \in Kinds, h \in Ids : \A k \in Kinds, j \in Ids : Drives(k, pc[<<k, j>>]) <=> k = m /\ j = h
  BY <1>1 DEF DriverInv
<1>3. m = kind /\ h = id
  BY <1>2
<1> QED
  BY <1>1, <1>2, <1>3

\* One goroutine drives after the step.
LEMMA NewDriver ==
  ASSUME NEW kind \in Kinds, NEW id \in Ids, ~(cl'.conn # 0 /\ ~cl'.drainSched),
         \A k \in Kinds, j \in Ids : Drives(k, pc'[<<k, j>>]) <=> k = kind /\ j = id
  PROVE  DriverInv'
  BY DEF DriverInv

\* The moves of Supersede and of Publish.
LEMMA MoveToRetire ==
  ASSUME PlaceType, NEW i \in Ids, NEW o \in Ids,
         pc' = [pc EXCEPT ![<<"attempt", i>>] = "publish", ![<<"retire", o>>] = "serving"]
  PROVE  /\ pc' \in [Threads -> Places] /\ Only("attempt", i, "publish") /\ Only("retire", o, "serving")
         /\ Kept("watch") /\ Kept("stable") /\ Kept("drain")
<1>1. "attempt" \in Kinds /\ "watch" \in Kinds /\ "retire" \in Kinds /\ "stable" \in Kinds /\ "drain" \in Kinds
  BY DEF Kinds
<1>2. pc \in [Threads -> Places] /\ "publish" \in Places /\ "serving" \in Places
  BY DEF PlaceType, Places, AttemptPcs
<1>3. \A l \in Kinds, j \in Ids : <<l, j>> \in Threads
  BY DEF Threads
<1>4. pc' \in [Threads -> Places]
  BY <1>1, <1>2, <1>3
<1>5. Only("attempt", i, "publish") /\ Only("retire", o, "serving")
  BY <1>1, <1>2, <1>3 DEF Only
<1>6. Kept("watch") /\ Kept("stable") /\ Kept("drain")
  BY <1>1, <1>2, <1>3 DEF Kept
<1> QED
  BY <1>4, <1>5, <1>6

\* A publishing attempt ends, and its watcher and stable timer start.
LEMMA MoveToWatch ==
  ASSUME PlaceType, NEW i \in Ids,
         pc' = [pc EXCEPT ![<<"attempt", i>>] = "none", ![<<"watch", i>>] = "watching", ![<<"stable", i>>] = "waiting"]
  PROVE  /\ pc' \in [Threads -> Places] /\ Only("attempt", i, "none") /\ Only("watch", i, "watching")
         /\ Only("stable", i, "waiting") /\ Kept("retire") /\ Kept("drain")
<1>1. "attempt" \in Kinds /\ "watch" \in Kinds /\ "retire" \in Kinds /\ "stable" \in Kinds /\ "drain" \in Kinds
  BY DEF Kinds
<1>2. pc \in [Threads -> Places] /\ "none" \in Places /\ "watching" \in Places /\ "waiting" \in Places
  BY DEF PlaceType, Places, AttemptPcs
<1>3. \A l \in Kinds, j \in Ids : <<l, j>> \in Threads
  BY DEF Threads
<1>4. pc' \in [Threads -> Places]
  BY <1>1, <1>2, <1>3
<1>5. Only("attempt", i, "none") /\ Only("watch", i, "watching") /\ Only("stable", i, "waiting")
  BY <1>1, <1>2, <1>3 DEF Only
<1>6. Kept("retire") /\ Kept("drain")
  BY <1>1, <1>2, <1>3 DEF Kept
<1> QED
  BY <1>4, <1>5, <1>6

\* The places stay in their types when only attempts and watchers move.
LEMMA PlacesKept ==
  ASSUME PlaceType, pc' \in [Threads -> Places], \A j \in Ids : pc'[<<"attempt", j>>] \in AttemptPcs,
         \A j \in Ids : pc'[<<"watch", j>>] \in Deciding \cup {"none", "watching", "ending"},
         Kept("retire"), Kept("stable"), Kept("drain")
  PROVE  PlaceType'
  BY DEF PlaceType, Kept

\* ...when only an attempt moves...
LEMMA PlacesAttempt ==
  ASSUME PlaceType, NEW i \in Ids, NEW v \in AttemptPcs, pc' \in [Threads -> Places], Only("attempt", i, v),
         Kept("watch"), Kept("retire"), Kept("stable"), Kept("drain")
  PROVE  PlaceType'
<1>1. \A j \in Ids : pc'[<<"attempt", j>>] \in AttemptPcs
  BY DEF PlaceType, Only
<1>2. \A j \in Ids : pc'[<<"watch", j>>] \in Deciding \cup {"none", "watching", "ending"}
  BY DEF PlaceType, Kept
<1> QED
  BY <1>1, <1>2, PlacesKept

\* ...and when only a watcher does.
LEMMA PlacesWatch ==
  ASSUME PlaceType, NEW i \in Ids, NEW v \in Deciding \cup {"none", "watching", "ending"},
         pc' \in [Threads -> Places], Only("watch", i, v),
         Kept("attempt"), Kept("retire"), Kept("stable"), Kept("drain")
  PROVE  PlaceType'
<1>1. \A j \in Ids : pc'[<<"watch", j>>] \in Deciding \cup {"none", "watching", "ending"}
  BY DEF PlaceType, Only
<1>2. \A j \in Ids : pc'[<<"attempt", j>>] \in AttemptPcs
  BY DEF PlaceType, Kept
<1> QED
  BY <1>1, <1>2, PlacesKept

-----------------------------------------------------------------------------
(* The kinds of steps                                                      *)

\* An attempt whose connection has not become current goes on.
LEMMA YoungMoves ==
  ASSUME ClientInv, NEW i \in Ids, Young(i), NEW v \in AttemptPcs \ {"none", "superseding", "publish"},
         pc' = [pc EXCEPT ![<<"attempt", i>>] = v], v = "fatal" => cl.closing,
         FieldsKept, FieldsOK, config' = config,
         result' \in [Ids -> {"none", "ok", "fatal", "now", "later"}], v = "result" => result'[i] # "none",
         \A j \in Ids : j # i => result'[j] = result[j],
         conns' \in [Ids -> ConnRec], \A j \in Ids : j # i => ConnKept(j),
         conns'[i].reports = conns[i].reports, conns'[i].current = conns[i].current,
         Up(i)' => v = "landed" \/ (v = "result" /\ result'[i] = "ok"),
         UNCHANGED <<prev, closer, taken, cbWait>>
  PROVE  ClientInv'
<1>0. /\ FieldType /\ ConnType /\ CloserType /\ PlaceType /\ LocalType /\ EndInv /\ StartInv /\ YoungInv
      /\ CurrentInv /\ HandInv /\ ReportInv /\ WatchedInv /\ NoOrphan /\ DriverInv
  BY DEF ClientInv, TypeOK
<1>1. /\ pc' \in [Threads -> Places] /\ Only("attempt", i, v)
      /\ Kept("watch") /\ Kept("retire") /\ Kept("stable") /\ Kept("drain")
  BY <1>0, MoveAttempt
<1>2. FieldType'
  BY <1>0, <1>1 DEF FieldType, FieldsOK
<1>3. ConnType'
  BY <1>0, <1>1 DEF ConnType
<1>4. CloserType'
  BY <1>0, <1>1 DEF CloserType
<1>5. PlaceType'
  BY <1>0, <1>1, PlacesAttempt
<1>6. LocalType'
  BY <1>0, <1>1 DEF LocalType, Only
<1>7. EndInv'
  BY <1>0, <1>1 DEF EndInv, WgZero, Kinds, FieldsKept, FieldsOK, Only, Kept, Young
<1>8. StartInv'
  BY <1>0, <1>1 DEF StartInv, Young, FieldsKept, Kinds
<1>9. YoungInv'
  <2>1. \A j \in Ids : Referred(j)' => Referred(j)
    BY <1>0, <1>1 DEF Referred, FieldsKept, Kept
  <2> QED
    BY <1>0, <1>1, <2>1 DEF YoungInv, Young, Up, Only, ConnKept
<1>10. CurrentInv'
  <2>1. cl.conn # i
    BY <1>0 DEF YoungInv, Referred
  <2>2. cl.conn # 0 => cl.conn \in Ids
    BY <1>0, IdRange DEF FieldType, ClientRec
  <2> QED
    BY <1>0, <1>1, <2>1, <2>2 DEF CurrentInv, FieldsKept, FieldsOK, Only, Kept
<1>11. HandInv'
  BY <1>0, <1>1 DEF HandInv, Young, FieldsKept, Only, Kept
<1>12. ReportInv'
  <2>1. \A j \in Ids : Owed(j)' <=> Owed(j)
    BY <1>0, <1>1 DEF Owed, FieldsKept, Kept
  <2>2. \A j \in Ids : conns'[j].reports = conns[j].reports /\ conns'[j].current = conns[j].current
    BY <1>0, <1>1 DEF ConnKept
  <2> QED
    BY <1>0, <2>1, <2>2 DEF ReportInv, FieldsKept
<1>13. WatchedInv'
  BY <1>0, <1>1 DEF WatchedInv, Up, ConnKept, Only, Kept
<1>14. NoOrphan'
  BY <1>0, <1>1 DEF NoOrphan, Up, ConnKept, FieldsKept, Only
<1>15. DriverInv'
  <2>1. \A k \in Kinds, j \in Ids : Drives(k, pc'[<<k, j>>]) <=> Drives(k, pc[<<k, j>>])
    BY <1>0, <1>1 DEF Drives, Kinds, Young, Only, Kept
  <2> QED
    BY <1>0, <2>1, DriverSame DEF FieldsKept
<1> QED
  BY <1>2, <1>3, <1>4, <1>5, <1>6, <1>7, <1>8, <1>9, <1>10, <1>11, <1>12, <1>13, <1>14, <1>15 DEF ClientInv, TypeOK

\* While the client closes such an attempt may end; its connection is closed.
LEMMA YoungEnds ==
  ASSUME ClientInv, cl.closing, NEW i \in Ids, Young(i), pc' = [pc EXCEPT ![<<"attempt", i>>] = "none"],
         FieldsKept, FieldsOK, config' = config,
         result' \in [Ids -> {"none", "ok", "fatal", "now", "later"}], \A j \in Ids : j # i => result'[j] = result[j],
         conns' \in [Ids -> ConnRec], \A j \in Ids : ConnMore(j), Up(i) => conns'[i].asked,
         cbWait' \in BOOLEAN, UNCHANGED <<prev, closer, taken>>
  PROVE  ClientInv'
<1>0. /\ FieldType /\ ConnType /\ CloserType /\ PlaceType /\ LocalType /\ EndInv /\ StartInv /\ YoungInv
      /\ CurrentInv /\ HandInv /\ ReportInv /\ WatchedInv /\ NoOrphan /\ DriverInv
  BY DEF ClientInv, TypeOK
<1>1. /\ pc' \in [Threads -> Places] /\ Only("attempt", i, "none")
      /\ Kept("watch") /\ Kept("retire") /\ Kept("stable") /\ Kept("drain")
  BY <1>0, MoveAttempt DEF AttemptPcs
<1>2. "none" \in AttemptPcs
  BY DEF AttemptPcs
<1>3. FieldType'
  BY <1>0, <1>1, <1>2 DEF FieldType, FieldsOK
<1>4. ConnType'
  BY <1>0, <1>1, <1>2 DEF ConnType
<1>5. CloserType'
  BY <1>0, <1>1, <1>2 DEF CloserType
<1>6. PlaceType'
  BY <1>0, <1>1, <1>2, PlacesAttempt
<1>7. LocalType'
  BY <1>0, <1>1, <1>2 DEF LocalType, Only
<1>8. EndInv'
  BY <1>0, <1>1, <1>2 DEF EndInv, WgZero, Kinds, FieldsKept, FieldsOK, Only, Kept, Young
<1>9. StartInv'
  BY <1>0, <1>1, <1>2 DEF StartInv, Young, FieldsKept, Kinds
<1>10. YoungInv'
  <2>1. \A j \in Ids : Referred(j)' => Referred(j)
    BY <1>0, <1>1, <1>2 DEF Referred, FieldsKept, Kept
  <2> QED
    BY <1>0, <1>1, <1>2, <2>1 DEF YoungInv, Young, Up, Only, ConnMore
<1>11. CurrentInv'
  BY <1>0, <1>1, <1>2 DEF CurrentInv, FieldType, ClientRec, FieldsKept, FieldsOK
<1>12. HandInv'
  BY <1>0, <1>1, <1>2 DEF HandInv, Young, FieldsKept, Only, Kept
<1>13. ReportInv'
  <2>1. \A j \in Ids : Owed(j)' <=> Owed(j)
    BY <1>0, <1>1, <1>2 DEF Owed, FieldsKept, Kept
  <2>2. \A j \in Ids : conns'[j].reports = conns[j].reports /\ conns'[j].current = conns[j].current
    BY <1>0, <1>1, <1>2 DEF ConnMore
  <2> QED
    BY <1>0, <2>1, <2>2 DEF ReportInv, FieldsKept
<1>14. WatchedInv'
  BY <1>0, <1>1, <1>2 DEF WatchedInv, Up, ConnMore, Only, Kept
<1>15. NoOrphan'
  BY <1>0, <1>1, <1>2 DEF NoOrphan, Up, ConnMore, FieldsKept, Only
<1>16. DriverInv'
  BY <1>0, <1>1, <1>2 DEF DriverInv, FieldsKept
<1> QED
  BY <1>3, <1>4, <1>5, <1>6, <1>7, <1>8, <1>9, <1>10, <1>11, <1>12, <1>13, <1>14, <1>15, <1>16 DEF ClientInv, TypeOK

\* A watcher whose connection has ended goes on.
LEMMA DeciderMoves ==
  ASSUME ClientInv, NEW i \in Ids, pc[<<"watch", i>>] \in Deciding, NEW v \in Deciding,
         pc' = [pc EXCEPT ![<<"watch", i>>] = v], v = "fatal" => cl.closing,
         FieldsKept, FieldsOK, UNCHANGED <<config, result, conns, prev, closer, taken, cbWait>>
  PROVE  ClientInv'
<1>0. /\ FieldType /\ ConnType /\ CloserType /\ PlaceType /\ LocalType /\ EndInv /\ StartInv /\ YoungInv
      /\ CurrentInv /\ HandInv /\ ReportInv /\ WatchedInv /\ NoOrphan /\ DriverInv
  BY DEF ClientInv, TypeOK
<1>1. /\ pc' \in [Threads -> Places] /\ Only("watch", i, v)
      /\ Kept("attempt") /\ Kept("retire") /\ Kept("stable") /\ Kept("drain")
  BY <1>0, MoveWatch
<1>2. \A j \in Ids : pc'[<<"watch", j>>] \in Deciding <=> pc[<<"watch", j>>] \in Deciding
  BY <1>1 DEF Only
<1>3. "none" \notin Deciding /\ "watching" \notin Deciding /\ "ending" \notin Deciding
  BY DEF Deciding
<1>4. FieldType'
  BY <1>0, <1>1, <1>2, <1>3 DEF FieldType, FieldsOK
<1>5. ConnType'
  BY <1>0, <1>1, <1>2, <1>3 DEF ConnType
<1>6. CloserType'
  BY <1>0, <1>1, <1>2, <1>3 DEF CloserType
<1>7. PlaceType'
  BY <1>0, <1>1, PlacesWatch
<1>8. LocalType'
  BY <1>0, <1>1, <1>2, <1>3 DEF LocalType, Kept
<1>9. EndInv'
  BY <1>0, <1>1, <1>2, <1>3 DEF EndInv, WgZero, Kinds, FieldsKept, FieldsOK, Only, Kept
<1>10. StartInv'
  BY <1>0, <1>1, <1>2, <1>3 DEF StartInv, FieldsKept, Kinds
<1>11. YoungInv'
  <2>1. \A j \in Ids : Referred(j)' => Referred(j)
    BY <1>0, <1>1, <1>2, <1>3 DEF Referred, FieldsKept, Only, Kept
  <2> QED
    BY <1>0, <1>1, <1>2, <1>3, <2>1 DEF YoungInv, Young, Up, Kept
<1>12. CurrentInv'
  BY <1>0, <1>1, <1>2, <1>3 DEF CurrentInv, FieldType, ClientRec, FieldsKept, FieldsOK, Only, Kept
<1>13. HandInv'
  BY <1>0, <1>1, <1>2, <1>3 DEF HandInv, FieldsKept, Only, Kept
<1>14. ReportInv'
  <2>1. \A j \in Ids : Owed(j)' <=> Owed(j)
    BY <1>1, <1>2 DEF Owed, FieldsKept, Kept
  <2>2. \A j \in Ids : conns'[j].reports = conns[j].reports /\ conns'[j].current = conns[j].current
    OBVIOUS
  <2> QED
    BY <1>0, <2>1, <2>2 DEF ReportInv, FieldsKept
<1>15. WatchedInv'
  BY <1>0, <1>1, <1>2, <1>3 DEF WatchedInv, Up, Only, Kept
<1>16. NoOrphan'
  BY <1>0, <1>1, <1>2, <1>3 DEF NoOrphan, Up, FieldsKept, Kept
<1>17. DriverInv'
  <2>1. \A k \in Kinds, j \in Ids : Drives(k, pc'[<<k, j>>]) <=> Drives(k, pc[<<k, j>>])
    BY <1>0, <1>1, <1>2, <1>3 DEF Drives, Kinds, Only, Kept
  <2> QED
    BY <1>0, <2>1, DriverSame DEF FieldsKept
<1> QED
  BY <1>4, <1>5, <1>6, <1>7, <1>8, <1>9, <1>10, <1>11, <1>12, <1>13, <1>14, <1>15, <1>16, <1>17 DEF ClientInv, TypeOK

\* While the client closes such a watcher ends, with or without its report.
LEMMA DeciderEnds ==
  ASSUME ClientInv, cl.closing, NEW i \in Ids, pc[<<"watch", i>>] \in Deciding, pc' = [pc EXCEPT ![<<"watch", i>>] = "none"],
         FieldsKept, FieldsOK, conns' \in [Ids -> ConnRec], \A j \in Ids : j # i => ConnMore(j),
         conns'[i].live = conns[i].live, conns[i].asked => conns'[i].asked,
         conns'[i].current = conns[i].current, conns'[i].reports \in {conns[i].reports, conns[i].reports + 1},
         cbWait' \in BOOLEAN, UNCHANGED <<config, result, prev, closer, taken>>
  PROVE  ClientInv'
<1>0. /\ FieldType /\ ConnType /\ CloserType /\ PlaceType /\ LocalType /\ EndInv /\ StartInv /\ YoungInv
      /\ CurrentInv /\ HandInv /\ ReportInv /\ WatchedInv /\ NoOrphan /\ DriverInv
  BY DEF ClientInv, TypeOK
<1>1. /\ pc' \in [Threads -> Places] /\ Only("watch", i, "none")
      /\ Kept("attempt") /\ Kept("retire") /\ Kept("stable") /\ Kept("drain")
  BY <1>0, MoveWatch DEF Deciding
<1>2. "none" \notin Deciding /\ "watching" \notin Deciding /\ "ending" \notin Deciding
  BY DEF Deciding
<1>3. \A j \in Ids : pc'[<<"watch", j>>] \in Deciding <=> j # i /\ pc[<<"watch", j>>] \in Deciding
  BY <1>1, <1>2 DEF Only
<1>4. conns[i].reports = 0
  <2>1. Owed(i)
    BY DEF Owed
  <2>2. conns[i].reports \in Nat
    BY <1>0 DEF ConnType, ConnRec
  <2> QED
    BY <1>0, <2>1, <2>2 DEF ReportInv
<1>5. ~Owed(i)'
  BY <1>0, <1>1, <1>3 DEF HandInv, Owed, FieldsKept, Kept
<1>6. \A j \in Ids : j # i => (Owed(j)' <=> Owed(j))
  BY <1>1, <1>3 DEF Owed, FieldsKept, Kept
<1>7. FieldType'
  BY <1>0, <1>1, <1>2, <1>3, <1>4, <1>5, <1>6 DEF FieldType, FieldsOK
<1>8. ConnType'
  BY <1>0, <1>1, <1>2, <1>3, <1>4, <1>5, <1>6 DEF ConnType
<1>9. CloserType'
  BY <1>0, <1>1, <1>2, <1>3, <1>4, <1>5, <1>6 DEF CloserType
<1>10. PlaceType'
  BY <1>0, <1>1, PlacesWatch
<1>11. LocalType'
  BY <1>0, <1>1, <1>2, <1>3, <1>4, <1>5, <1>6 DEF LocalType, Kept
<1>12. EndInv'
  BY <1>0, <1>1, <1>2, <1>3, <1>4, <1>5, <1>6 DEF EndInv, WgZero, Kinds, FieldsKept, FieldsOK, Only, Kept
<1>13. StartInv'
  BY <1>0, <1>1, <1>2, <1>3, <1>4, <1>5, <1>6 DEF StartInv, FieldsKept, Kinds
<1>14. YoungInv'
  <2>1. \A j \in Ids : Referred(j)' => Referred(j)
    BY <1>1, <1>2 DEF Referred, FieldsKept, Only, Kept
  <2>2. Referred(i)
    BY <1>2 DEF Referred
  <2> QED
    BY <1>0, <1>1, <2>1, <2>2 DEF YoungInv, Young, Up, Kept, ConnMore
<1>15. CurrentInv'
  BY <1>0, <1>1, <1>2, <1>3, <1>4, <1>5, <1>6 DEF CurrentInv, FieldType, ClientRec, FieldsKept, FieldsOK
<1>16. HandInv'
  BY <1>0, <1>1, <1>2, <1>3, <1>4, <1>5, <1>6 DEF HandInv, FieldsKept, Only, Kept
<1>17. ReportInv'
  BY <1>0, <1>1, <1>2, <1>3, <1>4, <1>5, <1>6 DEF ReportInv, FieldsKept, ConnMore
<1>18. WatchedInv'
  BY <1>0, <1>1, <1>2, <1>3, <1>4, <1>5, <1>6 DEF WatchedInv, Up, ConnMore, Only, Kept
<1>19. NoOrphan'
  BY <1>0, <1>1, <1>2, <1>3, <1>4, <1>5, <1>6 DEF NoOrphan, Up, FieldsKept, Kept, ConnMore
<1>20. DriverInv'
  BY <1>0, <1>1, <1>2, <1>3, <1>4, <1>5, <1>6 DEF DriverInv, FieldsKept
<1> QED
  BY <1>7, <1>8, <1>9, <1>10, <1>11, <1>12, <1>13, <1>14, <1>15, <1>16, <1>17, <1>18, <1>19, <1>20 DEF ClientInv, TypeOK

\* A fatal path ends the client and takes its connections.
LEMMA ClientEnds ==
  ASSUME ClientInv, ~cl.closing, NEW i \in Ids, NEW kind \in {"attempt", "watch"},
         kind = "attempt" => Young(i) /\ ~Up(i), kind = "watch" => pc[<<"watch", i>>] \in Deciding,
         pc' = [pc EXCEPT ![<<kind, i>>] = "fatal"],
         cl' = EndClient, taken' = {cl.conn, cl.retiring} \ {0}, UNCHANGED <<config, result, prev, conns, closer, cbWait>>
  PROVE  ClientInv'
<1>0. /\ FieldType /\ ConnType /\ CloserType /\ PlaceType /\ LocalType /\ EndInv /\ StartInv /\ YoungInv
      /\ CurrentInv /\ HandInv /\ ReportInv /\ WatchedInv /\ NoOrphan /\ DriverInv
  BY DEF ClientInv, TypeOK
<1>1. /\ pc' \in [Threads -> Places] /\ Kept("retire") /\ Kept("stable") /\ Kept("drain")
      /\ \A j \in Ids : pc'[<<"attempt", j>>] = pc[<<"attempt", j>>] \/ (pc'[<<"attempt", j>>] = "fatal" /\ Young(j) /\ ~Up(j))
      /\ \A j \in Ids : pc'[<<"watch", j>>] = pc[<<"watch", j>>] \/ (pc'[<<"watch", j>>] = "fatal" /\ pc[<<"watch", j>>] \in Deciding)
  <2>1. CASE kind = "attempt"
    <3>1. pc' = [pc EXCEPT ![<<"attempt", i>>] = "fatal"] /\ Young(i) /\ ~Up(i) /\ "fatal" \in AttemptPcs
      BY <2>1 DEF AttemptPcs
    <3>2. /\ pc' \in [Threads -> Places] /\ Only("attempt", i, "fatal") /\ Kept("watch")
          /\ Kept("retire") /\ Kept("stable") /\ Kept("drain")
      BY <1>0, <3>1, MoveAttempt
    <3> QED
      BY <3>1, <3>2 DEF Only, Kept
  <2>2. CASE kind = "watch"
    <3>1. pc' = [pc EXCEPT ![<<"watch", i>>] = "fatal"] /\ pc[<<"watch", i>>] \in Deciding /\ "fatal" \in Deciding
      BY <2>2 DEF Deciding
    <3>2. /\ pc' \in [Threads -> Places] /\ Only("watch", i, "fatal") /\ Kept("attempt")
          /\ Kept("retire") /\ Kept("stable") /\ Kept("drain")
      BY <1>0, <3>1, MoveWatch
    <3> QED
      BY <3>1, <3>2 DEF Only, Kept
  <2> QED
    BY <2>1, <2>2
<1>2. /\ "none" \notin Deciding /\ "watching" \notin Deciding /\ "ending" \notin Deciding
      /\ "fatal" \in Deciding /\ "fatal" \in AttemptPcs
  BY DEF Deciding, AttemptPcs
<1>3. cl' \in ClientRec
  BY <1>0, <1>1, <1>2, IdRange DEF EndClient, FieldType, ClientRec
<1>4. /\ cl'.state = "closed" /\ cl'.closing /\ cl'.conn = 0 /\ cl'.retiring = 0 /\ cl'.graceful = cl.graceful
      /\ cl'.drainSched = cl.drainSched /\ cl'.drainedNoReconnect = cl.drainedNoReconnect
      /\ cl'.retired = cl.retired /\ cl'.started = cl.started /\ cl'.cbClosed = cl.cbClosed
  BY <1>0, <1>1, <1>2, <1>3 DEF EndClient, FieldType, ClientRec
<1>5. /\ taken = {} /\ taken' \subseteq Ids /\ \A j \in Ids : j \in taken' <=> j \in {cl.conn, cl.retiring}
      /\ ~cl.cbClosed /\ cl.started
  BY <1>0, IdRange DEF EndInv, FieldType, ClientRec, StartInv, Young, Kinds, Deciding
<1>6. \A j \in Ids : Young(j)' <=> Young(j)
  BY <1>1 DEF Young
<1>7. FieldType'
  BY <1>0, <1>1, <1>2, <1>3, <1>4, <1>5, <1>6 DEF FieldType
<1>8. ConnType'
  BY <1>0, <1>1, <1>2, <1>3, <1>4, <1>5, <1>6 DEF ConnType
<1>9. CloserType'
  BY <1>0, <1>1, <1>2, <1>3, <1>4, <1>5, <1>6 DEF CloserType
<1>10. PlaceType'
  <2>1. \A j \in Ids : pc'[<<"attempt", j>>] \in AttemptPcs
    BY <1>0, <1>1, <1>2 DEF PlaceType
  <2>2. \A j \in Ids : pc'[<<"watch", j>>] \in Deciding \cup {"none", "watching", "ending"}
    BY <1>0, <1>1, <1>2 DEF PlaceType
  <2> QED
    BY <1>0, <1>1, <2>1, <2>2, PlacesKept
<1>11. LocalType'
  BY <1>0, <1>1, <1>2, <1>3, <1>4, <1>5, <1>6 DEF LocalType
<1>12. EndInv'
  BY <1>0, <1>1, <1>2, <1>3, <1>4, <1>5, <1>6 DEF EndInv
<1>13. StartInv'
  BY <1>0, <1>1, <1>2, <1>3, <1>4, <1>5, <1>6 DEF StartInv
<1>14. YoungInv'
  <2>1. \A j \in Ids : Referred(j)' => Referred(j)
    BY <1>1, <1>2, <1>4, <1>5, IdRange DEF Referred, Kept
  <2> QED
    BY <1>0, <1>1, <1>6, <2>1 DEF YoungInv, Young, Up
<1>15. CurrentInv'
  BY <1>0, <1>1, <1>2, <1>3, <1>4, <1>5, <1>6 DEF CurrentInv, FieldType, ClientRec
<1>16. HandInv'
  <2>1. \A j \in Ids : /\ pc'[<<"attempt", j>>] = "superseding" <=> pc[<<"attempt", j>>] = "superseding"
                       /\ pc'[<<"attempt", j>>] # "none" => pc[<<"attempt", j>>] # "none"
    BY <1>1 DEF Young
  <2>2. \A j \in Ids : /\ pc'[<<"watch", j>>] \in Deciding => pc[<<"watch", j>>] \in Deciding
                       /\ pc[<<"watch", j>>] = "none" => pc'[<<"watch", j>>] = "none"
    BY <1>1, <1>2
  <2>3. /\ cl'.conn = 0 /\ cl'.retired = cl.retired /\ prev' = prev /\ \A j \in Ids : j # 0
        /\ \A j \in Ids : pc'[<<"retire", j>>] = pc[<<"retire", j>>]
    BY <1>1, <1>4, IdRange DEF Kept
  <2> QED
    BY <1>0, <2>1, <2>2, <2>3 DEF HandInv
<1>17. ReportInv'
  <2>1. \A j \in Ids : Owed(j)' => Owed(j)
    BY <1>1, <1>2, <1>4, IdRange DEF Owed, Kept
  <2> QED
    BY <1>0, <1>4, <2>1 DEF ReportInv
<1>18. WatchedInv'
  BY <1>0, <1>1, <1>2, <1>6 DEF WatchedInv, YoungInv, Up
<1>19. NoOrphan'
  BY <1>0, <1>1, <1>2, <1>3, <1>4, <1>5, <1>6 DEF NoOrphan, Up, YoungInv
<1>20. DriverInv'
  BY <1>0, <1>1, <1>2, <1>3, <1>4, <1>5, <1>6 DEF DriverInv
<1> QED
  BY <1>7, <1>8, <1>9, <1>10, <1>11, <1>12, <1>13, <1>14, <1>15, <1>16, <1>17, <1>18, <1>19, <1>20 DEF ClientInv, TypeOK

\* Steps that leave every connection with whoever has it: the goroutines on the side end, a
\* local Close starts, a connection ends, a call of Close goes on.
LEMMA Background ==
  ASSUME ClientInv, FieldsKept, FieldsOK, UNCHANGED <<config, result, prev, taken>>, cbWait' \in BOOLEAN, cbWait' => cl.closing,
         SidePcs, SideConns, SideClosers
  PROVE  ClientInv'
<1>0. /\ FieldType /\ ConnType /\ CloserType /\ PlaceType /\ LocalType /\ EndInv /\ StartInv /\ YoungInv
      /\ CurrentInv /\ HandInv /\ ReportInv /\ WatchedInv /\ NoOrphan /\ DriverInv
  BY DEF ClientInv, TypeOK
<1>1. "none" \notin Deciding /\ "watching" \notin Deciding /\ "ending" \notin Deciding
  BY DEF Deciding
<1>2. FieldType'
  BY <1>0, <1>1 DEF FieldType, FieldsOK
<1>3. ConnType'
  BY <1>0, <1>1 DEF ConnType, SideConns
<1>4. CloserType'
  BY <1>0, <1>1 DEF CloserType, SideClosers
<1>5. PlaceType'
  BY <1>0, <1>1 DEF PlaceType, SidePcs, Kept
<1>6. LocalType'
  BY <1>0, <1>1 DEF LocalType, SidePcs, Kept
<1>7. EndInv'
  <2>6. Kept("attempt") /\ \A j \in Ids : pc'[<<"stable", j>>] \in {"none", pc[<<"stable", j>>]}
    BY DEF SidePcs
  <2>7. \A j \in Ids : pc[<<"watch", j>>] = "none" => pc'[<<"watch", j>>] = "none"
    <3> SUFFICES ASSUME NEW j \in Ids PROVE pc[<<"watch", j>>] = "none" => pc'[<<"watch", j>>] = "none"
      OBVIOUS
    <3> QED
      BY DEF SidePcs
  <2>8. \A j \in Ids : pc[<<"retire", j>>] = "none" => pc'[<<"retire", j>>] = "none"
    <3> SUFFICES ASSUME NEW j \in Ids PROVE pc[<<"retire", j>>] = "none" => pc'[<<"retire", j>>] = "none"
      OBVIOUS
    <3> QED
      BY DEF SidePcs
  <2>1. ASSUME WgZero PROVE WgZero'
    <3>1. \A j \in Ids : /\ pc[<<"attempt", j>>] = "none" /\ pc[<<"watch", j>>] = "none"
                         /\ pc[<<"retire", j>>] = "none" /\ pc[<<"stable", j>>] = "none"
      BY <2>1 DEF WgZero, Kinds
    <3>2. \A j \in Ids : pc'[<<"attempt", j>>] = "none" /\ pc'[<<"stable", j>>] = "none"
      BY <2>6, <3>1 DEF Kept
    <3>3. \A j \in Ids : pc'[<<"watch", j>>] = "none"
      BY <2>7, <3>1
    <3>4. \A j \in Ids : pc'[<<"retire", j>>] = "none"
      BY <2>8, <3>1
    <3> QED
      BY <3>2, <3>3, <3>4 DEF WgZero, Kinds
  <2>2. cl'.cbClosed => cl'.closing /\ WgZero'
    BY <1>0, <2>1 DEF EndInv, FieldsOK
  <2>3. ~cl.closing => \A j \in Ids : pc'[<<"watch", j>>] \notin {"ending", "fatal"}
    BY <1>0 DEF EndInv, SidePcs
  <2>5. ~cl.closing => \A j \in Ids : pc'[<<"attempt", j>>] # "fatal"
    BY <1>0, <2>6 DEF EndInv, Kept
  <2>4. \A x \in Closers : /\ ~cl.closing => closer'[x].pc = "idle"
                           /\ closer'[x].pc = "idle" => closer'[x].conn = 0 /\ closer'[x].retiring = 0
    BY <1>0 DEF EndInv, SideClosers
  <2> QED
    BY <1>0, <2>2, <2>3, <2>4, <2>5 DEF EndInv, FieldsKept, FieldsOK
<1>8. StartInv'
  <2> SUFFICES ASSUME ~cl.started PROVE StartInv'
    BY DEF StartInv, FieldsKept
  <2>1. \A k \in Kinds, j \in Ids : pc'[<<k, j>>] = "none"
    BY <1>0 DEF StartInv, Kinds, SidePcs, Kept
  <2>2. \A j \in Ids : ~Up(j)' /\ ~conns'[j].current /\ conns'[j].reports = 0
    BY <1>0 DEF StartInv, SideConns
  <2>3. \A x \in Closers : closer'[x].conn = 0 /\ closer'[x].retiring = 0
    BY <1>0 DEF StartInv, SideClosers
  <2> QED
    BY <1>0, <2>1, <2>2, <2>3 DEF StartInv, FieldsKept
<1>9. YoungInv'
  <2>1. \A j \in Ids, x \in Closers : closer'[x].conn = j \/ closer'[x].retiring = j => Referred(j)
    BY IdRange DEF Referred, SideClosers
  <2>2. \A j \in Ids : Referred(j)' => Referred(j)
    BY <2>1 DEF Referred, FieldsKept, SidePcs
  <2> QED
    BY <1>0, <2>2 DEF YoungInv, Young, SidePcs, Kept, SideConns
<1>10. CurrentInv'
  <2>1. cl.conn # 0 => cl.conn \in Ids
    BY <1>0, IdRange DEF FieldType, ClientRec
  <2> QED
    BY <1>0, <2>1 DEF CurrentInv, FieldsKept, FieldsOK, SidePcs, Kept
<1>11. HandInv'
  BY <1>0, <1>1 DEF HandInv, FieldsKept, SidePcs, Kept
<1>12. ReportInv'
  <2>1. \A j \in Ids : Owed(j)' <=> Owed(j)
    BY <1>1 DEF Owed, FieldsKept, SidePcs
  <2> QED
    BY <1>0, <2>1 DEF ReportInv, FieldsKept, SideConns
<1>13. WatchedInv'
  BY <1>0 DEF WatchedInv, SidePcs, Kept, SideConns
<1>14. NoOrphan'
  BY <1>0 DEF NoOrphan, FieldsKept, SidePcs, Kept, SideConns
<1>15. DriverInv'
  <2>1. CASE cl.closing
    BY <2>1 DEF DriverInv, FieldsKept
  <2>2. CASE ~cl.closing
    <3>1. \A k \in Kinds, j \in Ids : Drives(k, pc'[<<k, j>>]) <=> Drives(k, pc[<<k, j>>])
      BY <2>2 DEF Drives, Kinds, SidePcs, Kept
    <3> QED
      BY <1>0, <3>1, DriverSame DEF FieldsKept
  <2> QED
    BY <2>1, <2>2
<1> QED
  BY <1>2, <1>3, <1>4, <1>5, <1>6, <1>7, <1>8, <1>9, <1>10, <1>11, <1>12, <1>13, <1>14, <1>15 DEF ClientInv, TypeOK

\* A goroutine that drives ends and starts the next attempt under a free id.
LEMMA Spawns ==
  ASSUME ClientInv, NEW f \in Ids, Free(f), NEW i \in Ids, NEW v \in {"start", "backoff"},
         NEW kind \in {"attempt", "watch", "drain"}, ReadyToSpawn(kind, i),
         SpawnPcs(kind, i, f, v), SpawnConns(kind, i, f), UNCHANGED <<config, cl, result, prev, closer, taken, cbWait>>
  PROVE  ClientInv'
<1>0. /\ FieldType /\ ConnType /\ CloserType /\ PlaceType /\ LocalType /\ EndInv /\ StartInv /\ YoungInv
      /\ CurrentInv /\ HandInv /\ ReportInv /\ WatchedInv /\ NoOrphan /\ DriverInv
  BY DEF ClientInv, TypeOK
<1>1. "none" \notin Deciding /\ "watching" \notin Deciding /\ "ending" \notin Deciding
  BY DEF Deciding
<1>2. /\ pc[<<"attempt", f>>] = "none" /\ pc[<<"watch", f>>] = "none" /\ pc[<<"retire", f>>] = "none"
      /\ pc[<<"stable", f>>] = "none" /\ pc[<<"drain", f>>] = "none" /\ ~Up(f)
  BY DEF Free, Kinds
<1>3. ~Referred(f)
  BY <1>2 DEF Free, Referred
<1>4. i # f
  BY <1>1, <1>2 DEF ReadyToSpawn, Young
<1>5. /\ pc' \in [Threads -> Places]
      /\ \A l \in Kinds, j \in Ids : pc'[<<l, j>>] = IF l = kind /\ j = i THEN "none"
                                                      ELSE IF l = "attempt" /\ j = f THEN v ELSE pc[<<l, j>>]
  <2>1. "attempt" \in Kinds /\ kind \in Kinds
    BY DEF Kinds
  <2>2. pc \in [Threads -> Places] /\ v \in Places /\ "none" \in Places
    BY <1>0 DEF PlaceType, Places, AttemptPcs
  <2> HIDE DEF Kinds
  <2> QED
    BY <2>1, <2>2, MoveTwo, SMTT(30) DEF SpawnPcs
<1>6. /\ pc'[<<"attempt", f>>] = v /\ Kept("retire") /\ Kept("stable")
      /\ \A j \in Ids : j # f => pc'[<<"attempt", j>>] = IF kind = "attempt" /\ j = i THEN "none" ELSE pc[<<"attempt", j>>]
      /\ \A j \in Ids : pc'[<<"watch", j>>] = IF kind = "watch" /\ j = i THEN "none" ELSE pc[<<"watch", j>>]
      /\ \A j \in Ids : pc'[<<"drain", j>>] = IF kind = "drain" /\ j = i THEN "none" ELSE pc[<<"drain", j>>]
  <2>1. "attempt" \in Kinds /\ "watch" \in Kinds /\ "retire" \in Kinds /\ "stable" \in Kinds /\ "drain" \in Kinds
    BY DEF Kinds
  <2>2. pc'[<<"attempt", f>>] = v
    BY <1>4, <1>5, <2>1
  <2>3. Kept("retire") /\ Kept("stable")
    BY <1>5, <2>1 DEF Kept
  <2>4. \A j \in Ids : j # f => pc'[<<"attempt", j>>] = IF kind = "attempt" /\ j = i THEN "none" ELSE pc[<<"attempt", j>>]
    BY <1>5, <2>1
  <2>5. \A j \in Ids : pc'[<<"watch", j>>] = IF kind = "watch" /\ j = i THEN "none" ELSE pc[<<"watch", j>>]
    BY <1>5, <2>1
  <2>6. \A j \in Ids : pc'[<<"drain", j>>] = IF kind = "drain" /\ j = i THEN "none" ELSE pc[<<"drain", j>>]
    BY <1>5, <2>1
  <2> QED
    BY <2>2, <2>3, <2>4, <2>5, <2>6
<1>7. /\ \A j \in Ids : j # f => \/ pc'[<<"attempt", j>>] = pc[<<"attempt", j>>]
                                 \/ pc'[<<"attempt", j>>] = "none" /\ Young(j) /\ ~Up(j)
      /\ \A j \in Ids : \/ pc'[<<"watch", j>>] = pc[<<"watch", j>>]
                        \/ pc'[<<"watch", j>>] = "none" /\ pc[<<"watch", j>>] \in Deciding /\ j = i
      /\ \A j \in Ids : pc'[<<"drain", j>>] = "none" \/ pc'[<<"drain", j>>] = pc[<<"drain", j>>]
      /\ kind # "watch" => Kept("watch")
      /\ kind = "watch" => pc'[<<"watch", i>>] = "none"
  BY <1>6 DEF Kept, ReadyToSpawn
<1>8. cl.started /\ ~cl.cbClosed
  <2>1. kind \in Kinds /\ pc[<<kind, i>>] # "none"
    BY <1>1 DEF Kinds, Young, ReadyToSpawn
  <2>2. kind # "drain" => ~WgZero
    BY <2>1 DEF WgZero
  <2> QED
    BY <1>0, <2>1, <2>2 DEF StartInv, EndInv, ReadyToSpawn
<1>9. Drives(kind, pc[<<kind, i>>])
  BY <1>1 DEF Drives, Young, ReadyToSpawn
<1>10. FieldType'
  BY <1>0, <1>1, <1>2, <1>3, <1>4, <1>5, <1>6, <1>7, <1>8, <1>9 DEF FieldType
<1>11. ConnType'
  BY DEF ConnType, SpawnConns
<1>12. CloserType'
  BY <1>0, <1>1, <1>2, <1>3, <1>4, <1>5, <1>6, <1>7, <1>8, <1>9 DEF CloserType
<1>13. PlaceType'
  <2>1. v \in AttemptPcs /\ "none" \in AttemptPcs
    BY DEF AttemptPcs
  <2>2. \A j \in Ids : pc'[<<"attempt", j>>] \in AttemptPcs
    BY <1>0, <1>6, <1>7, <2>1 DEF PlaceType
  <2>3. \A j \in Ids : pc'[<<"watch", j>>] \in Deciding \cup {"none", "watching", "ending"}
    BY <1>0, <1>7 DEF PlaceType
  <2> QED
    BY <1>0, <1>5, <1>6, <1>7, <2>2, <2>3, SMTT(30) DEF PlaceType, Kept
<1>14. LocalType'
  BY <1>0, <1>6, <1>7 DEF LocalType
<1>15. EndInv'
  BY <1>0, <1>6, <1>7, <1>8 DEF EndInv
<1>16. StartInv'
  BY <1>8 DEF StartInv
<1>17. YoungInv'
  <2>1. \A j \in Ids : Referred(j)' => Referred(j)
    BY <1>6, <1>7 DEF Referred, Kept
  <2>2. \A j \in Ids : j # f /\ Young(j)' => Young(j) /\ pc'[<<"attempt", j>>] = pc[<<"attempt", j>>]
    BY <1>6, <1>7 DEF Young
  <2>3. kind = "watch" => ~Young(i)
    <3>1. kind = "watch" => pc[<<"watch", i>>] # "none"
      BY <1>1 DEF ReadyToSpawn
    <3>2. pc[<<"watch", i>>] # "none" => Referred(i)
      BY DEF Referred
    <3>3. Referred(i) => ~Young(i)
      BY <1>0 DEF YoungInv
    <3> QED
      BY <3>1, <3>2, <3>3
  <2>4. Young(f)' => ~Referred(f)' /\ ~conns'[f].current /\ conns'[f].reports = 0 /\ ~Up(f)'
    BY <1>3, <2>1 DEF Up, SpawnConns
  <2>5. \A j \in Ids : j # f /\ Young(j)' => ConnKept(j)
    BY <1>4, <2>2, <2>3 DEF SpawnConns, ConnKept
  <2>6. ASSUME NEW j \in Ids, j # f, Young(j)'
        PROVE  /\ ~Referred(j)' /\ ~conns'[j].current /\ conns'[j].reports = 0
               /\ Up(j)' => \/ pc'[<<"attempt", j>>] = "landed"
                            \/ pc'[<<"attempt", j>>] = "result" /\ result'[j] = "ok"
    BY <1>0, <2>1, <2>2, <2>5, <2>6 DEF YoungInv, Up, ConnKept
  <2> QED
    BY <2>4, <2>6 DEF YoungInv
<1>18. CurrentInv'
  <2>1. kind = "attempt" => i # cl.conn
    BY <1>0 DEF YoungInv, Referred, ReadyToSpawn
  <2>2. kind = "watch" => i # cl.conn
    BY <1>0 DEF HandInv, ReadyToSpawn
  <2>3. cl.conn # f
    BY <1>3 DEF Referred
  <2>4. cl.conn # 0 => cl.conn \in Ids
    BY <1>0, IdRange DEF FieldType, ClientRec
  <2>5. cl.conn # 0 => /\ pc'[<<"attempt", cl.conn>>] = pc[<<"attempt", cl.conn>>]
                        /\ pc'[<<"watch", cl.conn>>] = pc[<<"watch", cl.conn>>]
    BY <1>6, <2>1, <2>2, <2>3, <2>4
  <2> QED
    BY <1>0, <2>5 DEF CurrentInv
<1>19. HandInv'
  <2>1. \A j \in Ids : pc'[<<"watch", j>>] \in Deciding => pc[<<"watch", j>>] \in Deciding
    BY <1>1, <1>6, <1>7
  <2>2. prev[f] = 0
    BY <1>0, <1>2 DEF HandInv
  <2>3. \A j \in Ids : pc'[<<"attempt", j>>] = "superseding" <=> pc[<<"attempt", j>>] = "superseding"
    BY <1>2, <1>6, <1>7 DEF Young
  <2>4. \A j \in Ids : pc'[<<"attempt", j>>] # "none" => pc'[<<"watch", j>>] = "none"
    <3>1. ASSUME NEW j \in Ids, j # f, pc'[<<"attempt", j>>] # "none" PROVE pc'[<<"watch", j>>] = "none"
      BY <1>0, <1>7, <3>1 DEF HandInv
    <3>2. pc'[<<"watch", f>>] = "none"
      BY <1>2, <1>7
    <3> QED
      BY <3>1, <3>2
  <2>5. \A j \in Ids : pc'[<<"retire", j>>] = pc[<<"retire", j>>]
    BY <1>6 DEF Kept
  <2> QED
    BY <1>0, <2>1, <2>3, <2>4, <2>5 DEF HandInv
<1>20. ReportInv'
  <2>1. \A j \in Ids : Owed(j)' => Owed(j)
    BY <1>1, <1>6, <1>7 DEF Owed, Kept
  <2>2. \A j \in Ids : j # i => (Owed(j)' <=> Owed(j))
    BY <1>6, <1>7 DEF Owed, Kept
  <2>3. kind # "watch" => (Owed(i)' <=> Owed(i))
    BY <1>6, <1>7 DEF Owed, Kept
  <2>4. ASSUME kind = "watch" PROVE Owed(i) /\ ~Owed(i)'
    <3>1. Owed(i)
      BY <2>4 DEF Owed, ReadyToSpawn
    <3>2. pc'[<<"watch", i>>] \notin Deciding
      BY <1>1, <1>7, <2>4
    <3>3. i # cl.conn /\ pc'[<<"retire", i>>] = "none" /\ \A j \in Ids : prev[j] # i
      BY <1>0, <1>6, <2>4 DEF HandInv, Kept, ReadyToSpawn
    <3> QED
      BY <3>1, <3>2, <3>3 DEF Owed
  <2>5. ~Owed(f)
    BY <1>1, <1>2, <1>3 DEF Owed, Referred
  <2>6. conns[i].reports \in Nat
    BY <1>0 DEF ConnType, ConnRec
  <2>7. ASSUME NEW j \in Ids, j # i, j # f
        PROVE  conns'[j].reports = conns[j].reports /\ conns'[j].current = conns[j].current
    BY <2>7 DEF SpawnConns, ConnKept
  <2>8. CASE kind = "watch"
    BY <1>0, <1>4, <2>2, <2>4, <2>5, <2>6, <2>7, <2>8 DEF ReportInv, SpawnConns
  <2>9. CASE kind # "watch"
    BY <1>0, <1>4, <2>2, <2>3, <2>5, <2>7, <2>9 DEF ReportInv, SpawnConns
  <2> QED
    BY <2>8, <2>9
<1>21. WatchedInv'
  <2>1. ASSUME NEW j \in Ids, Up(j)' PROVE Up(j) /\ j # f /\ (conns[j].asked => conns'[j].asked)
    BY <1>4, <2>1 DEF Up, SpawnConns, ConnKept
  <2>2. ASSUME NEW j \in Ids, Up(j)' PROVE pc'[<<"attempt", j>>] = pc[<<"attempt", j>>]
    BY <1>7, <2>1, <2>2
  <2>3. ASSUME NEW j \in Ids, pc[<<"watch", j>>] \in {"watching", "ending"} PROVE pc'[<<"watch", j>>] = pc[<<"watch", j>>]
    BY <1>1, <1>7, <2>3
  <2> QED
    BY <1>0, <2>1, <2>2, <2>3 DEF WatchedInv
<1>22. NoOrphan'
  <2>1. ASSUME NEW j \in Ids, Up(j)' PROVE Up(j) /\ j # f /\ (conns[j].asked => conns'[j].asked)
    BY <1>4, <2>1 DEF Up, SpawnConns, ConnKept
  <2>2. ASSUME NEW j \in Ids, Up(j)' PROVE pc'[<<"attempt", j>>] = pc[<<"attempt", j>>]
    BY <1>7, <2>1, <2>2
  <2> QED
    BY <1>0, <2>1, <2>2 DEF NoOrphan
<1>23. DriverInv'
  <2> SUFFICES ASSUME ~cl.closing PROVE DriverInv'
    BY DEF DriverInv
  <2>1. kind \in Kinds /\ "attempt" \in Kinds
    BY DEF Kinds
  <2>2. /\ ~(cl.conn # 0 /\ ~cl.drainSched)
        /\ \A k \in Kinds, j \in Ids : Drives(k, pc[<<k, j>>]) <=> k = kind /\ j = i
    BY <1>0, <1>8, <1>9, <2>1, WhoDrives
  <2>3. Drives("attempt", v) /\ ~Drives("attempt", pc[<<"attempt", f>>]) /\ \A k \in Kinds : ~Drives(k, "none")
    BY <1>2 DEF Drives
  <2>4. \A k \in Kinds, j \in Ids : Drives(k, pc'[<<k, j>>]) <=> k = "attempt" /\ j = f
    <3> SUFFICES ASSUME NEW k \in Kinds, NEW j \in Ids
                 PROVE  Drives(k, pc'[<<k, j>>]) <=> k = "attempt" /\ j = f
      OBVIOUS
    <3>1. CASE k = "attempt" /\ j = f
      BY <1>6, <2>3, <3>1
    <3>2. CASE k = kind /\ j = i
      BY <1>4, <1>5, <2>3, <3>2
    <3>3. CASE ~(k = "attempt" /\ j = f) /\ ~(k = kind /\ j = i)
      <4>1. pc'[<<k, j>>] = pc[<<k, j>>]
        BY <1>5, <3>3
      <4> QED
        BY <2>2, <3>3, <4>1
    <3> QED
      BY <3>1, <3>2, <3>3
  <2>5. ~(cl'.conn # 0 /\ ~cl'.drainSched)
    BY <2>2
  <2> QED
    BY <2>1, <2>4, <2>5, NewDriver
<1> QED
  BY <1>10, <1>11, <1>12, <1>13, <1>14, <1>15, <1>16, <1>17, <1>18, <1>19, <1>20, <1>21, <1>22,
     <1>23 DEF ClientInv, TypeOK

\* The replacement of a drained connection becomes current: the attempt has the drained one
\* in hand.
LEMMA SuccessSupersedes ==
  ASSUME ClientInv, NEW i \in Ids, OnAttemptSucceeded(i), ~cl.closing, cl.retiring \notin {0, i}
  PROVE  ClientInv'
<1>0. /\ FieldType /\ ConnType /\ CloserType /\ PlaceType /\ LocalType /\ EndInv /\ StartInv /\ YoungInv
      /\ CurrentInv /\ HandInv /\ ReportInv /\ WatchedInv /\ NoOrphan /\ DriverInv
  BY DEF ClientInv, TypeOK
<1>1. pc[<<"attempt", i>>] = "landed" /\ Young(i) /\ ~Referred(i)
  BY <1>0 DEF OnAttemptSucceeded, Young, YoungInv
<1>2. cl.started /\ ~cl.cbClosed /\ ~conns[i].current /\ conns[i].reports = 0
  BY <1>0, <1>1 DEF StartInv, EndInv, YoungInv, Kinds
<1>3. /\ cl.conn \in Ids /\ cl.conn # i /\ cl.retiring = cl.conn /\ prev[i] = 0
  <2>1. Drives("attempt", pc[<<"attempt", i>>]) /\ "attempt" \in Kinds
    BY <1>1 DEF Drives, Kinds
  <2>2. ~(cl.conn # 0 /\ ~cl.drainSched)
    BY <1>0, <1>2, <2>1, WhoDrives
  <2>3. i # cl.conn /\ i # cl.retiring
    BY <1>1 DEF Referred
  <2>4. prev[i] = 0
    BY <1>0, <1>1 DEF HandInv
  <2>5. cl.conn \in 0 .. N /\ cl.drainSched \in BOOLEAN
    BY <1>0 DEF FieldType, ClientRec
  <2> QED
    BY <1>0, <2>2, <2>3, <2>4, <2>5, IdRange DEF CurrentInv
<1>4. /\ pc' \in [Threads -> Places] /\ Only("attempt", i, "superseding")
      /\ Kept("watch") /\ Kept("retire") /\ Kept("stable") /\ Kept("drain")
  <2>1. pc' = [pc EXCEPT ![<<"attempt", i>>] = "superseding"] /\ "superseding" \in AttemptPcs
    BY DEF OnAttemptSucceeded, AttemptPcs
  <2> QED
    BY <1>0, <2>1, MoveAttempt
<1>5. PICK first \in {"none", "ok", "error"} :
        cl' = [cl EXCEPT !.everConnected = TRUE, !.state = "connected", !.conn = i, !.first = first,
                         !.retiring = 0, !.drainSched = FALSE]
  <2>1. SchedAfterWelcome(cl.retiring \notin {0, i}) = FALSE
    BY <1>0, <1>3 DEF SchedAfterWelcome, CurrentInv, FieldType, ClientRec
  <2>2. cl.first \in {"none", "ok", "error"}
    BY <1>0 DEF FieldType, ClientRec
  <2> QED
    BY <2>1, <2>2 DEF OnAttemptSucceeded
<1>6. /\ cl' \in ClientRec
      /\ cl'.state = "connected" /\ cl'.conn = i /\ cl'.retiring = 0
      /\ cl'.graceful = cl.graceful /\ cl'.closing = cl.closing /\ cl'.drainSched = FALSE
      /\ cl'.drainedNoReconnect = cl.drainedNoReconnect /\ cl'.retired = cl.retired /\ cl'.started = cl.started
      /\ cl'.closeCh = cl.closeCh /\ cl'.cbClosed = cl.cbClosed
  BY <1>0, <1>5, IdRange DEF FieldType, ClientRec
<1>7. /\ conns' \in [Ids -> ConnRec]
      /\ \A j \in Ids : /\ conns'[j].live = conns[j].live /\ conns'[j].asked = conns[j].asked
                         /\ conns'[j].reports = conns[j].reports /\ (conns'[j].current <=> j = i \/ conns[j].current)
  <2>1. conns' = [conns EXCEPT ![i].current = TRUE]
    BY DEF OnAttemptSucceeded
  <2> QED
    BY <1>0, <2>1 DEF ConnType, ConnRec
<1>8. /\ prev' \in [Ids -> 0 .. N] /\ prev'[i] = cl.conn /\ \A j \in Ids : j # i => prev'[j] = prev[j]
      /\ UNCHANGED <<config, result, closer, taken, cbWait>>
  BY <1>0, <1>3, IdRange DEF OnAttemptSucceeded, LocalType, FieldType, ClientRec
<1>9. \A j \in Ids : j # i => (Referred(j)' => Referred(j))
  <2>1. \A j \in Ids : j # i /\ j \in {cl'.conn, cl'.retiring, cl'.graceful} \cup cl'.retired \cup taken' =>
                      j \in {cl.conn, cl.retiring, cl.graceful} \cup cl.retired \cup taken
    BY <1>6, <1>8, IdRange
  <2>2. \A j \in Ids : (\E h \in Ids : prev'[h] = j) => j = cl.retiring \/ \E h \in Ids : prev[h] = j
    BY <1>3, <1>8, IdRange
  <2> QED
    BY <1>4, <1>8, <2>1, <2>2 DEF Referred, Kept
<1>10. FieldType'
  BY <1>0, <1>6, <1>8 DEF FieldType
<1>11. ConnType'
  BY <1>7 DEF ConnType
<1>12. CloserType'
  BY <1>0, <1>8 DEF CloserType
<1>13. PlaceType'
  <2>1. "superseding" \in AttemptPcs
    BY DEF AttemptPcs
  <2> QED
    BY <1>0, <1>4, <2>1 DEF PlaceType, Only, Kept
<1>14. LocalType'
  BY <1>0, <1>4, <1>8 DEF LocalType, Only
<1>15. EndInv'
  BY <1>0, <1>2, <1>4, <1>6, <1>8 DEF EndInv, Only, Kept
<1>16. StartInv'
  BY <1>2, <1>6 DEF StartInv
<1>17. YoungInv'
  BY <1>0, <1>4, <1>7, <1>8, <1>9 DEF YoungInv, Young, Up, Only
<1>18. CurrentInv'
  <2>1. cl.drainedNoReconnect => config.disabled
    BY <1>0 DEF CurrentInv
  <2> QED
    BY <1>0, <1>4, <1>6, <1>8, <2>1 DEF CurrentInv, Only
<1>19. HandInv'
  <2>1. pc[<<"watch", i>>] = "none" /\ pc[<<"retire", i>>] = "none" /\ (\A j \in Ids : prev[j] # i) /\ i \notin cl.retired
    BY <1>1 DEF Referred
  <2>2. "none" \notin Deciding
    BY DEF Deciding
  <2>3. \A j \in Ids : prev'[j] # 0 <=> pc'[<<"attempt", j>>] = "superseding"
    <3>1. \A j \in Ids : prev[j] # 0 <=> pc[<<"attempt", j>>] = "superseding"
      BY <1>0 DEF HandInv
    <3>2. \A j \in Ids : j # i => pc'[<<"attempt", j>>] = pc[<<"attempt", j>>]
      BY <1>4 DEF Only
    <3> QED
      BY <1>3, <1>4, <1>8, <3>1, <3>2, IdRange DEF Only
  <2>4. \A j \in Ids : prev'[j] # 0 => prev'[j] # cl'.conn /\ \A h \in Ids : prev'[h] = prev'[j] => h = j
    BY <1>0, <1>3, <1>6, <1>8, <2>1 DEF HandInv
  <2>9. cl'.retired = cl.retired /\ Kept("retire")
    BY <1>4, <1>6
  <2>5. \A j \in Ids : j \in cl'.retired <=> pc'[<<"retire", j>>] # "none"
    BY <1>0, <2>9 DEF HandInv, Kept
  <2>6. \A j \in Ids : pc'[<<"retire", j>>] # "none" => j # cl'.conn /\ \A h \in Ids : prev'[h] # j
    BY <1>0, <1>3, <1>4, <1>6, <1>8, <2>1, IdRange DEF HandInv, Kept
  <2>7. \A j \in Ids : pc'[<<"watch", j>>] \in Deciding =>
          j # cl'.conn /\ pc'[<<"retire", j>>] = "none" /\ \A h \in Ids : prev'[h] # j
    BY <1>0, <1>3, <1>4, <1>6, <1>8, <2>1, <2>2, IdRange DEF HandInv, Kept
  <2>8. \A j \in Ids : pc'[<<"attempt", j>>] # "none" => pc'[<<"watch", j>>] = "none"
    BY <1>0, <1>4, <2>1 DEF HandInv, Only, Kept
  <2> QED
    BY <2>3, <2>4, <2>5, <2>6, <2>7, <2>8 DEF HandInv
<1>20. ReportInv'
  <2>1. \A j \in Ids : j # i => (Owed(j)' <=> Owed(j))
    BY <1>3, <1>4, <1>6, <1>8, IdRange DEF Owed, Kept
  <2>2. Owed(i)'
    BY <1>6 DEF Owed
  <2> QED
    BY <1>0, <1>2, <1>6, <1>7, <2>1, <2>2 DEF ReportInv
<1>21. WatchedInv'
  BY <1>0, <1>4, <1>7 DEF WatchedInv, Up, Only, Kept
<1>22. NoOrphan'
  BY <1>0, <1>3, <1>4, <1>6, <1>7, <1>8, IdRange DEF NoOrphan, Up, Only
<1>23. DriverInv'
  <2>1. Drives("attempt", pc[<<"attempt", i>>]) /\ "attempt" \in Kinds
    BY <1>1 DEF Drives, Kinds
  <2>2. \A k \in Kinds, j \in Ids : Drives(k, pc[<<k, j>>]) => k = "attempt" /\ j = i
    BY <1>0, <1>2, <2>1, WhoDrives
  <2>3. \A k \in Kinds, j \in Ids : Drives(k, pc'[<<k, j>>]) => Drives(k, pc[<<k, j>>]) /\ ~(k = "attempt" /\ j = i)
    BY <1>4 DEF Drives, Kinds, Only, Kept
  <2>4. cl'.conn # 0 /\ ~cl'.drainSched
    BY <1>6, IdRange
  <2>5. \A k \in Kinds, j \in Ids : ~Drives(k, pc'[<<k, j>>])
    BY <2>2, <2>3
  <2> QED
    BY <2>4, <2>5 DEF DriverInv
<1> QED
  BY <1>10, <1>11, <1>12, <1>13, <1>14, <1>15, <1>16, <1>17, <1>18, <1>19, <1>20, <1>21, <1>22,
     <1>23 DEF ClientInv, TypeOK

\* A connection becomes current and there was none before it.
LEMMA SuccessFirst ==
  ASSUME ClientInv, NEW i \in Ids, OnAttemptSucceeded(i), ~cl.closing, cl.retiring \in {0, i}
  PROVE  ClientInv'
<1>0. /\ FieldType /\ ConnType /\ CloserType /\ PlaceType /\ LocalType /\ EndInv /\ StartInv /\ YoungInv
      /\ CurrentInv /\ HandInv /\ ReportInv /\ WatchedInv /\ NoOrphan /\ DriverInv
  BY DEF ClientInv, TypeOK
<1>1. pc[<<"attempt", i>>] = "landed" /\ Young(i) /\ ~Referred(i)
  BY <1>0 DEF OnAttemptSucceeded, Young, YoungInv
<1>2. cl.started /\ ~cl.cbClosed /\ ~conns[i].current /\ conns[i].reports = 0
  BY <1>0, <1>1 DEF StartInv, EndInv, YoungInv, Kinds
<1>3. /\ cl.conn = 0 /\ cl.retiring = 0 /\ prev[i] = 0
  <2>1. Drives("attempt", pc[<<"attempt", i>>]) /\ "attempt" \in Kinds
    BY <1>1 DEF Drives, Kinds
  <2>2. ~(cl.conn # 0 /\ ~cl.drainSched)
    BY <1>0, <1>2, <2>1, WhoDrives
  <2>3. i # cl.conn /\ i # cl.retiring
    BY <1>1 DEF Referred
  <2>4. prev[i] = 0
    BY <1>0, <1>1 DEF HandInv
  <2>5. cl.conn \in 0 .. N /\ cl.drainSched \in BOOLEAN
    BY <1>0 DEF FieldType, ClientRec
  <2> QED
    BY <1>0, <2>2, <2>3, <2>4, <2>5, IdRange DEF CurrentInv
<1>4. /\ pc' \in [Threads -> Places] /\ Only("attempt", i, "publish")
      /\ Kept("watch") /\ Kept("retire") /\ Kept("stable") /\ Kept("drain")
  <2>1. pc' = [pc EXCEPT ![<<"attempt", i>>] = "publish"] /\ "publish" \in AttemptPcs
    BY DEF OnAttemptSucceeded, AttemptPcs
  <2> QED
    BY <1>0, <2>1, MoveAttempt
<1>5. PICK first \in {"none", "ok", "error"} :
        cl' = [cl EXCEPT !.everConnected = TRUE, !.state = "connected", !.conn = i, !.first = first,
                         !.retiring = 0, !.drainSched = FALSE]
  <2>1. SchedAfterWelcome(cl.retiring \notin {0, i}) = FALSE
    BY <1>0, <1>3 DEF SchedAfterWelcome, CurrentInv, FieldType, ClientRec
  <2>2. cl.first \in {"none", "ok", "error"}
    BY <1>0 DEF FieldType, ClientRec
  <2> QED
    BY <2>1, <2>2 DEF OnAttemptSucceeded
<1>6. /\ cl' \in ClientRec
      /\ cl'.state = "connected" /\ cl'.conn = i /\ cl'.retiring = 0
      /\ cl'.graceful = cl.graceful /\ cl'.closing = cl.closing /\ cl'.drainSched = FALSE
      /\ cl'.drainedNoReconnect = cl.drainedNoReconnect /\ cl'.retired = cl.retired /\ cl'.started = cl.started
      /\ cl'.closeCh = cl.closeCh /\ cl'.cbClosed = cl.cbClosed
  BY <1>0, <1>5, IdRange DEF FieldType, ClientRec
<1>7. /\ conns' \in [Ids -> ConnRec]
      /\ \A j \in Ids : /\ conns'[j].live = conns[j].live /\ conns'[j].asked = conns[j].asked
                         /\ conns'[j].reports = conns[j].reports /\ (conns'[j].current <=> j = i \/ conns[j].current)
  <2>1. conns' = [conns EXCEPT ![i].current = TRUE]
    BY DEF OnAttemptSucceeded
  <2> QED
    BY <1>0, <2>1 DEF ConnType, ConnRec
<1>8. /\ prev' \in [Ids -> 0 .. N] /\ prev'[i] = 0 /\ \A j \in Ids : j # i => prev'[j] = prev[j]
      /\ UNCHANGED <<config, result, closer, taken, cbWait>>
  BY <1>0, <1>3, IdRange DEF OnAttemptSucceeded, LocalType, FieldType, ClientRec
<1>9. \A j \in Ids : j # i => (Referred(j)' => Referred(j))
  <2>1. \A j \in Ids : j # i /\ j \in {cl'.conn, cl'.retiring, cl'.graceful} \cup cl'.retired \cup taken' =>
                      j \in {cl.conn, cl.retiring, cl.graceful} \cup cl.retired \cup taken
    BY <1>6, <1>8, IdRange
  <2>2. \A j \in Ids : (\E h \in Ids : prev'[h] = j) => j = cl.retiring \/ \E h \in Ids : prev[h] = j
    BY <1>3, <1>8, IdRange
  <2> QED
    BY <1>4, <1>8, <2>1, <2>2 DEF Referred, Kept
<1>10. FieldType'
  BY <1>0, <1>6, <1>8 DEF FieldType
<1>11. ConnType'
  BY <1>7 DEF ConnType
<1>12. CloserType'
  BY <1>0, <1>8 DEF CloserType
<1>13. PlaceType'
  <2>1. "publish" \in AttemptPcs
    BY DEF AttemptPcs
  <2> QED
    BY <1>0, <1>4, <2>1 DEF PlaceType, Only, Kept
<1>14. LocalType'
  BY <1>0, <1>4, <1>8 DEF LocalType, Only
<1>15. EndInv'
  BY <1>0, <1>2, <1>4, <1>6, <1>8 DEF EndInv, Only, Kept
<1>16. StartInv'
  BY <1>2, <1>6 DEF StartInv
<1>17. YoungInv'
  BY <1>0, <1>4, <1>7, <1>8, <1>9 DEF YoungInv, Young, Up, Only
<1>18. CurrentInv'
  <2>1. cl.drainedNoReconnect => config.disabled
    BY <1>0 DEF CurrentInv
  <2> QED
    BY <1>0, <1>4, <1>6, <1>8, <2>1 DEF CurrentInv, Only
<1>19. HandInv'
  <2>1. pc[<<"watch", i>>] = "none" /\ pc[<<"retire", i>>] = "none" /\ (\A j \in Ids : prev[j] # i) /\ i \notin cl.retired
    BY <1>1 DEF Referred
  <2>2. "none" \notin Deciding
    BY DEF Deciding
  <2>3. \A j \in Ids : prev'[j] # 0 <=> pc'[<<"attempt", j>>] = "superseding"
    <3>1. \A j \in Ids : prev[j] # 0 <=> pc[<<"attempt", j>>] = "superseding"
      BY <1>0 DEF HandInv
    <3>2. \A j \in Ids : j # i => pc'[<<"attempt", j>>] = pc[<<"attempt", j>>]
      BY <1>4 DEF Only
    <3> QED
      BY <1>3, <1>4, <1>8, <3>1, <3>2, IdRange DEF Only
  <2>4. \A j \in Ids : prev'[j] # 0 => prev'[j] # cl'.conn /\ \A h \in Ids : prev'[h] = prev'[j] => h = j
    BY <1>0, <1>3, <1>6, <1>8, <2>1 DEF HandInv
  <2>9. cl'.retired = cl.retired /\ Kept("retire")
    BY <1>4, <1>6
  <2>5. \A j \in Ids : j \in cl'.retired <=> pc'[<<"retire", j>>] # "none"
    BY <1>0, <2>9 DEF HandInv, Kept
  <2>6. \A j \in Ids : pc'[<<"retire", j>>] # "none" => j # cl'.conn /\ \A h \in Ids : prev'[h] # j
    BY <1>0, <1>3, <1>4, <1>6, <1>8, <2>1, IdRange DEF HandInv, Kept
  <2>7. \A j \in Ids : pc'[<<"watch", j>>] \in Deciding =>
          j # cl'.conn /\ pc'[<<"retire", j>>] = "none" /\ \A h \in Ids : prev'[h] # j
    BY <1>0, <1>3, <1>4, <1>6, <1>8, <2>1, <2>2, IdRange DEF HandInv, Kept
  <2>8. \A j \in Ids : pc'[<<"attempt", j>>] # "none" => pc'[<<"watch", j>>] = "none"
    BY <1>0, <1>4, <2>1 DEF HandInv, Only, Kept
  <2> QED
    BY <2>3, <2>4, <2>5, <2>6, <2>7, <2>8 DEF HandInv
<1>20. ReportInv'
  <2>1. \A j \in Ids : j # i => (Owed(j)' <=> Owed(j))
    BY <1>3, <1>4, <1>6, <1>8, IdRange DEF Owed, Kept
  <2>2. Owed(i)'
    BY <1>6 DEF Owed
  <2> QED
    BY <1>0, <1>2, <1>6, <1>7, <2>1, <2>2 DEF ReportInv
<1>21. WatchedInv'
  BY <1>0, <1>4, <1>7 DEF WatchedInv, Up, Only, Kept
<1>22. NoOrphan'
  BY <1>0, <1>3, <1>4, <1>6, <1>7, <1>8, IdRange DEF NoOrphan, Up, Only
<1>23. DriverInv'
  <2>1. Drives("attempt", pc[<<"attempt", i>>]) /\ "attempt" \in Kinds
    BY <1>1 DEF Drives, Kinds
  <2>2. \A k \in Kinds, j \in Ids : Drives(k, pc[<<k, j>>]) => k = "attempt" /\ j = i
    BY <1>0, <1>2, <2>1, WhoDrives
  <2>3. \A k \in Kinds, j \in Ids : Drives(k, pc'[<<k, j>>]) => Drives(k, pc[<<k, j>>]) /\ ~(k = "attempt" /\ j = i)
    BY <1>4 DEF Drives, Kinds, Only, Kept
  <2>4. cl'.conn # 0 /\ ~cl'.drainSched
    BY <1>6, IdRange
  <2>5. \A k \in Kinds, j \in Ids : ~Drives(k, pc'[<<k, j>>])
    BY <2>2, <2>3
  <2> QED
    BY <2>4, <2>5 DEF DriverInv
<1> QED
  BY <1>10, <1>11, <1>12, <1>13, <1>14, <1>15, <1>16, <1>17, <1>18, <1>19, <1>20, <1>21, <1>22,
     <1>23 DEF ClientInv, TypeOK

\* The drained connection goes from the attempt to a retire of its own.
LEMMA SupersedeOK ==
  ASSUME ClientInv, NEW i \in Ids, Supersede(i)
  PROVE  ClientInv'
<1>0. /\ FieldType /\ ConnType /\ CloserType /\ PlaceType /\ LocalType /\ EndInv /\ StartInv /\ YoungInv
      /\ CurrentInv /\ HandInv /\ ReportInv /\ WatchedInv /\ NoOrphan /\ DriverInv
  BY DEF ClientInv, TypeOK
<1>1. pc[<<"attempt", i>>] = "superseding" /\ prev[i] \in Ids
  BY <1>0, IdRange DEF Supersede, HandInv, LocalType
<1>2. cl.started /\ ~cl.cbClosed
  BY <1>0, <1>1 DEF StartInv, EndInv, WgZero, Kinds
<1>3. /\ pc' \in [Threads -> Places] /\ Only("attempt", i, "publish") /\ Only("retire", prev[i], "serving")
      /\ Kept("watch") /\ Kept("stable") /\ Kept("drain")
  <2>1. pc' = [pc EXCEPT ![<<"attempt", i>>] = "publish", ![<<"retire", prev[i]>>] = "serving"]
    BY DEF Supersede
  <2> QED
    BY <1>0, <1>1, <2>1, MoveToRetire
<1>4. /\ cl' \in ClientRec
      /\ cl'.state = cl.state /\ cl'.conn = cl.conn /\ cl'.retiring = cl.retiring
      /\ cl'.graceful = cl.graceful /\ cl'.closing = cl.closing /\ cl'.drainSched = cl.drainSched
      /\ cl'.drainedNoReconnect = cl.drainedNoReconnect /\ cl'.retired = cl.retired \cup {prev[i]} /\ cl'.started = cl.started
      /\ cl'.closeCh = cl.closeCh /\ cl'.cbClosed = cl.cbClosed
  BY <1>0, <1>1 DEF Supersede, FieldType, ClientRec
<1>5. /\ prev' \in [Ids -> 0 .. N] /\ prev'[i] = 0 /\ \A j \in Ids : j # i => prev'[j] = prev[j]
      /\ UNCHANGED <<config, result, conns, closer, taken, cbWait>>
  BY <1>0, IdRange DEF Supersede, LocalType
<1>6. FieldType'
  BY <1>0, <1>4, <1>5 DEF FieldType
<1>7. ConnType'
  BY <1>0, <1>5 DEF ConnType
<1>8. CloserType'
  BY <1>0, <1>5 DEF CloserType
<1>9. PlaceType'
  <2>1. "publish" \in AttemptPcs
    BY DEF AttemptPcs
  <2> QED
    BY <1>0, <1>3, <2>1 DEF PlaceType, Only, Kept
<1>10. LocalType'
  BY <1>0, <1>3, <1>5 DEF LocalType, Only
<1>11. EndInv'
  BY <1>0, <1>2, <1>3, <1>4, <1>5 DEF EndInv, Only, Kept
<1>12. StartInv'
  BY <1>2, <1>4 DEF StartInv
<1>13. YoungInv'
  <2>1. \A j \in Ids : Referred(j)' => Referred(j)
    BY <1>3, <1>4, <1>5, IdRange DEF Referred, Only, Kept
  <2> QED
    BY <1>0, <1>3, <1>5, <2>1 DEF YoungInv, Young, Up, Only
<1>14. CurrentInv'
  <2>1. cl.conn # 0 => cl.conn \in Ids
    BY <1>0, IdRange DEF FieldType, ClientRec
  <2> QED
    BY <1>0, <1>3, <1>4, <1>5, <2>1 DEF CurrentInv, Only, Kept
<1>15. HandInv'
  <2>1. prev[i] # 0 /\ pc[<<"retire", prev[i]>>] = "none" /\ prev[i] # cl.conn /\ pc[<<"watch", prev[i]>>] \notin Deciding
    BY <1>0, <1>1, IdRange DEF HandInv
  <2>2. \A j \in Ids : prev'[j] # 0 <=> pc'[<<"attempt", j>>] = "superseding"
    <3>1. \A j \in Ids : prev[j] # 0 <=> pc[<<"attempt", j>>] = "superseding"
      BY <1>0 DEF HandInv
    <3>2. pc'[<<"attempt", i>>] = "publish" /\ \A j \in Ids : j # i => pc'[<<"attempt", j>>] = pc[<<"attempt", j>>]
      BY <1>3 DEF Only
    <3> QED
      BY <1>5, <3>1, <3>2
  <2>3. \A j \in Ids : prev'[j] # 0 => prev'[j] # cl'.conn /\ prev'[j] # prev[i] /\ \A h \in Ids : prev'[h] = prev'[j] => h = j
    BY <1>0, <1>4, <1>5, <2>1 DEF HandInv
  <2>8. cl'.retired = cl.retired \cup {prev[i]} /\ Only("retire", prev[i], "serving") /\ Only("attempt", i, "publish") /\ Kept("watch")
    BY <1>3, <1>4
  <2>4. \A j \in Ids : j \in cl'.retired <=> pc'[<<"retire", j>>] # "none"
    BY <1>0, <2>8 DEF HandInv, Only
  <2>5. \A j \in Ids : pc'[<<"retire", j>>] # "none" => j # cl'.conn /\ \A h \in Ids : prev'[h] # j
    BY <1>0, <1>3, <1>4, <1>5, <2>1, <2>3, IdRange DEF HandInv, Only
  <2>6. \A j \in Ids : pc'[<<"watch", j>>] \in Deciding =>
          j # cl'.conn /\ pc'[<<"retire", j>>] = "none" /\ \A h \in Ids : prev'[h] # j
    BY <1>0, <1>3, <1>4, <1>5, <2>1, IdRange DEF HandInv, Only, Kept
  <2>7. \A j \in Ids : pc'[<<"attempt", j>>] # "none" => pc'[<<"watch", j>>] = "none"
    <3>1. \A j \in Ids : pc[<<"attempt", j>>] # "none" => pc[<<"watch", j>>] = "none"
      BY <1>0 DEF HandInv
    <3> QED
      BY <1>1, <2>8, <3>1 DEF Only, Kept
  <2> QED
    BY <2>2, <2>3, <2>4, <2>5, <2>6, <2>7 DEF HandInv
<1>16. ReportInv'
  <2>1. \A j \in Ids : Owed(j)' <=> Owed(j)
    <3>1. \A j \in Ids : /\ pc'[<<"watch", j>>] = pc[<<"watch", j>>] /\ cl'.conn = cl.conn
                         /\ pc'[<<"retire", j>>] # "none" <=> j = prev[i] \/ pc[<<"retire", j>>] # "none"
      BY <1>3, <1>4 DEF Only, Kept
    <3>2. \A j \in Ids : (\E h \in Ids : prev[h] = j) <=> j = prev[i] \/ \E h \in Ids : prev'[h] = j
      BY <1>5, IdRange
    <3> QED
      BY <3>1, <3>2 DEF Owed
  <2> QED
    BY <1>0, <1>4, <1>5, <2>1 DEF ReportInv
<1>17. WatchedInv'
  BY <1>0, <1>3, <1>5 DEF WatchedInv, Up, Only, Kept
<1>18. NoOrphan'
  BY <1>0, <1>1, <1>3, <1>4, <1>5 DEF NoOrphan, Up, Only
<1>19. DriverInv'
  <2>1. \A k \in Kinds, j \in Ids : Drives(k, pc'[<<k, j>>]) <=> Drives(k, pc[<<k, j>>])
    BY <1>1, <1>3 DEF Drives, Kinds, Only, Kept
  <2> QED
    BY <1>0, <1>4, <2>1, DriverSame
<1> QED
  BY <1>6, <1>7, <1>8, <1>9, <1>10, <1>11, <1>12, <1>13, <1>14, <1>15, <1>16, <1>17, <1>18, <1>19 DEF ClientInv, TypeOK

\* The attempt ends and its connection is watched.
LEMMA PublishOK ==
  ASSUME ClientInv, NEW i \in Ids, Publish(i)
  PROVE  ClientInv'
<1>0. /\ FieldType /\ ConnType /\ CloserType /\ PlaceType /\ LocalType /\ EndInv /\ StartInv /\ YoungInv
      /\ CurrentInv /\ HandInv /\ ReportInv /\ WatchedInv /\ NoOrphan /\ DriverInv
  BY DEF ClientInv, TypeOK
<1>1. pc[<<"attempt", i>>] = "publish" /\ pc[<<"watch", i>>] = "none"
  BY <1>0 DEF Publish, HandInv
<1>2. cl.started /\ ~cl.cbClosed
  BY <1>0, <1>1 DEF StartInv, EndInv, WgZero, Kinds
<1>3. /\ pc' \in [Threads -> Places] /\ Only("attempt", i, "none") /\ Only("watch", i, "watching") /\ Only("stable", i, "waiting")
      /\ Kept("retire") /\ Kept("drain")
  <2>1. pc' = [pc EXCEPT ![<<"attempt", i>>] = "none", ![<<"watch", i>>] = "watching", ![<<"stable", i>>] = "waiting"]
    BY DEF Publish
  <2> QED
    BY <1>0, <2>1, MoveToWatch
<1>4. UNCHANGED <<config, cl, result, prev, conns, closer, taken, cbWait>>
  BY DEF Publish
<1>5. "none" \notin Deciding /\ "watching" \notin Deciding /\ "none" \in AttemptPcs
  BY DEF Deciding, AttemptPcs
<1>6. FieldType'
  BY <1>0, <1>4 DEF FieldType
<1>7. ConnType'
  BY <1>0, <1>4 DEF ConnType
<1>8. CloserType'
  BY <1>0, <1>4 DEF CloserType
<1>9. PlaceType'
  BY <1>0, <1>3, <1>5 DEF PlaceType, Only, Kept
<1>10. LocalType'
  BY <1>0, <1>3, <1>4 DEF LocalType, Only
<1>11. EndInv'
  BY <1>0, <1>2, <1>3, <1>4 DEF EndInv, Only, Kept
<1>12. StartInv'
  BY <1>2, <1>4 DEF StartInv
<1>13. YoungInv'
  <2>1. \A j \in Ids : j # i => (Referred(j)' => Referred(j))
    BY <1>3, <1>4 DEF Referred, Only, Kept
  <2> QED
    BY <1>0, <1>3, <1>4, <2>1 DEF YoungInv, Young, Up, Only
<1>14. CurrentInv'
  <2>1. cl.conn # 0 => cl.conn \in Ids
    BY <1>0, IdRange DEF FieldType, ClientRec
  <2> QED
    BY <1>0, <1>1, <1>3, <1>4, <2>1 DEF CurrentInv, Only, Kept
<1>15. HandInv'
  BY <1>0, <1>1, <1>3, <1>4, <1>5 DEF HandInv, Only, Kept
<1>16. ReportInv'
  <2>0. \A j \in Ids : pc'[<<"watch", j>>] \in Deciding <=> pc[<<"watch", j>>] \in Deciding
    BY <1>1, <1>3, <1>5 DEF Only
  <2>1. \A j \in Ids : Owed(j)' <=> Owed(j)
    BY <1>3, <1>4, <2>0 DEF Owed, Kept
  <2> QED
    BY <1>0, <1>4, <2>1 DEF ReportInv
<1>17. WatchedInv'
  BY <1>0, <1>1, <1>3, <1>4 DEF WatchedInv, Up, Only, Kept
<1>18. NoOrphan'
  BY <1>0, <1>1, <1>3, <1>4 DEF NoOrphan, Up, Only
<1>19. DriverInv'
  <2>1. \A k \in Kinds, j \in Ids : Drives(k, pc'[<<k, j>>]) <=> Drives(k, pc[<<k, j>>])
    BY <1>1, <1>3 DEF Drives, Kinds, Only, Kept
  <2> QED
    BY <1>0, <1>4, <2>1, DriverSame
<1> QED
  BY <1>6, <1>7, <1>8, <1>9, <1>10, <1>11, <1>12, <1>13, <1>14, <1>15, <1>16, <1>17, <1>18, <1>19 DEF ClientInv, TypeOK

\* A retired connection has ended and its retire reports it.
LEMMA RetireEndsOK ==
  ASSUME ClientInv, NEW i \in Ids, RetireEnds(i)
  PROVE  ClientInv'
<1>0. /\ FieldType /\ ConnType /\ CloserType /\ PlaceType /\ LocalType /\ EndInv /\ StartInv /\ YoungInv
      /\ CurrentInv /\ HandInv /\ ReportInv /\ WatchedInv /\ NoOrphan /\ DriverInv
  BY DEF ClientInv, TypeOK
<1>1. pc[<<"retire", i>>] # "none" /\ ~Up(i) /\ Referred(i)
  BY DEF RetireEnds, Referred
<1>2. cl.started /\ ~cl.cbClosed
  BY <1>0, <1>1 DEF StartInv, EndInv, WgZero, Kinds
<1>3. /\ pc' \in [Threads -> Places] /\ Only("retire", i, "none")
      /\ Kept("attempt") /\ Kept("watch") /\ Kept("stable") /\ Kept("drain")
  <2>1. pc' = [pc EXCEPT ![<<"retire", i>>] = "none"]
    BY DEF RetireEnds
  <2> QED
    BY <1>0, <2>1, MoveRetire
<1>4. /\ cl' \in ClientRec
      /\ cl'.state = cl.state /\ cl'.conn = cl.conn /\ cl'.retiring = cl.retiring
      /\ cl'.graceful = cl.graceful /\ cl'.closing = cl.closing /\ cl'.drainSched = cl.drainSched
      /\ cl'.drainedNoReconnect = cl.drainedNoReconnect /\ cl'.retired = cl.retired \ {i} /\ cl'.started = cl.started
      /\ cl'.closeCh = cl.closeCh /\ cl'.cbClosed = cl.cbClosed
  BY <1>0 DEF RetireEnds, FieldType, ClientRec
<1>5. /\ conns' \in [Ids -> ConnRec] /\ (\A j \in Ids : j # i => ConnKept(j))
      /\ conns'[i].live = conns[i].live /\ conns'[i].current = conns[i].current /\ conns'[i].reports = conns[i].reports + 1
  <2>1. conns' = Reported(conns, i) /\ conns \in [Ids -> ConnRec]
    BY <1>0 DEF RetireEnds, ConnType
  <2>2. /\ conns' \in [Ids -> ConnRec]
        /\ \A j \in Ids : /\ conns'[j].live = conns[j].live
                          /\ conns'[j].reports = IF j = i THEN conns[j].reports + 1 ELSE conns[j].reports
                          /\ conns'[j].current <=> conns[j].current
                          /\ conns'[j].asked <=> conns[j].asked
    BY <2>1, ReportedOK
  <2>3. \A j \in Ids : /\ conns'[j].current \in BOOLEAN /\ conns[j].current \in BOOLEAN
                      /\ conns'[j].asked \in BOOLEAN /\ conns[j].asked \in BOOLEAN
    BY <2>1, <2>2 DEF ConnRec
  <2> QED
    BY <2>2, <2>3 DEF ConnKept
<1>6. UNCHANGED <<config, result, prev, closer, taken, cbWait>>
  BY DEF RetireEnds
<1>7. FieldType'
  BY <1>0, <1>4, <1>6 DEF FieldType
<1>8. ConnType'
  BY <1>0, <1>5 DEF ConnType
<1>9. CloserType'
  BY <1>0, <1>6 DEF CloserType
<1>10. PlaceType'
  BY <1>0, <1>3 DEF PlaceType, Only, Kept
<1>11. LocalType'
  BY <1>0, <1>3, <1>6 DEF LocalType, Kept
<1>12. EndInv'
  BY <1>0, <1>2, <1>3, <1>4, <1>6 DEF EndInv, Kept
<1>13. StartInv'
  BY <1>2, <1>4 DEF StartInv
<1>14. YoungInv'
  <2>1. \A j \in Ids : Referred(j)' => Referred(j)
    BY <1>3, <1>4, <1>6 DEF Referred, Only, Kept
  <2>2. ~Young(i)
    BY <1>0, <1>1 DEF YoungInv
  <2> QED
    BY <1>0, <1>3, <1>5, <1>6, <2>1, <2>2 DEF YoungInv, Young, Up, ConnKept, Kept
<1>15. CurrentInv'
  <2>1. cl.conn # 0 => cl.conn \in Ids
    BY <1>0, IdRange DEF FieldType, ClientRec
  <2> QED
    BY <1>0, <1>3, <1>4, <1>6, <2>1 DEF CurrentInv, Kept
<1>16. HandInv'
  <2>1. cl'.retired = cl.retired \ {i} /\ Only("retire", i, "none") /\ Kept("watch") /\ Kept("attempt") /\ cl'.conn = cl.conn
    BY <1>3, <1>4
  <2> QED
    BY <1>0, <1>6, <2>1 DEF HandInv, Only, Kept
<1>17. ReportInv'
  <2>1. \A j \in Ids : j # i => (Owed(j)' <=> Owed(j))
    BY <1>3, <1>4, <1>6 DEF Owed, Only, Kept
  <2>2. Owed(i) /\ ~Owed(i)'
    BY <1>0, <1>1, <1>3, <1>4, <1>6 DEF Owed, Only, Kept, HandInv
  <2>3. conns[i].reports \in Nat
    BY <1>0 DEF ConnType, ConnRec
  <2> QED
    BY <1>0, <1>4, <1>5, <2>1, <2>2, <2>3 DEF ReportInv, ConnKept
<1>18. WatchedInv'
  BY <1>0, <1>1, <1>3, <1>5 DEF WatchedInv, Up, ConnKept, Kept
<1>19. NoOrphan'
  BY <1>0, <1>1, <1>3, <1>4, <1>5, <1>6 DEF NoOrphan, Up, ConnKept, Kept
<1>20. DriverInv'
  <2>1. \A k \in Kinds, j \in Ids : Drives(k, pc'[<<k, j>>]) <=> Drives(k, pc[<<k, j>>])
    BY <1>3 DEF Drives, Kinds, Only, Kept
  <2> QED
    BY <1>0, <1>4, <2>1, DriverSame
<1> QED
  BY <1>7, <1>8, <1>9, <1>10, <1>11, <1>12, <1>13, <1>14, <1>15, <1>16, <1>17, <1>18, <1>19, <1>20 DEF ClientInv, TypeOK

\* The first drain of the current connection: it is to be replaced, and its drain drives.
LEMMA DrainFirst ==
  ASSUME ClientInv, NEW i \in Ids, HandleServerDrain(i),
         Up(i) /\ ~cl.closing /\ cl.conn = i /\ ~config.disabled /\ ~RepeatedDrain(i)
  PROVE  ClientInv'
<1>0. /\ FieldType /\ ConnType /\ CloserType /\ PlaceType /\ LocalType /\ EndInv /\ StartInv /\ YoungInv
      /\ CurrentInv /\ HandInv /\ ReportInv /\ WatchedInv /\ NoOrphan /\ DriverInv
  BY DEF ClientInv, TypeOK
<1>1. cl.retiring = 0 /\ cl.drainSched = FALSE /\ cl.conn = i /\ i # 0
  BY <1>0, IdRange DEF RepeatedDrain, CurrentInv, FieldType, ClientRec
<1>2. cl.started /\ ~cl.cbClosed /\ ~cl.closing /\ ~config.disabled
  BY <1>0, <1>1 DEF StartInv, EndInv
<1>3. /\ pc' \in [Threads -> Places] /\ Only("drain", i, "track")
      /\ Kept("attempt") /\ Kept("watch") /\ Kept("retire") /\ Kept("stable")
  <2>1. pc' = [pc EXCEPT ![<<"drain", i>>] = "track"]
    BY <1>2 DEF HandleServerDrain
  <2> QED
    BY <1>0, <2>1, MoveDrain
<1>4. PICK d \in BOOLEAN, s \in BOOLEAN : cl' = [cl EXCEPT !.drainedNoReconnect = d, !.drainSched = s, !.retiring = i]
                                             /\ d = cl.drainedNoReconnect /\ s = TRUE
  <2>1. cl.drainedNoReconnect \in BOOLEAN /\ config.disabled = FALSE
    BY <1>0, <1>2 DEF FieldType, ClientRec
  <2> QED
    BY <1>1, <1>2, <2>1 DEF HandleServerDrain
<1>5. /\ cl' \in ClientRec
      /\ cl'.state = cl.state /\ cl'.conn = cl.conn /\ cl'.retiring = i
      /\ cl'.graceful = cl.graceful /\ cl'.closing = cl.closing /\ cl'.drainSched = TRUE
      /\ cl'.drainedNoReconnect = cl.drainedNoReconnect /\ cl'.retired = cl.retired /\ cl'.started = cl.started
      /\ cl'.closeCh = cl.closeCh /\ cl'.cbClosed = cl.cbClosed
  BY <1>0, <1>4, IdRange DEF FieldType, ClientRec
<1>6. conns' \in [Ids -> ConnRec] /\ \A j \in Ids : ConnKept(j)
  <2>1. conns' = [conns EXCEPT ![i].pending = @ - 1] /\ conns[i].pending > 0
    BY <1>1 DEF HandleServerDrain
  <2> QED
    BY <1>0, <2>1 DEF ConnType, ConnRec, ConnKept
<1>7. UNCHANGED <<config, result, prev, closer, taken, cbWait>>
  BY DEF HandleServerDrain
<1>8. FieldType'
  BY <1>0, <1>5, <1>7 DEF FieldType
<1>9. ConnType'
  BY <1>0, <1>6 DEF ConnType
<1>10. CloserType'
  BY <1>0, <1>7 DEF CloserType
<1>11. PlaceType'
  BY <1>0, <1>3 DEF PlaceType, Only, Kept
<1>12. LocalType'
  BY <1>0, <1>3, <1>7 DEF LocalType, Kept
<1>13. EndInv'
  BY <1>0, <1>2, <1>3, <1>5, <1>7 DEF EndInv, Kept
<1>14. StartInv'
  BY <1>2, <1>5 DEF StartInv
<1>15. YoungInv'
  <2>1. \A j \in Ids : Referred(j)' => Referred(j)
    BY <1>1, <1>3, <1>5, <1>7 DEF Referred, Only, Kept
  <2> QED
    BY <1>0, <1>3, <1>6, <1>7, <2>1 DEF YoungInv, Young, Up, ConnKept, Kept
<1>16. CurrentInv'
  <2>1. \/ pc'[<<"attempt", i>>] \in {"superseding", "publish"}
        \/ pc'[<<"watch", i>>] = "watching"
    BY <1>0, <1>1, <1>2, <1>3 DEF CurrentInv, Kept
  <2>2. cl.drainedNoReconnect => config.disabled
    BY <1>0 DEF CurrentInv
  <2> QED
    BY <1>1, <1>2, <1>5, <1>7, <2>1, <2>2 DEF CurrentInv
<1>17. HandInv'
  <2>1. cl'.retired = cl.retired /\ Kept("retire") /\ Kept("watch") /\ Kept("attempt") /\ cl'.conn = cl.conn
    BY <1>3, <1>5
  <2> QED
    BY <1>0, <1>7, <2>1 DEF HandInv, Kept
<1>18. ReportInv'
  <2>1. \A j \in Ids : Owed(j)' <=> Owed(j)
    BY <1>3, <1>5, <1>7 DEF Owed, Kept
  <2> QED
    BY <1>0, <1>5, <1>6, <2>1 DEF ReportInv, ConnKept
<1>19. WatchedInv'
  BY <1>0, <1>3, <1>6 DEF WatchedInv, Up, ConnKept, Kept
<1>20. NoOrphan'
  <2>1. \A j \in Ids : /\ Up(j)' <=> Up(j)
                       /\ conns'[j].asked = conns[j].asked
                       /\ pc'[<<"attempt", j>>] = pc[<<"attempt", j>>]
    BY <1>3, <1>6 DEF Up, ConnKept, Kept
  <2>2. \A j \in Ids : j \in {cl.conn, cl.retiring, cl.graceful} \cup cl.retired \cup taken =>
                      j \in {cl'.conn, cl'.retiring, cl'.graceful} \cup cl'.retired \cup taken'
    BY <1>1, <1>5, <1>7, IdRange
  <2> QED
    BY <1>0, <1>7, <2>1, <2>2 DEF NoOrphan
<1>21. DriverInv'
  <2>1. \A k \in Kinds, j \in Ids : ~Drives(k, pc[<<k, j>>])
    BY <1>0, <1>1, <1>2 DEF DriverInv
  <2>2. \A k \in Kinds, j \in Ids : Drives(k, pc'[<<k, j>>]) <=> Drives(k, pc[<<k, j>>]) \/ (k = "drain" /\ j = i)
    BY <1>3 DEF Drives, Kinds, Only, Kept
  <2>3. \A k \in Kinds, j \in Ids : Drives(k, pc'[<<k, j>>]) <=> k = "drain" /\ j = i
    BY <2>1, <2>2
  <2>4. "drain" \in Kinds /\ ~(cl'.conn # 0 /\ ~cl'.drainSched)
    BY <1>5 DEF Kinds
  <2> QED
    BY <2>3, <2>4, NewDriver
<1> QED
  BY <1>8, <1>9, <1>10, <1>11, <1>12, <1>13, <1>14, <1>15, <1>16, <1>17, <1>18, <1>19, <1>20,
     <1>21 DEF ClientInv, TypeOK

\* The current connection has ended while the client closes or its replacement is on its way:
\* the watcher only reports.
LEMMA WatchReports ==
  ASSUME ClientInv, NEW i \in Ids, WatchConn(i),
         cl.conn = i, cl.closing \/ cl.drainSched
  PROVE  ClientInv'
<1>0. /\ FieldType /\ ConnType /\ CloserType /\ PlaceType /\ LocalType /\ EndInv /\ StartInv /\ YoungInv
      /\ CurrentInv /\ HandInv /\ ReportInv /\ WatchedInv /\ NoOrphan /\ DriverInv
  BY DEF ClientInv, TypeOK
<1>1. pc[<<"watch", i>>] \in {"watching", "ending"} /\ ~Up(i) /\ cl.conn = i /\ i # 0 /\ Referred(i)
  BY IdRange DEF WatchConn, Referred
<1>2. cl.started /\ ~cl.cbClosed /\ cl.retiring \in {0, i}
  BY <1>0, <1>1 DEF StartInv, EndInv, WgZero, Kinds, CurrentInv
<1>3. conns' = Reported(conns, i) /\ pc' = [pc EXCEPT ![<<"watch", i>>] = "none"]
  <2>1. PICK code \in Codes :
          /\ conns' = IF Verdict(i, code) = "report" THEN Reported(conns, i) ELSE conns
          /\ pc' = [pc EXCEPT ![<<"watch", i>>] = IF Verdict(i, code) = "report" THEN "none" ELSE Verdict(i, code)]
    BY DEF WatchConn, WasActive
  <2>2. Verdict(i, code) = "report"
    BY <1>0, VerdictOK
  <2> QED
    BY <2>1, <2>2
<1>4. /\ pc' \in [Threads -> Places] /\ Only("watch", i, "none")
      /\ Kept("attempt") /\ Kept("retire") /\ Kept("stable") /\ Kept("drain")
  <2>1. "none" \in Deciding \cup {"none", "watching", "ending"}
    BY <1>3 DEF Deciding
  <2> QED
    BY <1>0, <1>3, <2>1, MoveWatch
<1>5. PICK s \in {"idle", "backoff", "dialing", "connected", "disconnected", "closed"} :
        /\ cl' = [cl EXCEPT !.conn = 0, !.state = s, !.retiring = 0, !.drainSched = FALSE, !.drainedNoReconnect = FALSE]
        /\ cl.state = "closed" => s = "closed"
  <2>1. cl' = [cl EXCEPT !.conn = 0, !.state = Disconnected, !.retiring = 0, !.drainSched = FALSE,
                        !.drainedNoReconnect = FALSE]
    <3>1. SchedAfterEnd(TRUE) = FALSE /\ (cl.drainedNoReconnect /\ ~TRUE) = FALSE /\ WasActive(i) = TRUE
      BY <1>1 DEF SchedAfterEnd, WasActive
    <3> QED
      BY <1>2, <3>1 DEF WatchConn
  <2> QED
    BY <2>1 DEF Disconnected
<1>6. /\ cl' \in ClientRec /\ (cl.state = "closed" => cl'.state = "closed")
      /\ cl'.state = cl'.state /\ cl'.conn = 0 /\ cl'.retiring = 0
      /\ cl'.graceful = cl.graceful /\ cl'.closing = cl.closing /\ cl'.drainSched = FALSE
      /\ cl'.drainedNoReconnect = FALSE /\ cl'.retired = cl.retired /\ cl'.started = cl.started
      /\ cl'.closeCh = cl.closeCh /\ cl'.cbClosed = cl.cbClosed
  BY <1>0, <1>5, IdRange DEF FieldType, ClientRec
<1>7. UNCHANGED <<config, result, prev, closer, taken, cbWait>>
  BY DEF WatchConn
<1>8. /\ pc[<<"retire", i>>] = "none" /\ \A j \in Ids : prev[j] # i
      /\ pc[<<"attempt", i>>] = "none"
  BY <1>0, <1>1, IdRange DEF HandInv
<1>9. /\ conns' \in [Ids -> ConnRec] /\ (\A j \in Ids : j # i => ConnKept(j)) /\ conns'[i].live = conns[i].live
      /\ conns'[i].current = conns[i].current /\ conns'[i].reports = conns[i].reports + 1
  <2>1. conns \in [Ids -> ConnRec]
    BY <1>0 DEF ConnType
  <2>2. /\ conns' \in [Ids -> ConnRec]
        /\ \A j \in Ids : /\ conns'[j].live = conns[j].live
                          /\ conns'[j].reports = IF j = i THEN conns[j].reports + 1 ELSE conns[j].reports
                          /\ conns'[j].current <=> conns[j].current
                          /\ conns'[j].asked <=> conns[j].asked
    BY <1>3, <2>1, ReportedOK
  <2>3. \A j \in Ids : /\ conns'[j].current \in BOOLEAN /\ conns[j].current \in BOOLEAN
                      /\ conns'[j].asked \in BOOLEAN /\ conns[j].asked \in BOOLEAN
    BY <2>1, <2>2 DEF ConnRec
  <2> QED
    BY <2>2, <2>3 DEF ConnKept
<1>10. FieldType'
  BY <1>0, <1>6, <1>7 DEF FieldType
<1>11. ConnType'
  BY <1>0, <1>9 DEF ConnType
<1>12. CloserType'
  BY <1>0, <1>7 DEF CloserType
<1>13. PlaceType'
  BY <1>0, <1>4, PlacesWatch
<1>14. LocalType'
  BY <1>0, <1>4, <1>7 DEF LocalType, Kept
<1>15. EndInv'
  BY <1>0, <1>2, <1>4, <1>6, <1>7 DEF EndInv, Only, Kept
<1>16. StartInv'
  BY <1>2, <1>6 DEF StartInv
<1>17. YoungInv'
  <2>1. \A j \in Ids : j # i => (Referred(j)' => Referred(j))
    <3> SUFFICES ASSUME NEW j \in Ids, j # i, Referred(j)' PROVE Referred(j)
      OBVIOUS
    <3>1. /\ pc'[<<"watch", j>>] = pc[<<"watch", j>>] /\ pc'[<<"retire", j>>] = pc[<<"retire", j>>]
          /\ pc'[<<"stable", j>>] = pc[<<"stable", j>>] /\ pc'[<<"drain", j>>] = pc[<<"drain", j>>]
      BY <1>4 DEF Only, Kept
    <3>2. \/ j \in {cl'.conn, cl'.retiring, cl'.graceful} \cup cl'.retired \cup taken'
          \/ \E h \in Ids : prev'[h] = j
          \/ \E k \in Closers : closer'[k].conn = j \/ closer'[k].retiring = j
          \/ pc'[<<"watch", j>>] # "none" \/ pc'[<<"retire", j>>] # "none"
          \/ pc'[<<"stable", j>>] # "none" \/ pc'[<<"drain", j>>] # "none"
      BY DEF Referred
    <3>3. /\ j \in {cl'.conn, cl'.retiring, cl'.graceful} \cup cl'.retired \cup taken'
               => j \in {cl.conn, cl.retiring, cl.graceful} \cup cl.retired \cup taken
          /\ prev' = prev /\ closer' = closer
      BY <1>6, <1>7, IdRange
    <3> QED
      BY <3>1, <3>2, <3>3 DEF Referred
  <2>2. ~Young(i)' /\ \A j \in Ids : Young(j)' <=> Young(j)
    BY <1>4, <1>8 DEF Young, Kept
  <2> QED
    BY <1>0, <1>9, <1>4, <1>7, <2>1, <2>2 DEF YoungInv, Up, Kept, ConnKept
<1>18. CurrentInv'
  BY <1>6, <1>7 DEF CurrentInv
<1>19. HandInv'
  <2>1. cl'.retired = cl.retired /\ Kept("retire") /\ Kept("attempt") /\ cl'.conn = 0
    BY <1>4, <1>6
  <2>2. \A j \in Ids : j # i => pc'[<<"watch", j>>] = pc[<<"watch", j>>]
    BY <1>4 DEF Only
  <2>3. \A j \in Ids : pc'[<<"watch", j>>] \in Deciding =>
          j # cl'.conn /\ pc'[<<"retire", j>>] = "none" /\ \A h \in Ids : prev[h] # j
    BY <1>0, <1>8, <2>1, <2>2, IdRange DEF HandInv, Kept
  <2>4. \A j \in Ids : pc'[<<"attempt", j>>] # "none" => pc'[<<"watch", j>>] = "none"
    BY <1>0, <1>8, <2>1, <2>2 DEF HandInv, Kept
  <2> QED
    BY <1>0, <1>7, <2>1, <2>3, <2>4, IdRange DEF HandInv, Kept
<1>20. ReportInv'
  <2>1. \A j \in Ids : j # i => (Owed(j)' <=> Owed(j))
    BY <1>1, <1>4, <1>6, <1>7, IdRange DEF Owed, Only, Kept
  <2>2. "none" \notin Deciding
    BY DEF Deciding
  <2>3. Owed(i)
    BY <1>1 DEF Owed
  <2>4. ~Owed(i)'
    BY <1>1, <1>4, <1>6, <1>7, <1>8, <2>2 DEF Owed, Only, Kept
  <2>5. conns[i].reports \in Nat
    BY <1>0 DEF ConnType, ConnRec
  <2> QED
    BY <1>0, <1>6, <1>9, <2>1, <2>3, <2>4, <2>5 DEF ReportInv, ConnKept
<1>21. WatchedInv'
  BY <1>0, <1>1, <1>9, <1>4 DEF WatchedInv, Up, Only, Kept, ConnKept
<1>22. NoOrphan'
  BY <1>0, <1>1, <1>2, <1>9, <1>4, <1>6, <1>7 DEF NoOrphan, Up, Kept, ConnKept
<1>23. DriverInv'
  <2> SUFFICES ASSUME ~cl.closing PROVE DriverInv'
    BY <1>6 DEF DriverInv
  <2>1. PICK kind \in Kinds, id \in Ids : \A k \in Kinds, j \in Ids : Drives(k, pc[<<k, j>>]) <=> k = kind /\ j = id
    BY <1>0, <1>2 DEF DriverInv
  <2>2. \A k \in Kinds, j \in Ids : Drives(k, pc'[<<k, j>>]) <=> Drives(k, pc[<<k, j>>])
    BY <1>1, <1>4 DEF Drives, Kinds, Only, Kept
  <2>3. \A k \in Kinds, j \in Ids : Drives(k, pc'[<<k, j>>]) <=> k = kind /\ j = id
    BY <2>1, <2>2
  <2>4. ~(cl'.conn # 0 /\ ~cl'.drainSched)
    BY <1>6
  <2> QED
    BY <2>3, <2>4, NewDriver
<1> QED
  BY <1>10, <1>11, <1>12, <1>13, <1>14, <1>15, <1>16, <1>17, <1>18, <1>19, <1>20, <1>21, <1>22,
     <1>23 DEF ClientInv, TypeOK

\* The current connection has ended and nothing replaces it: its watcher drives.
LEMMA WatchDecides ==
  ASSUME ClientInv, NEW i \in Ids, WatchConn(i),
         cl.conn = i, ~cl.closing, ~cl.drainSched
  PROVE  ClientInv'
<1>0. /\ FieldType /\ ConnType /\ CloserType /\ PlaceType /\ LocalType /\ EndInv /\ StartInv /\ YoungInv
      /\ CurrentInv /\ HandInv /\ ReportInv /\ WatchedInv /\ NoOrphan /\ DriverInv
  BY DEF ClientInv, TypeOK
<1>1. pc[<<"watch", i>>] \in {"watching", "ending"} /\ ~Up(i) /\ cl.conn = i /\ i # 0 /\ Referred(i)
  BY IdRange DEF WatchConn, Referred
<1>2. cl.started /\ ~cl.cbClosed /\ cl.retiring \in {0, i}
  BY <1>0, <1>1 DEF StartInv, EndInv, WgZero, Kinds, CurrentInv
<1>3. PICK v \in {"goFatal", "handOver", "keepalive", "againLater"} :
        UNCHANGED conns /\ pc' = [pc EXCEPT ![<<"watch", i>>] = v]
  <2>1. PICK code \in Codes :
          /\ conns' = IF Verdict(i, code) = "report" THEN Reported(conns, i) ELSE conns
          /\ pc' = [pc EXCEPT ![<<"watch", i>>] = IF Verdict(i, code) = "report" THEN "none" ELSE Verdict(i, code)]
    BY DEF WatchConn, WasActive
  <2>2. Verdict(i, code) \in {"goFatal", "handOver", "keepalive", "againLater"}
    BY <1>0, VerdictOK
  <2> QED
    BY <2>1, <2>2
<1>4. /\ pc' \in [Threads -> Places] /\ Only("watch", i, v)
      /\ Kept("attempt") /\ Kept("retire") /\ Kept("stable") /\ Kept("drain")
  <2>1. v \in Deciding \cup {"none", "watching", "ending"}
    BY <1>3 DEF Deciding
  <2> QED
    BY <1>0, <1>3, <2>1, MoveWatch
<1>5. PICK s \in {"idle", "backoff", "dialing", "connected", "disconnected", "closed"} :
        /\ cl' = [cl EXCEPT !.conn = 0, !.state = s, !.retiring = 0, !.drainSched = FALSE, !.drainedNoReconnect = FALSE]
        /\ cl.state = "closed" => s = "closed"
  <2>1. cl' = [cl EXCEPT !.conn = 0, !.state = Disconnected, !.retiring = 0, !.drainSched = FALSE,
                        !.drainedNoReconnect = FALSE]
    <3>1. SchedAfterEnd(TRUE) = FALSE /\ (cl.drainedNoReconnect /\ ~TRUE) = FALSE /\ WasActive(i) = TRUE
      BY <1>1 DEF SchedAfterEnd, WasActive
    <3> QED
      BY <1>2, <3>1 DEF WatchConn
  <2> QED
    BY <2>1 DEF Disconnected
<1>6. /\ cl' \in ClientRec /\ (cl.state = "closed" => cl'.state = "closed")
      /\ cl'.state = cl'.state /\ cl'.conn = 0 /\ cl'.retiring = 0
      /\ cl'.graceful = cl.graceful /\ cl'.closing = cl.closing /\ cl'.drainSched = FALSE
      /\ cl'.drainedNoReconnect = FALSE /\ cl'.retired = cl.retired /\ cl'.started = cl.started
      /\ cl'.closeCh = cl.closeCh /\ cl'.cbClosed = cl.cbClosed
  BY <1>0, <1>5, IdRange DEF FieldType, ClientRec
<1>7. UNCHANGED <<config, result, prev, closer, taken, cbWait>>
  BY DEF WatchConn
<1>8. /\ pc[<<"retire", i>>] = "none" /\ \A j \in Ids : prev[j] # i
      /\ pc[<<"attempt", i>>] = "none"
  BY <1>0, <1>1, IdRange DEF HandInv
<1>9. v \in Deciding /\ v \notin {"fatal", "ending"}
  BY <1>3 DEF Deciding
<1>10. FieldType'
  BY <1>0, <1>6, <1>7 DEF FieldType
<1>11. ConnType'
  BY <1>0, <1>3 DEF ConnType
<1>12. CloserType'
  BY <1>0, <1>7 DEF CloserType
<1>13. PlaceType'
  BY <1>0, <1>4, <1>9, PlacesWatch
<1>14. LocalType'
  BY <1>0, <1>4, <1>7 DEF LocalType, Kept
<1>15. EndInv'
  BY <1>0, <1>2, <1>4, <1>6, <1>7, <1>9 DEF EndInv, Only, Kept
<1>16. StartInv'
  BY <1>2, <1>6 DEF StartInv
<1>17. YoungInv'
  <2>1. \A j \in Ids : j # i => (Referred(j)' => Referred(j))
    <3> SUFFICES ASSUME NEW j \in Ids, j # i, Referred(j)' PROVE Referred(j)
      OBVIOUS
    <3>1. /\ pc'[<<"watch", j>>] = pc[<<"watch", j>>] /\ pc'[<<"retire", j>>] = pc[<<"retire", j>>]
          /\ pc'[<<"stable", j>>] = pc[<<"stable", j>>] /\ pc'[<<"drain", j>>] = pc[<<"drain", j>>]
      BY <1>4 DEF Only, Kept
    <3>2. \/ j \in {cl'.conn, cl'.retiring, cl'.graceful} \cup cl'.retired \cup taken'
          \/ \E h \in Ids : prev'[h] = j
          \/ \E k \in Closers : closer'[k].conn = j \/ closer'[k].retiring = j
          \/ pc'[<<"watch", j>>] # "none" \/ pc'[<<"retire", j>>] # "none"
          \/ pc'[<<"stable", j>>] # "none" \/ pc'[<<"drain", j>>] # "none"
      BY DEF Referred
    <3>3. /\ j \in {cl'.conn, cl'.retiring, cl'.graceful} \cup cl'.retired \cup taken'
               => j \in {cl.conn, cl.retiring, cl.graceful} \cup cl.retired \cup taken
          /\ prev' = prev /\ closer' = closer
      BY <1>6, <1>7, IdRange
    <3> QED
      BY <3>1, <3>2, <3>3 DEF Referred
  <2>2. ~Young(i)' /\ \A j \in Ids : Young(j)' <=> Young(j)
    BY <1>4, <1>8 DEF Young, Kept
  <2> QED
    BY <1>0, <1>3, <1>4, <1>7, <2>1, <2>2 DEF YoungInv, Up, Kept
<1>18. CurrentInv'
  BY <1>6, <1>7 DEF CurrentInv
<1>19. HandInv'
  <2>1. cl'.retired = cl.retired /\ Kept("retire") /\ Kept("attempt") /\ cl'.conn = 0
    BY <1>4, <1>6
  <2>2. \A j \in Ids : j # i => pc'[<<"watch", j>>] = pc[<<"watch", j>>]
    BY <1>4 DEF Only
  <2>3. \A j \in Ids : pc'[<<"watch", j>>] \in Deciding =>
          j # cl'.conn /\ pc'[<<"retire", j>>] = "none" /\ \A h \in Ids : prev[h] # j
    BY <1>0, <1>8, <2>1, <2>2, IdRange DEF HandInv, Kept
  <2>4. \A j \in Ids : pc'[<<"attempt", j>>] # "none" => pc'[<<"watch", j>>] = "none"
    BY <1>0, <1>8, <2>1, <2>2 DEF HandInv, Kept
  <2> QED
    BY <1>0, <1>7, <2>1, <2>3, <2>4, IdRange DEF HandInv, Kept
<1>20. ReportInv'
  <2>1. \A j \in Ids : j # i => (Owed(j)' <=> Owed(j))
    BY <1>1, <1>4, <1>6, <1>7, IdRange DEF Owed, Only, Kept
  <2>2. Owed(i) /\ Owed(i)'
    BY <1>1, <1>4, <1>9 DEF Owed, Only
  <2> QED
    BY <1>0, <1>3, <1>6, <2>1, <2>2 DEF ReportInv
<1>21. WatchedInv'
  BY <1>0, <1>1, <1>3, <1>4 DEF WatchedInv, Up, Only, Kept
<1>22. NoOrphan'
  BY <1>0, <1>1, <1>2, <1>3, <1>4, <1>6, <1>7 DEF NoOrphan, Up, Kept
<1>23. DriverInv'
  <2>1. \A k \in Kinds, j \in Ids : ~Drives(k, pc[<<k, j>>])
    BY <1>0, <1>1, <1>2 DEF DriverInv
  <2>2. Drives("watch", v) /\ "watch" \in Kinds
    BY <1>3 DEF Drives, Kinds
  <2>3. \A k \in Kinds, j \in Ids : ~(k = "watch" /\ j = i) => pc'[<<k, j>>] = pc[<<k, j>>]
    BY <1>4 DEF Kinds, Only, Kept
  <2>4. pc'[<<"watch", i>>] = v
    BY <1>4 DEF Only
  <2>5. \A k \in Kinds, j \in Ids : Drives(k, pc'[<<k, j>>]) <=> k = "watch" /\ j = i
    BY <2>1, <2>2, <2>3, <2>4
  <2>6. ~(cl'.conn # 0 /\ ~cl'.drainSched)
    BY <1>6
  <2> QED
    BY <2>2, <2>5, <2>6, NewDriver
<1> QED
  BY <1>10, <1>11, <1>12, <1>13, <1>14, <1>15, <1>16, <1>17, <1>18, <1>19, <1>20, <1>21, <1>22,
     <1>23 DEF ClientInv, TypeOK

\* The first call of Close takes note of the connections and the client is closed.
LEMMA CloseStarts ==
  ASSUME ClientInv, NEW k \in Closers, NEW how \in {"graceful", "now"}, CloseStart(k, how), ~cl.closing
  PROVE  ClientInv'
<1>0. /\ FieldType /\ ConnType /\ CloserType /\ PlaceType /\ LocalType /\ EndInv /\ StartInv /\ YoungInv
      /\ CurrentInv /\ HandInv /\ ReportInv /\ WatchedInv /\ NoOrphan /\ DriverInv
  BY DEF ClientInv, TypeOK
<1>1. /\ cl' \in ClientRec
      /\ cl'.state = "closed" /\ cl'.conn = cl.conn /\ cl'.retiring = 0
      /\ cl'.graceful = cl.conn /\ cl'.closing = TRUE /\ cl'.drainSched = cl.drainSched
      /\ cl'.drainedNoReconnect = FALSE /\ cl'.retired = cl.retired /\ cl'.started = cl.started
      /\ cl'.closeCh = cl.closeCh /\ cl'.cbClosed = cl.cbClosed
  <2>1. cl' = [cl EXCEPT !.closing = TRUE, !.state = "closed", !.drainedNoReconnect = FALSE,
                        !.graceful = cl.conn, !.retiring = 0]
    BY DEF CloseStart
  <2> QED
    BY <1>0, <2>1, IdRange DEF FieldType, ClientRec
<1>2. /\ closer' \in [Closers -> CloserRec] /\ \A x \in Closers : x # k => closer'[x] = closer[x]
      /\ closer'[k].pc = "stop" /\ closer'[k].conn = cl.conn /\ closer'[k].retiring = cl.retiring
  <2>1. closer' = [closer EXCEPT ![k] = [pc |-> "stop", how |-> how, conn |-> cl.conn, retiring |-> cl.retiring]]
    BY DEF CloseStart
  <2>2. cl.conn \in 0 .. N /\ cl.retiring \in 0 .. N
    BY <1>0 DEF FieldType, ClientRec
  <2>3. [pc |-> "stop", how |-> how, conn |-> cl.conn, retiring |-> cl.retiring] \in CloserRec
    BY <2>2 DEF CloserRec
  <2> QED
    BY <1>0, <2>1, <2>3 DEF CloserType
<1>3. UNCHANGED <<config, pc, result, prev, conns, taken, cbWait>>
  BY DEF CloseStart
<1>4. cl.graceful = 0 /\ cl.retiring \in {0, cl.conn} /\ ~cl.cbClosed
  BY <1>0 DEF EndInv, CurrentInv
<1>5. \A j \in Ids : Referred(j)' => Referred(j)
  BY <1>1, <1>2, <1>3, IdRange DEF Referred
<1>6. \A j \in Ids : Owed(j)' <=> Owed(j)
  BY <1>1, <1>3 DEF Owed
<1>7. FieldType'
  BY <1>0, <1>1, <1>3 DEF FieldType
<1>8. ConnType'
  BY <1>0, <1>3 DEF ConnType
<1>9. CloserType'
  BY <1>2 DEF CloserType
<1>10. PlaceType'
  BY <1>0, <1>3 DEF PlaceType
<1>11. LocalType'
  BY <1>0, <1>3 DEF LocalType
<1>12. EndInv'
  BY <1>0, <1>1, <1>2, <1>4 DEF EndInv
<1>13. StartInv'
  <2> SUFFICES ASSUME ~cl.started PROVE StartInv'
    BY <1>1 DEF StartInv
  <2>1. cl.conn = 0 /\ cl.retiring = 0
    BY <1>0, <1>4 DEF StartInv
  <2>2. \A x \in Closers : closer'[x].conn = 0 /\ closer'[x].retiring = 0
    BY <1>0, <1>2, <2>1 DEF StartInv
  <2> QED
    BY <1>0, <1>1, <1>3, <2>1, <2>2 DEF StartInv, Up
<1>14. YoungInv'
  BY <1>0, <1>3, <1>5 DEF YoungInv, Young, Up
<1>15. CurrentInv'
  BY <1>0, <1>1, <1>3 DEF CurrentInv
<1>16. HandInv'
  BY <1>0, <1>1, <1>3 DEF HandInv
<1>17. ReportInv'
  BY <1>0, <1>1, <1>3, <1>6 DEF ReportInv
<1>18. WatchedInv'
  BY <1>0, <1>3 DEF WatchedInv, Up
<1>19. NoOrphan'
  <2>1. \A j \in Ids : j \in {cl.conn, cl.retiring, cl.graceful} \cup cl.retired \cup taken =>
                      j \in {cl'.conn, cl'.retiring, cl'.graceful} \cup cl'.retired \cup taken'
    BY <1>1, <1>3, <1>4, IdRange
  <2> QED
    BY <1>0, <1>3, <2>1 DEF NoOrphan, Up
<1>20. DriverInv'
  BY <1>1 DEF DriverInv
<1> QED
  BY <1>7, <1>8, <1>9, <1>10, <1>11, <1>12, <1>13, <1>14, <1>15, <1>16, <1>17, <1>18, <1>19, <1>20 DEF ClientInv, TypeOK

\* Connect on a client that is closing starts nothing.
LEMMA ConnectTooLate ==
  ASSUME ClientInv, Connect, cl.closing
  PROVE  ClientInv'
<1>0. /\ FieldType /\ ConnType /\ CloserType /\ PlaceType /\ LocalType /\ EndInv /\ StartInv /\ YoungInv
      /\ CurrentInv /\ HandInv /\ ReportInv /\ WatchedInv /\ NoOrphan /\ DriverInv
  BY DEF ClientInv, TypeOK
<1>1. /\ cl' \in ClientRec
      /\ cl'.state = cl.state /\ cl'.conn = cl.conn /\ cl'.retiring = cl.retiring
      /\ cl'.graceful = cl.graceful /\ cl'.closing = cl.closing /\ cl'.drainSched = cl.drainSched
      /\ cl'.drainedNoReconnect = cl.drainedNoReconnect /\ cl'.retired = cl.retired /\ cl'.started = TRUE
      /\ cl'.closeCh = cl.closeCh /\ cl'.cbClosed = cl.cbClosed
  <2>1. cl' = [cl EXCEPT !.started = TRUE]
    BY DEF Connect
  <2> QED
    BY <1>0, <2>1 DEF FieldType, ClientRec
<1>2. UNCHANGED <<config, pc, result, prev, conns, closer, taken, cbWait>>
  BY DEF Connect
<1>3. \A j \in Ids : Referred(j)' => Referred(j)
  BY <1>1, <1>2 DEF Referred
<1>4. \A j \in Ids : Owed(j)' <=> Owed(j)
  BY <1>1, <1>2 DEF Owed
<1>5. FieldType'
  BY <1>0, <1>1, <1>2 DEF FieldType
<1>6. ConnType'
  BY <1>0, <1>2 DEF ConnType
<1>7. CloserType'
  BY <1>0, <1>2 DEF CloserType
<1>8. PlaceType'
  BY <1>0, <1>2 DEF PlaceType
<1>9. LocalType'
  BY <1>0, <1>2 DEF LocalType
<1>10. EndInv'
  BY <1>0, <1>1, <1>2 DEF EndInv, WgZero
<1>11. StartInv'
  BY <1>1 DEF StartInv
<1>12. YoungInv'
  BY <1>0, <1>2, <1>3 DEF YoungInv, Young, Up
<1>13. CurrentInv'
  BY <1>0, <1>1, <1>2 DEF CurrentInv
<1>14. HandInv'
  BY <1>0, <1>1, <1>2 DEF HandInv
<1>15. ReportInv'
  BY <1>0, <1>1, <1>2, <1>4 DEF ReportInv
<1>16. WatchedInv'
  BY <1>0, <1>2 DEF WatchedInv, Up
<1>17. NoOrphan'
  BY <1>0, <1>1, <1>2 DEF NoOrphan, Up
<1>18. DriverInv'
  BY <1>1 DEF DriverInv
<1> QED
  BY <1>5, <1>6, <1>7, <1>8, <1>9, <1>10, <1>11, <1>12, <1>13, <1>14, <1>15, <1>16, <1>17, <1>18 DEF ClientInv, TypeOK

\* Connect starts the first attempt, the only driver.
LEMMA ConnectStarts ==
  ASSUME ClientInv, Connect, ~cl.closing, NEW f \in Ids, pc' = [pc EXCEPT ![<<"attempt", f>>] = "start"]
  PROVE  ClientInv'
<1>0. /\ FieldType /\ ConnType /\ CloserType /\ PlaceType /\ LocalType /\ EndInv /\ StartInv /\ YoungInv
      /\ CurrentInv /\ HandInv /\ ReportInv /\ WatchedInv /\ NoOrphan /\ DriverInv
  BY DEF ClientInv, TypeOK
<1>1. /\ cl' \in ClientRec
      /\ cl'.state = cl.state /\ cl'.conn = cl.conn /\ cl'.retiring = cl.retiring
      /\ cl'.graceful = cl.graceful /\ cl'.closing = cl.closing /\ cl'.drainSched = cl.drainSched
      /\ cl'.drainedNoReconnect = cl.drainedNoReconnect /\ cl'.retired = cl.retired /\ cl'.started = TRUE
      /\ cl'.closeCh = cl.closeCh /\ cl'.cbClosed = cl.cbClosed
  <2>1. cl' = [cl EXCEPT !.started = TRUE]
    BY DEF Connect
  <2> QED
    BY <1>0, <2>1 DEF FieldType, ClientRec
<1>2. UNCHANGED <<config, result, prev, conns, closer, taken, cbWait>>
  BY DEF Connect
<1>3. /\ pc' \in [Threads -> Places] /\ Only("attempt", f, "start")
      /\ Kept("watch") /\ Kept("retire") /\ Kept("stable") /\ Kept("drain")
  BY <1>0, MoveAttempt DEF AttemptPcs
<1>4. /\ cl.conn = 0 /\ cl.retiring = 0 /\ cl.graceful = 0 /\ cl.retired = {} /\ taken = {} /\ ~cl.cbClosed
      /\ \A k \in Kinds, j \in Ids : pc[<<k, j>>] = "none"
      /\ \A j \in Ids : ~Up(j) /\ ~conns[j].current /\ conns[j].reports = 0 /\ prev[j] = 0
      /\ \A x \in Closers : closer[x].conn = 0 /\ closer[x].retiring = 0
  BY <1>0 DEF Connect, StartInv, CurrentInv, EndInv
<1>5. \A j \in Ids : /\ pc'[<<"watch", j>>] = "none" /\ pc'[<<"retire", j>>] = "none"
                         /\ pc'[<<"stable", j>>] = "none" /\ pc'[<<"drain", j>>] = "none"
  BY <1>3, <1>4 DEF Kept, Kinds
<1>6. \A j \in Ids : ~Referred(j)'
  <2>1. \A j \in Ids : j # 0 /\ j \notin {cl'.conn, cl'.retiring, cl'.graceful} \cup cl'.retired \cup taken'
    BY <1>1, <1>2, <1>4, IdRange
  <2>2. /\ \A j \in Ids : prev'[j] = 0
        /\ \A x \in Closers : closer'[x].conn = 0 /\ closer'[x].retiring = 0
    BY <1>2, <1>4
  <2> QED
    BY <1>5, <2>1, <2>2 DEF Referred
<1>7. "none" \notin Deciding /\ "start" \in AttemptPcs
  BY DEF Deciding, AttemptPcs
<1>8. \A j \in Ids : ~Owed(j)'
  <2>1. \A j \in Ids : j # cl'.conn /\ \A h \in Ids : prev'[h] # j
    BY <1>1, <1>2, <1>4, IdRange
  <2> QED
    BY <1>5, <1>7, <2>1 DEF Owed
<1>9. FieldType'
  BY <1>0, <1>1, <1>2 DEF FieldType
<1>10. ConnType'
  BY <1>0, <1>2 DEF ConnType
<1>11. CloserType'
  BY <1>0, <1>2 DEF CloserType
<1>12. PlaceType'
  BY <1>0, <1>3, <1>7, PlacesAttempt
<1>13. LocalType'
  BY <1>0, <1>2, <1>3 DEF LocalType, Only
<1>14. EndInv'
  BY <1>0, <1>1, <1>2, <1>3, <1>4, <1>5 DEF EndInv, Only
<1>15. StartInv'
  BY <1>1 DEF StartInv
<1>16. YoungInv'
  BY <1>2, <1>4, <1>6 DEF YoungInv, Up
<1>17. CurrentInv'
  BY <1>0, <1>1, <1>2, <1>4 DEF CurrentInv
<1>18. HandInv'
  <2>1. \A j \in Ids : pc'[<<"attempt", j>>] \in {"none", "start"}
    BY <1>3, <1>4 DEF Only, Kinds
  <2> QED
    BY <1>1, <1>2, <1>4, <1>5, <1>7, <2>1, IdRange DEF HandInv
<1>19. ReportInv'
  BY <1>2, <1>4, <1>8 DEF ReportInv
<1>20. WatchedInv'
  BY <1>2, <1>4 DEF WatchedInv, Up
<1>21. NoOrphan'
  BY <1>2, <1>4 DEF NoOrphan, Up
<1>22. DriverInv'
  <2>1. \A k \in Kinds, j \in Ids : ~(k = "attempt" /\ j = f) => pc'[<<k, j>>] = "none"
    BY <1>3, <1>4, <1>5 DEF Kinds, Only
  <2>2. pc'[<<"attempt", f>>] = "start" /\ "attempt" \in Kinds
    BY <1>3 DEF Only, Kinds
  <2>3. \A k \in Kinds : ~Drives(k, "none")
    BY DEF Drives
  <2>4. Drives("attempt", "start")
    BY DEF Drives
  <2>5. \A k \in Kinds, j \in Ids : Drives(k, pc'[<<k, j>>]) <=> k = "attempt" /\ j = f
    BY <2>1, <2>2, <2>3, <2>4
  <2>6. ~(cl'.conn # 0 /\ ~cl'.drainSched)
    BY <1>1, <1>4
  <2> QED
    BY <2>2, <2>5, <2>6, NewDriver
<1> QED
  BY <1>9, <1>10, <1>11, <1>12, <1>13, <1>14, <1>15, <1>16, <1>17, <1>18, <1>19, <1>20, <1>21,
     <1>22 DEF ClientInv, TypeOK

\* The effects the lemmas above ask for: the fields stay, the connections stay, some of them
\* are asked to close, one of them is reported.
LEMMA FieldsSame ==
  ASSUME FieldType, EndInv, cl' = cl
  PROVE  FieldsKept /\ FieldsOK
<1>1. cl' \in ClientRec
  BY DEF FieldType
<1>2. cl.cbClosed => cl.closing
  BY DEF EndInv
<1> QED
  BY <1>1, <1>2 DEF EndInv, FieldsKept, FieldsOK

\* Fields that the invariant does not relate to a connection change.
LEMMA FieldsSet ==
  ASSUME FieldType, EndInv, NEW a \in Nat, NEW u \in BOOLEAN, NEW r \in BOOLEAN,
         NEW s \in {"backoff", "dialing", cl.state}, s # cl.state => ~cl.closing,
         cl' = [cl EXCEPT !.attempt = a, !.keepaliveUsed = u, !.refreshUsed = r, !.state = s]
  PROVE  FieldsKept /\ FieldsOK
<1>1. cl' \in ClientRec
  BY DEF FieldType, ClientRec
<1>2. cl.cbClosed => cl.closing
  BY DEF EndInv
<1>3. /\ FieldsKept /\ cl'.state = s /\ cl'.closeCh = cl.closeCh /\ cl'.cbClosed = cl.cbClosed
      /\ cl'.drainedNoReconnect = cl.drainedNoReconnect
  BY DEF FieldType, ClientRec, FieldsKept
<1>4. cl'.closing => cl'.state = "closed"
  BY <1>3 DEF EndInv, FieldsKept
<1>5. ~cl'.closing => ~cl'.closeCh
  BY <1>3 DEF EndInv, FieldsKept
<1> QED
  BY <1>1, <1>2, <1>3, <1>4, <1>5 DEF FieldsKept, FieldsOK

\* The first result, closeCh and cbClosed are set while the client closes.
LEMMA FieldsClose ==
  ASSUME FieldType, EndInv, cl.closing, NEW f \in {"none", "ok", "error"}, NEW c \in BOOLEAN, NEW b \in BOOLEAN,
         b => cl.cbClosed \/ WgZero, cl' = [cl EXCEPT !.first = f, !.closeCh = c, !.cbClosed = b]
  PROVE  FieldsKept /\ FieldsOK
<1>1. cl' \in ClientRec
  BY DEF FieldType, ClientRec
<1>2. /\ FieldsKept /\ cl'.state = cl.state /\ cl'.cbClosed = b
      /\ cl'.drainedNoReconnect = cl.drainedNoReconnect
  BY DEF FieldType, ClientRec, FieldsKept
<1> QED
  BY <1>1, <1>2 DEF EndInv, FieldsKept, FieldsOK

\* Connections that do not change keep everything.
LEMMA ConnsSame ==
  ASSUME ConnType, conns' = conns
  PROVE  conns' \in [Ids -> ConnRec] /\ \A j \in Ids : ConnKept(j) /\ ConnMore(j) /\ (Up(j)' <=> Up(j))
  BY DEF ConnType, ConnKept, ConnMore, Up

\* Asking connections to close changes nothing else of them.
LEMMA AskedKeeps ==
  ASSUME NEW c \in [Ids -> ConnRec], NEW S, NEW d, d = Asked(c, S)
  PROVE  /\ d \in [Ids -> ConnRec]
         /\ \A j \in Ids : /\ d[j].live = c[j].live /\ d[j].reports = c[j].reports /\ d[j].current = c[j].current
                           /\ c[j].asked => d[j].asked
<1>1. /\ d \in [Ids -> ConnRec]
      /\ \A j \in Ids : /\ d[j].live = c[j].live /\ d[j].reports = c[j].reports
                        /\ d[j].current <=> c[j].current
                        /\ d[j].asked <=> c[j].asked \/ (j \in S /\ c[j].live = "up")
  BY AskedOK
<1>2. \A j \in Ids : /\ d[j].current \in BOOLEAN /\ c[j].current \in BOOLEAN
                     /\ d[j].asked \in BOOLEAN /\ c[j].asked \in BOOLEAN
  BY <1>1 DEF ConnRec
<1> QED
  BY <1>1, <1>2

\* The same for a step that asks connections to close.
LEMMA ConnsAsked ==
  ASSUME ConnType, NEW S, conns' = Asked(conns, S)
  PROVE  /\ conns' \in [Ids -> ConnRec]
         /\ \A j \in Ids : ConnMore(j) /\ (Up(j)' <=> Up(j)) /\ (j \in S /\ Up(j) => conns'[j].asked)
<1>1. conns \in [Ids -> ConnRec]
  BY DEF ConnType
<1>2. /\ conns' \in [Ids -> ConnRec]
      /\ \A j \in Ids : /\ conns'[j].live = conns[j].live /\ conns'[j].reports = conns[j].reports
                        /\ conns'[j].current <=> conns[j].current
                        /\ conns'[j].asked <=> conns[j].asked \/ (j \in S /\ conns[j].live = "up")
  BY <1>1, AskedOK
<1>3. \A j \in Ids : conns'[j].current \in BOOLEAN /\ conns[j].current \in BOOLEAN
  BY <1>1, <1>2 DEF ConnRec
<1> QED
  BY <1>2, <1>3 DEF ConnMore, Up

\* The same for a step that reports the end of one.
LEMMA ConnsReported ==
  ASSUME ConnType, NEW i \in Ids
  PROVE  /\ Reported(conns, i) \in [Ids -> ConnRec]
         /\ \A j \in Ids : /\ Reported(conns, i)[j].live = conns[j].live
                           /\ Reported(conns, i)[j].asked = conns[j].asked
                           /\ Reported(conns, i)[j].current = conns[j].current
                           /\ Reported(conns, i)[j].reports = IF j = i THEN conns[j].reports + 1 ELSE conns[j].reports
<1>1. conns \in [Ids -> ConnRec]
  BY DEF ConnType
<1> DEFINE r == Reported(conns, i)
<1>2. /\ r \in [Ids -> ConnRec]
      /\ \A j \in Ids : /\ r[j].live = conns[j].live
                        /\ r[j].reports = IF j = i THEN conns[j].reports + 1 ELSE conns[j].reports
                        /\ r[j].current <=> conns[j].current
                        /\ r[j].asked <=> conns[j].asked
  BY <1>1, ReportedOK
<1> HIDE DEF r
<1>3. \A j \in Ids : /\ r[j].current \in BOOLEAN /\ conns[j].current \in BOOLEAN
                     /\ r[j].asked \in BOOLEAN /\ conns[j].asked \in BOOLEAN
  BY <1>1, <1>2 DEF ConnRec
<1>4. \A j \in Ids : r[j].current = conns[j].current /\ r[j].asked = conns[j].asked
  BY <1>2, <1>3
<1> QED
  BY <1>2, <1>4 DEF r

-----------------------------------------------------------------------------
(* One step of each goroutine                                                *)

\* An attempt without a connection goes on, or ends while the client closes.
LEMMA YoungGoesOn ==
  ASSUME ClientInv, NEW i \in Ids, Young(i), ~Up(i),
         NEW v \in AttemptPcs \ {"none", "superseding", "publish", "result", "fatal"},
         pc' = [pc EXCEPT ![<<"attempt", i>>] = v], FieldsKept, FieldsOK,
         UNCHANGED <<config, result, conns, prev, closer, taken, cbWait>>
  PROVE  ClientInv'
<1>1. conns' \in [Ids -> ConnRec] /\ (\A j \in Ids : ConnKept(j)) /\ ~Up(i)'
  BY ConnsSame DEF ClientInv, TypeOK
<1>2. result' \in [Ids -> {"none", "ok", "fatal", "now", "later"}] /\ \A j \in Ids : j # i => result'[j] = result[j]
  BY DEF ClientInv, TypeOK, LocalType
<1>3. conns'[i].reports = conns[i].reports /\ conns'[i].current = conns[i].current
  OBVIOUS
<1>4. v \in AttemptPcs \ {"none", "superseding", "publish"} /\ v # "fatal" /\ v # "result"
  OBVIOUS
<1> QED
  BY <1>1, <1>2, <1>3, <1>4, YoungMoves

\* A young attempt of a closing client gives up.
LEMMA YoungGivesUp ==
  ASSUME ClientInv, cl.closing, NEW i \in Ids, Young(i), ~Up(i), pc' = [pc EXCEPT ![<<"attempt", i>>] = "none"],
         UNCHANGED <<config, cl, result, conns, prev, closer, taken, cbWait>>
  PROVE  ClientInv'
<1>1. conns' \in [Ids -> ConnRec] /\ \A j \in Ids : ConnMore(j)
  BY ConnsSame DEF ClientInv, TypeOK
<1>2. result' \in [Ids -> {"none", "ok", "fatal", "now", "later"}] /\ \A j \in Ids : j # i => result'[j] = result[j]
  BY DEF ClientInv, TypeOK, LocalType
<1>3. FieldsKept /\ FieldsOK
  BY FieldsSame DEF ClientInv, TypeOK
<1>4. cbWait' \in BOOLEAN
  BY DEF ClientInv, TypeOK, LocalType
<1> QED
  BY <1>1, <1>2, <1>3, <1>4, YoungEnds

\* A dial that succeeds brings its connection up.
Landing(i, v) == IF v = "ok" THEN conns' = [conns EXCEPT ![i].live = "up"] ELSE conns' = conns

\* The dial has returned.
LEMMA YoungResult ==
  ASSUME ClientInv, NEW i \in Ids, Young(i), ~Up(i), pc' = [pc EXCEPT ![<<"attempt", i>>] = "result"],
         NEW v \in {"ok", "fatal", "now", "later"}, result' = [result EXCEPT ![i] = v],
         Landing(i, v),
         FieldsKept, FieldsOK, UNCHANGED <<config, prev, closer, taken, cbWait>>
  PROVE  ClientInv'
<1>1. /\ conns' \in [Ids -> ConnRec] /\ (\A j \in Ids : j # i => ConnKept(j))
      /\ conns'[i].reports = conns[i].reports /\ conns'[i].current = conns[i].current
      /\ v # "ok" => ~Up(i)'
  <2>1. CASE v = "ok"
    BY <2>1 DEF Landing, ClientInv, TypeOK, ConnType, ConnRec, ConnKept
  <2>2. CASE v # "ok"
    BY <2>2, ConnsSame DEF Landing, ClientInv, TypeOK
  <2> QED
    BY <2>1, <2>2
<1>2. /\ result' \in [Ids -> {"none", "ok", "fatal", "now", "later"}] /\ \A j \in Ids : j # i => result'[j] = result[j]
      /\ result'[i] = v
  BY DEF ClientInv, TypeOK, LocalType
<1>3. "result" \in AttemptPcs \ {"none", "superseding", "publish"} /\ v # "none" /\ result'[i] # "none"
  BY <1>2 DEF AttemptPcs
<1>4. Up(i)' => result'[i] = "ok"
  BY <1>1, <1>2
<1>5. config' = config /\ UNCHANGED <<prev, closer, taken, cbWait>>
  OBVIOUS
<1> QED
  BY <1>1, <1>2, <1>3, <1>4, <1>5, YoungMoves

\* waitBackoff, the end of the wait, and the start of the dial.
LEMMA AttemptWaits ==
  ASSUME ClientInv, NEW i \in Ids, WaitBackoff(i) \/ Wake(i) \/ StartDial(i)
  PROVE  ClientInv'
<1>0. FieldType /\ ConnType /\ LocalType /\ EndInv /\ YoungInv
  BY DEF ClientInv, TypeOK
<1>1. Young(i) /\ ~Up(i)
  BY <1>0 DEF WaitBackoff, Wake, StartDial, Young, YoungInv
<1>2. /\ "sleeping" \in AttemptPcs \ {"none", "superseding", "publish", "result", "fatal"}
      /\ "start" \in AttemptPcs \ {"none", "superseding", "publish", "result", "fatal"}
      /\ "dialing" \in AttemptPcs \ {"none", "superseding", "publish", "result", "fatal"}
  BY DEF AttemptPcs
<1>3. UNCHANGED <<config, result, conns, prev, closer, taken, cbWait>>
  BY DEF WaitBackoff, Wake, StartDial
<1>4. cl.closeCh => cl.closing
  BY <1>0 DEF EndInv
<1>5. CASE pc' = [pc EXCEPT ![<<"attempt", i>>] = "none"] /\ cl' = cl /\ cl.closing
  BY <1>1, <1>3, <1>5, YoungGivesUp
<1>6. CASE pc' = [pc EXCEPT ![<<"attempt", i>>] = "start"] /\ cl' = cl
  <2>1. FieldsKept /\ FieldsOK
    BY <1>0, <1>6, FieldsSame
  <2> QED
    BY <1>1, <1>2, <1>3, <1>6, <2>1, YoungGoesOn
<1>7. CASE \E v \in {"sleeping", "dialing"}, s \in {"backoff", "dialing"} :
             pc' = [pc EXCEPT ![<<"attempt", i>>] = v] /\ cl' = [cl EXCEPT !.state = s] /\ ~cl.closing
  <2>1. PICK v \in {"sleeping", "dialing"}, s \in {"backoff", "dialing"} :
          pc' = [pc EXCEPT ![<<"attempt", i>>] = v] /\ cl' = [cl EXCEPT !.state = s] /\ ~cl.closing
    BY <1>7
  <2>2. /\ cl' = [cl EXCEPT !.attempt = cl.attempt, !.keepaliveUsed = cl.keepaliveUsed,
                           !.refreshUsed = cl.refreshUsed, !.state = s]
        /\ cl.attempt \in Nat /\ cl.keepaliveUsed \in BOOLEAN /\ cl.refreshUsed \in BOOLEAN
    BY <1>0, <2>1 DEF FieldType, ClientRec
  <2>3. FieldsKept /\ FieldsOK
    BY <1>0, <2>1, <2>2, FieldsSet
  <2> QED
    BY <1>1, <1>2, <1>3, <2>1, <2>3, YoungGoesOn
<1>8. CASE WaitBackoff(i)
  BY <1>5, <1>7, <1>8 DEF WaitBackoff
<1>9. CASE Wake(i)
  BY <1>4, <1>5, <1>6, <1>9 DEF Wake
<1>10. CASE StartDial(i)
  BY <1>5, <1>7, <1>10 DEF StartDial
<1> QED
  BY <1>8, <1>9, <1>10

\* dialAndHandshake.
LEMMA AttemptDials ==
  ASSUME ClientInv, NEW i \in Ids, Dial(i) \/ Refresh(i) \/ Redial(i)
  PROVE  ClientInv'
<1>0. FieldType /\ ConnType /\ LocalType /\ EndInv /\ YoungInv
  BY DEF ClientInv, TypeOK
<1>1. Young(i) /\ ~Up(i)
  BY <1>0 DEF Dial, Refresh, Redial, Young, YoungInv
<1>2. UNCHANGED <<config, prev, closer, taken, cbWait>>
  BY DEF Dial, Refresh, Redial
<1>3. /\ "rejected" \in AttemptPcs \ {"none", "superseding", "publish", "result", "fatal"}
      /\ "redialing" \in AttemptPcs \ {"none", "superseding", "publish", "result", "fatal"}
  BY DEF AttemptPcs
<1>4. ASSUME cl' = cl \/ cl' = [cl EXCEPT !.refreshUsed = TRUE]
      PROVE  FieldsKept /\ FieldsOK
  <2>1. CASE cl' = cl
    BY <1>0, <2>1, FieldsSame
  <2>2. CASE cl' = [cl EXCEPT !.refreshUsed = TRUE]
    <3>1. /\ cl' = [cl EXCEPT !.attempt = cl.attempt, !.keepaliveUsed = cl.keepaliveUsed,
                              !.refreshUsed = TRUE, !.state = cl.state]
          /\ cl.attempt \in Nat /\ cl.keepaliveUsed \in BOOLEAN
      BY <1>0, <2>2 DEF FieldType, ClientRec
    <3> QED
      BY <1>0, <3>1, FieldsSet
  <2> QED
    BY <1>4, <2>1, <2>2
<1>5. ASSUME NEW v \in {"ok", "fatal", "now", "later"}, result' = [result EXCEPT ![i] = v],
             pc' = [pc EXCEPT ![<<"attempt", i>>] = "result"],
             IF v = "ok" THEN conns' = [conns EXCEPT ![i].live = "up"] ELSE conns' = conns,
             cl' = cl \/ cl' = [cl EXCEPT !.refreshUsed = TRUE]
      PROVE  ClientInv'
  <2>1. FieldsKept /\ FieldsOK
    BY <1>4, <1>5
  <2> QED
    BY <1>1, <1>2, <1>5, <2>1, YoungResult DEF Landing
<1>6. ASSUME NEW v \in {"rejected", "redialing"}, pc' = [pc EXCEPT ![<<"attempt", i>>] = v],
             UNCHANGED <<result, conns>>, cl' = cl \/ cl' = [cl EXCEPT !.refreshUsed = TRUE]
      PROVE  ClientInv'
  <2>1. FieldsKept /\ FieldsOK
    BY <1>4, <1>6
  <2> QED
    BY <1>1, <1>2, <1>3, <1>6, <2>1, YoungGoesOn
<1>7. \A failure \in Failures : Verdicts(failure) \subseteq {"fatal", "now", "later"}
  BY DEF Failures, Verdicts
<1>8. CASE Dial(i)
  <2>1. CASE /\ conns' = [conns EXCEPT ![i].live = "up"] /\ result' = [result EXCEPT ![i] = "ok"]
             /\ pc' = [pc EXCEPT ![<<"attempt", i>>] = "result"] /\ cl' = cl
    BY <1>5, <2>1
  <2>2. CASE \E failure \in Failures : \E verdict \in Verdicts(failure) :
               /\ result' = [result EXCEPT ![i] = verdict]
               /\ pc' = [pc EXCEPT ![<<"attempt", i>>] = "result"] /\ UNCHANGED <<cl, conns>>
    <3>1. PICK v \in {"fatal", "now", "later"} : result' = [result EXCEPT ![i] = v]
      BY <1>7, <2>2
    <3>2. v \in {"ok", "fatal", "now", "later"} /\ v # "ok" /\ pc' = [pc EXCEPT ![<<"attempt", i>>] = "result"]
          /\ cl' = cl /\ conns' = conns
      BY <2>2
    <3> QED
      BY <1>5, <3>1, <3>2
  <2>3. CASE LET forced == config.static \/ cl.refreshUsed IN
             /\ cl' = IF config.static THEN cl ELSE [cl EXCEPT !.refreshUsed = TRUE]
             /\ result' = IF forced THEN [result EXCEPT ![i] = "fatal"] ELSE result
             /\ pc' = [pc EXCEPT ![<<"attempt", i>>] = IF forced THEN "result" ELSE "rejected"]
             /\ UNCHANGED conns
    <3>1. CASE config.static \/ cl.refreshUsed
      <4>1. result' = [result EXCEPT ![i] = "fatal"] /\ pc' = [pc EXCEPT ![<<"attempt", i>>] = "result"]
        BY <2>3, <3>1
      <4>2. cl' = cl \/ cl' = [cl EXCEPT !.refreshUsed = TRUE]
        BY <2>3
      <4> QED
        BY <1>5, <2>3, <4>1, <4>2
    <3>2. CASE ~(config.static \/ cl.refreshUsed)
      <4>1. UNCHANGED <<result, conns>> /\ pc' = [pc EXCEPT ![<<"attempt", i>>] = "rejected"]
        BY <2>3, <3>2
      <4>2. cl' = cl \/ cl' = [cl EXCEPT !.refreshUsed = TRUE]
        BY <2>3
      <4> QED
        BY <1>6, <4>1, <4>2
    <3> QED
      BY <3>1, <3>2
  <2> QED
    BY <1>8, <2>1, <2>2, <2>3 DEF Dial
<1>9. CASE Refresh(i)
  <2>1. CASE cl.closing
    BY <1>5, <1>9, <2>1 DEF Refresh
  <2>2. CASE ~cl.closing
    BY <1>6, <1>9, <2>2 DEF Refresh
  <2> QED
    BY <2>1, <2>2
<1>10. CASE Redial(i)
  <2>1. CASE conns' = [conns EXCEPT ![i].live = "up"] /\ result' = [result EXCEPT ![i] = "ok"]
    <3>1. pc' = [pc EXCEPT ![<<"attempt", i>>] = "result"] /\ cl' = cl
      BY <1>10 DEF Redial
    <3> QED
      BY <1>5, <2>1, <3>1
  <2>2. CASE \E v \in {"fatal", "now", "later"} : result' = [result EXCEPT ![i] = v] /\ UNCHANGED conns
    <3>1. PICK v \in {"fatal", "now", "later"} : result' = [result EXCEPT ![i] = v] /\ UNCHANGED conns
      BY <2>2
    <3>2. v \in {"ok", "fatal", "now", "later"} /\ v # "ok" /\ pc' = [pc EXCEPT ![<<"attempt", i>>] = "result"] /\ cl' = cl
      BY <1>10 DEF Redial
    <3> QED
      BY <1>5, <3>1, <3>2
  <2>3. {"fatal"} \cup UNION {Verdicts(failure) : failure \in Failures} \subseteq {"fatal", "now", "later"}
    BY <1>7
  <2> QED
    BY <1>10, <2>1, <2>2, <2>3 DEF Redial
<1> QED
  BY <1>8, <1>9, <1>10

\* attemptLoop's closingNow and the way on.
LEMMA AttemptResult ==
  ASSUME ClientInv, NEW i \in Ids, TakeResult(i)
  PROVE  ClientInv'
<1>0. FieldType /\ ConnType /\ LocalType /\ EndInv /\ YoungInv
  BY DEF ClientInv, TypeOK
<1>1. Young(i) /\ (Up(i) => result[i] = "ok") /\ result[i] \in {"ok", "fatal", "now", "later"}
  BY <1>0 DEF TakeResult, Young, YoungInv, LocalType
<1>2. UNCHANGED <<config, cl, prev, closer, taken, cbWait>> /\ cbWait' \in BOOLEAN
  BY <1>0 DEF TakeResult, LocalType
<1>3. FieldsKept /\ FieldsOK
  BY <1>0, <1>2, FieldsSame
<1>4. /\ result' \in [Ids -> {"none", "ok", "fatal", "now", "later"}]
      /\ \A j \in Ids : j # i => result'[j] = result[j]
  BY <1>0 DEF TakeResult, LocalType
<1>5. CASE cl.closing
  <2>1. pc' = [pc EXCEPT ![<<"attempt", i>>] = "none"]
    BY <1>5 DEF TakeResult
  <2>2. (conns' = conns /\ ~Up(i)) \/ conns' = Asked(conns, {i})
    BY <1>1, <1>5 DEF TakeResult
  <2>3. conns' \in [Ids -> ConnRec] /\ (\A j \in Ids : ConnMore(j)) /\ (Up(i) => conns'[i].asked)
    BY <1>0, <2>2, ConnsSame, ConnsAsked
  <2> QED
    BY <1>1, <1>2, <1>3, <1>4, <1>5, <2>1, <2>3, YoungEnds
<1>6. CASE ~cl.closing
  <2>1. PICK v \in {"landed", "unrecoverable", "againNow", "againLater"} :
          pc' = [pc EXCEPT ![<<"attempt", i>>] = v] /\ (result[i] = "ok" => v = "landed")
    BY <1>1, <1>6 DEF TakeResult
  <2>2. v \in AttemptPcs \ {"none", "superseding", "publish"} /\ v # "fatal" /\ v # "result"
    BY DEF AttemptPcs
  <2>3. conns' = conns
    BY <1>6 DEF TakeResult
  <2>4. conns' \in [Ids -> ConnRec] /\ (\A j \in Ids : ConnKept(j)) /\ (Up(i)' => v = "landed")
    BY <1>0, <1>1, <2>1, <2>3, ConnsSame
  <2>5. conns'[i].reports = conns[i].reports /\ conns'[i].current = conns[i].current
    BY <2>3
  <2> QED
    BY <1>1, <1>2, <1>3, <1>4, <2>1, <2>2, <2>4, <2>5, YoungMoves
<1> QED
  BY <1>5, <1>6

\* onAttemptSucceeded's first section.
LEMMA AttemptSucceeds ==
  ASSUME ClientInv, NEW i \in Ids, OnAttemptSucceeded(i)
  PROVE  ClientInv'
<1>0. FieldType /\ ConnType /\ LocalType /\ EndInv
  BY DEF ClientInv, TypeOK
<1>1. CASE cl.closing
  <2>1. /\ conns' = Asked(conns, {i}) /\ pc' = [pc EXCEPT ![<<"attempt", i>>] = "none"]
        /\ UNCHANGED <<config, cl, result, prev, closer, taken, cbWait>> /\ Young(i)
    BY <1>1 DEF OnAttemptSucceeded, Young
  <2>2. FieldsKept /\ FieldsOK /\ cbWait' \in BOOLEAN
    BY <1>0, <2>1, FieldsSame DEF LocalType
  <2>3. conns' \in [Ids -> ConnRec] /\ (\A j \in Ids : ConnMore(j)) /\ (Up(i) => conns'[i].asked)
    BY <1>0, <2>1, ConnsAsked
  <2>4. /\ result' \in [Ids -> {"none", "ok", "fatal", "now", "later"}]
        /\ \A j \in Ids : j # i => result'[j] = result[j]
    BY <1>0, <2>1 DEF LocalType
  <2> QED
    BY <1>1, <2>1, <2>2, <2>3, <2>4, YoungEnds
<1>2. CASE ~cl.closing /\ cl.retiring \notin {0, i}
  BY <1>2, SuccessSupersedes
<1>3. CASE ~cl.closing /\ cl.retiring \in {0, i}
  BY <1>3, SuccessFirst
<1> QED
  BY <1>1, <1>2, <1>3

\* onAttemptFailed's fatal branch.
LEMMA AttemptUnrecoverable ==
  ASSUME ClientInv, NEW i \in Ids, Unrecoverable(i)
  PROVE  ClientInv'
<1>1. Young(i) /\ ~Up(i)
  BY DEF ClientInv, Unrecoverable, Young, YoungInv
<1>2. CASE cl.closing
  BY <1>1, <1>2, YoungGivesUp DEF Unrecoverable
<1>3. CASE ~cl.closing
  <2>1. /\ pc' = [pc EXCEPT ![<<"attempt", i>>] = "fatal"] /\ cl' = EndClient
        /\ taken' = {cl.conn, cl.retiring} \ {0} /\ UNCHANGED <<config, result, prev, conns, closer, cbWait>>
    BY <1>3 DEF Unrecoverable
  <2> QED
    BY <1>1, <1>3, <2>1, ClientEnds
<1> QED
  BY <1>2, <1>3

\* Every step of an attempt.
LEMMA AttemptStepOK ==
  ASSUME ClientInv, NEW i \in Ids, AttemptStep(i)
  PROVE  ClientInv'
  BY AttemptWaits, AttemptDials, AttemptResult, AttemptSucceeds, SupersedeOK, PublishOK, AttemptUnrecoverable
     DEF AttemptStep

\* watchConn ends: its connection was not the current one, or it reports, or it decides.
LEMMA WatchEnds ==
  ASSUME ClientInv, NEW i \in Ids, WatchConn(i)
  PROVE  ClientInv'
<1>0. FieldType /\ ConnType /\ CloserType /\ PlaceType /\ LocalType /\ EndInv /\ CurrentInv
  BY DEF ClientInv, TypeOK
<1>1. CASE cl.conn # i
  <2>1. /\ pc[<<"watch", i>>] \in {"watching", "ending"} /\ ~Up(i) /\ conns' = conns
        /\ pc' = [pc EXCEPT ![<<"watch", i>>] = "none"]
        /\ UNCHANGED <<config, result, prev, closer, taken, cbWait>>
    BY <1>1 DEF WatchConn, WasActive
  <2>2. cl' = cl
    <3>1. cl.retiring # i
      BY <1>0, <1>1, IdRange DEF CurrentInv
    <3>2. cl.drainSched \in BOOLEAN /\ cl.drainedNoReconnect \in BOOLEAN /\ WasActive(i) = FALSE
      BY <1>0, <1>1 DEF FieldType, ClientRec, WasActive
    <3>3. SchedAfterEnd(FALSE) = cl.drainSched
      BY <3>2 DEF SchedAfterEnd
    <3>4. cl' = [cl EXCEPT !.conn = cl.conn, !.state = cl.state, !.retiring = cl.retiring,
                           !.drainSched = cl.drainSched, !.drainedNoReconnect = cl.drainedNoReconnect]
      BY <3>1, <3>2, <3>3 DEF WatchConn
    <3> QED
      BY <1>0, <3>4 DEF FieldType, ClientRec
  <2>3. FieldsKept /\ FieldsOK
    BY <1>0, <2>2, FieldsSame
  <2>4. SidePcs
    <3>1. /\ pc' \in [Threads -> Places] /\ Only("watch", i, "none")
          /\ Kept("attempt") /\ Kept("retire") /\ Kept("stable") /\ Kept("drain")
      BY <1>0, <2>1, MoveWatch
    <3> QED
      BY <1>1, <2>1, <3>1 DEF SidePcs, Only, Kept
  <2>5. SideConns
    BY <1>0, <2>1 DEF SideConns, ConnType, Up
  <2>6. SideClosers
    BY <1>0, <2>1 DEF SideClosers, CloserType
  <2>7. cbWait' \in BOOLEAN /\ (cbWait' => cl.closing)
    BY <1>0, <2>1 DEF LocalType, EndInv
  <2> QED
    BY <2>1, <2>3, <2>4, <2>5, <2>6, <2>7, Background
<1>2. CASE cl.conn = i /\ (cl.closing \/ cl.drainSched)
  BY <1>2, WatchReports
<1>3. CASE cl.conn = i /\ ~cl.closing /\ ~cl.drainSched
  BY <1>3, WatchDecides
<1> QED
  BY <1>1, <1>2, <1>3

\* A step that changes at most the fields, the goroutines on the side and cbWait.
LEMMA SideStep ==
  ASSUME ClientInv, FieldsKept, FieldsOK, SidePcs, UNCHANGED <<config, result, prev, closer, taken, cbWait>>, SideConns
  PROVE  ClientInv'
<1>1. SideClosers
  BY DEF ClientInv, TypeOK, SideClosers, CloserType
<1>2. cbWait' \in BOOLEAN /\ (cbWait' => cl.closing)
  BY DEF ClientInv, TypeOK, LocalType, EndInv
<1> QED
  BY <1>1, <1>2, Background

\* No goroutine moves.
LEMMA PcsSame ==
  ASSUME PlaceType, pc' = pc
  PROVE  SidePcs
  BY DEF PlaceType, SidePcs, Kept

\* No connection changes.
LEMMA SideSame ==
  ASSUME ConnType, conns' = conns
  PROVE  SideConns
  BY DEF ConnType, SideConns, Up

\* Some connections are asked to close.
LEMMA SideAsked ==
  ASSUME ConnType, NEW S, conns' = Asked(conns, S)
  PROVE  SideConns
  BY ConnsAsked DEF SideConns, ConnMore, Up

\* watchConn's escape through closeCh.
LEMMA WatchEscapes ==
  ASSUME ClientInv, NEW i \in Ids, WatchEscape(i)
  PROVE  ClientInv'
<1>0. FieldType /\ ConnType /\ PlaceType /\ EndInv
  BY DEF ClientInv, TypeOK
<1>1. /\ pc[<<"watch", i>>] = "watching" /\ cl.closing /\ pc' = [pc EXCEPT ![<<"watch", i>>] = "ending"]
      /\ UNCHANGED <<config, cl, result, prev, closer, taken, cbWait>>
  BY <1>0 DEF WatchEscape, EndInv
<1>2. /\ pc' \in [Threads -> Places] /\ Only("watch", i, "ending")
      /\ Kept("attempt") /\ Kept("retire") /\ Kept("stable") /\ Kept("drain")
  BY <1>0, <1>1, MoveWatch
<1>3. SidePcs
  BY <1>1, <1>2 DEF SidePcs, Only, Kept
<1>4. SideConns
  BY <1>0, SideSame, SideAsked DEF WatchEscape
<1> QED
  BY <1>0, <1>1, <1>3, <1>4, FieldsSame, SideStep

\* A watcher with the end of its connection in hand.
LEMMA WatcherDecides ==
  ASSUME ClientInv, NEW i \in Ids, KeepaliveBudget(i) \/ GoFatal(i)
  PROVE  ClientInv'
<1>0. FieldType /\ ConnType /\ LocalType /\ EndInv
  BY DEF ClientInv, TypeOK
<1>1. pc[<<"watch", i>>] \in Deciding /\ "againNow" \in Deciding /\ "againLater" \in Deciding
  BY DEF KeepaliveBudget, GoFatal, Deciding
<1>2. CASE KeepaliveBudget(i)
  <2>1. PICK v \in {"againNow", "againLater"} : pc' = [pc EXCEPT ![<<"watch", i>>] = v]
    BY <1>2 DEF KeepaliveBudget
  <2>2. /\ cl' = [cl EXCEPT !.attempt = cl.attempt, !.keepaliveUsed = TRUE,
                            !.refreshUsed = cl.refreshUsed, !.state = cl.state]
        /\ cl.attempt \in Nat /\ cl.refreshUsed \in BOOLEAN
    BY <1>0, <1>2 DEF KeepaliveBudget, FieldType, ClientRec
  <2>3. FieldsKept /\ FieldsOK
    BY <1>0, <2>2, FieldsSet
  <2>4. UNCHANGED <<config, result, conns, prev, closer, taken, cbWait>>
    BY <1>2 DEF KeepaliveBudget
  <2> QED
    BY <1>1, <2>1, <2>3, <2>4, DeciderMoves
<1>3. CASE GoFatal(i) /\ cl.closing
  <2>1. pc' = [pc EXCEPT ![<<"watch", i>>] = "none"] /\ UNCHANGED <<config, cl, result, conns, prev, closer, taken, cbWait>>
    BY <1>3 DEF GoFatal
  <2>2. FieldsKept /\ FieldsOK /\ cbWait' \in BOOLEAN
    BY <1>0, <2>1, FieldsSame DEF LocalType
  <2>3. conns' \in [Ids -> ConnRec] /\ \A j \in Ids : ConnMore(j)
    BY <1>0, <2>1, ConnsSame
  <2>4. /\ conns'[i].live = conns[i].live /\ (conns[i].asked => conns'[i].asked)
        /\ conns'[i].current = conns[i].current /\ conns'[i].reports = conns[i].reports
    BY <2>1
  <2> QED
    BY <1>1, <1>3, <2>1, <2>2, <2>3, <2>4, DeciderEnds
<1>4. CASE GoFatal(i) /\ ~cl.closing
  <2>1. /\ pc' = [pc EXCEPT ![<<"watch", i>>] = "fatal"] /\ cl' = EndClient
        /\ taken' = {cl.conn, cl.retiring} \ {0} /\ UNCHANGED <<config, result, prev, conns, closer, cbWait>>
    BY <1>4 DEF GoFatal
  <2> QED
    BY <1>1, <1>4, <2>1, ClientEnds
<1> QED
  BY <1>2, <1>3, <1>4

\* What a new attempt does to the goroutines and the connections; f is the id it takes.
LEMMA SpawnOK ==
  ASSUME ClientInv, NEW f \in Ids, Free(f), NEW i \in Ids, NEW v \in {"start", "backoff"},
         NEW kind \in {"attempt", "watch", "drain"}, ReadyToSpawn(kind, i),
         pc' = [pc EXCEPT ![<<"attempt", f>>] = v, ![<<kind, i>>] = "none"],
         NEW c, kind = "watch" => c = Reported(conns, i), kind # "watch" => c = conns,
         conns' = [c EXCEPT ![f] = NoConn], UNCHANGED <<config, cl, result, prev, closer, taken, cbWait>>
  PROVE  ClientInv'
<1>0. ConnType
  BY DEF ClientInv, TypeOK
<1>1. /\ c \in [Ids -> ConnRec]
      /\ \A j \in Ids : /\ c[j].live = conns[j].live /\ c[j].asked = conns[j].asked /\ c[j].current = conns[j].current
                        /\ c[j].reports = IF kind = "watch" /\ j = i THEN conns[j].reports + 1 ELSE conns[j].reports
  <2>1. CASE kind = "watch"
    BY <1>0, <2>1, ConnsReported
  <2>2. CASE kind # "watch"
    BY <1>0, <2>2 DEF ConnType
  <2> QED
    BY <2>1, <2>2
<1>2. NoConn \in ConnRec /\ NoConn.live = "none" /\ NoConn.reports = 0 /\ NoConn.current = FALSE
  BY DEF NoConn, ConnRec
<1>3. conns' \in [Ids -> ConnRec] /\ conns'[f] = NoConn /\ \A j \in Ids : j # f => conns'[j] = c[j]
  BY <1>1, <1>2
<1>4. SpawnConns(kind, i, f)
  BY <1>1, <1>2, <1>3 DEF SpawnConns, ConnKept
<1>5. SpawnPcs(kind, i, f, v)
  BY DEF SpawnPcs
<1> QED
  BY <1>4, <1>5, Spawns

\* The actions that start the next attempt.
LEMMA HandsOver ==
  ASSUME ClientInv, NEW i \in Ids, DrainHandOverAfterClose(i)
  PROVE  ClientInv'
<1>1. CanSpawn /\ pc[<<"watch", i>>] \in Deciding /\ UNCHANGED <<config, cl, result, prev, closer, taken, cbWait>>
  BY DEF DrainHandOverAfterClose, Deciding
<1>2. Fresh \in Ids /\ Free(Fresh)
  BY <1>1, FreshOK
<1>3. PICK v \in {"start", "backoff"} : pc' = [pc EXCEPT ![<<"attempt", Fresh>>] = v, ![<<"watch", i>>] = "none"]
  BY DEF DrainHandOverAfterClose, Attempt
<1>4. conns' = [Reported(conns, i) EXCEPT ![Fresh] = NoConn]
  BY DEF DrainHandOverAfterClose, Renewed
<1>5. ReadyToSpawn("watch", i)
  BY <1>1 DEF ReadyToSpawn
<1> QED
  BY <1>1, <1>2, <1>3, <1>4, <1>5, SpawnOK

\* Every step of a watcher.
LEMMA WatchStepOK ==
  ASSUME ClientInv, NEW i \in Ids, WatchStep(i)
  PROVE  ClientInv'
  BY WatchEscapes, WatchEnds, WatcherDecides, HandsOver DEF WatchStep

\* reportAndSchedule and the tail of a fatal path, for an attempt.
LEMMA AttemptFollowsUp ==
  ASSUME ClientInv, NEW i \in Ids, FollowUp(<<"attempt", i>>)
  PROVE  ClientInv'
<1>0. FieldType /\ ConnType /\ LocalType /\ EndInv /\ YoungInv
  BY DEF ClientInv, TypeOK
<1> DEFINE t == <<"attempt", i>>
<1>1. ReportOf(t) = conns
  BY DEF ReportOf
<1>2. Young(i) /\ ~Up(i) /\ pc[t] \in {"againNow", "againLater", "redialNow", "redialLater", "fatal"}
  BY <1>0 DEF FollowUp, ReportAndSchedule, Schedule, FatalTail, Young, YoungInv
<1> HIDE DEF t
<1>3. CASE ReportAndSchedule(t) /\ cl.closing
  <2>1. pc' = [pc EXCEPT ![<<"attempt", i>>] = "none"] /\ UNCHANGED <<config, cl, result, conns, prev, closer, taken, cbWait>>
    BY <1>1, <1>3 DEF ReportAndSchedule, t
  <2> QED
    BY <1>2, <1>3, <2>1, YoungGivesUp
<1>4. CASE ReportAndSchedule(t) /\ ~cl.closing /\ (config.disabled \/ cl.attempt >= MaxAttempts)
  <2>1. /\ pc' = [pc EXCEPT ![<<"attempt", i>>] = "fatal"] /\ cl' = EndClient
        /\ taken' = {cl.conn, cl.retiring} \ {0} /\ UNCHANGED <<config, result, prev, conns, closer, cbWait>>
    BY <1>4 DEF ReportAndSchedule, t
  <2> QED
    BY <1>2, <1>4, <2>1, ClientEnds
<1>5. CASE ReportAndSchedule(t) /\ ~cl.closing /\ ~(config.disabled \/ cl.attempt >= MaxAttempts)
  <2>1. PICK v \in {"redialNow", "redialLater"} : pc' = [pc EXCEPT ![<<"attempt", i>>] = v]
    BY <1>5 DEF ReportAndSchedule, t
  <2>2. PICK a \in Nat : cl' = [cl EXCEPT !.attempt = a]
    <3>1. cl' = [cl EXCEPT !.attempt = @ + 1]
      BY <1>5 DEF ReportAndSchedule
    <3>2. cl.attempt + 1 \in Nat
      BY <1>0 DEF FieldType, ClientRec
    <3> QED
      BY <3>1, <3>2
  <2>6. /\ cl' = [cl EXCEPT !.attempt = a, !.keepaliveUsed = cl.keepaliveUsed,
                            !.refreshUsed = cl.refreshUsed, !.state = cl.state]
        /\ cl.keepaliveUsed \in BOOLEAN /\ cl.refreshUsed \in BOOLEAN
    BY <1>0, <2>2 DEF FieldType, ClientRec
  <2>3. FieldsKept /\ FieldsOK
    BY <1>0, <2>6, FieldsSet
  <2>4. UNCHANGED <<config, result, conns, prev, closer, taken, cbWait>>
    BY <1>5 DEF ReportAndSchedule
  <2>5. v \in AttemptPcs \ {"none", "superseding", "publish", "result", "fatal"}
    BY DEF AttemptPcs
  <2> QED
    BY <1>2, <2>1, <2>3, <2>4, <2>5, YoungGoesOn
<1>6. CASE Schedule(t)
  <2>1. CanSpawn /\ UNCHANGED <<config, cl, result, prev, closer, taken, cbWait>>
    BY <1>6 DEF Schedule
  <2>2. Fresh \in Ids /\ Free(Fresh)
    BY <2>1, FreshOK
  <2>3. PICK v \in {"start", "backoff"} : pc' = [pc EXCEPT ![<<"attempt", Fresh>>] = v, ![<<"attempt", i>>] = "none"]
    BY <1>6 DEF Schedule, Attempt, t
  <2>4. conns' = [conns EXCEPT ![Fresh] = NoConn]
    BY <1>1, <1>6 DEF Schedule, Renewed
  <2>5. ReadyToSpawn("attempt", i)
    BY <1>2 DEF ReadyToSpawn
  <2> QED
    BY <2>1, <2>2, <2>3, <2>4, <2>5, SpawnOK
<1>7. CASE FatalTail(t)
  <2>1. /\ cl.closing /\ pc' = [pc EXCEPT ![<<"attempt", i>>] = "none"] /\ conns' = Asked(conns, taken)
        /\ cbWait' \in BOOLEAN /\ UNCHANGED <<config, result, prev, closer, taken>>
    BY <1>0, <1>1, <1>7 DEF FatalTail, ScheduleCbChClose, EndInv, t
  <2>2. PICK f \in {"none", "ok", "error"} : cl' = [cl EXCEPT !.first = f, !.closeCh = TRUE]
    BY <1>0, <1>7 DEF FatalTail, FieldType, ClientRec
  <2>3. cl' = [cl EXCEPT !.first = f, !.closeCh = TRUE, !.cbClosed = cl.cbClosed] /\ cl.cbClosed \in BOOLEAN
    BY <1>0, <2>2 DEF FieldType, ClientRec
  <2>4. FieldsKept /\ FieldsOK
    BY <1>0, <2>1, <2>3, FieldsClose
  <2>5. conns' \in [Ids -> ConnRec] /\ \A j \in Ids : ConnMore(j)
    BY <1>0, <2>1, ConnsAsked
  <2>6. /\ result' \in [Ids -> {"none", "ok", "fatal", "now", "later"}]
        /\ \A j \in Ids : j # i => result'[j] = result[j]
    BY <1>0, <2>1 DEF LocalType
  <2> QED
    BY <1>2, <2>1, <2>4, <2>5, <2>6, YoungEnds
<1> QED
  BY <1>3, <1>4, <1>5, <1>6, <1>7 DEF FollowUp, t

\* The same for a watcher.
LEMMA WatcherFollowsUp ==
  ASSUME ClientInv, NEW i \in Ids, FollowUp(<<"watch", i>>)
  PROVE  ClientInv'
<1>0. FieldType /\ ConnType /\ LocalType /\ EndInv
  BY DEF ClientInv, TypeOK
<1> DEFINE t == <<"watch", i>>
<1>1. ReportOf(t) = Reported(conns, i)
  BY DEF ReportOf
<1>2. pc[t] \in Deciding /\ "redialNow" \in Deciding /\ "redialLater" \in Deciding
  BY DEF FollowUp, ReportAndSchedule, Schedule, FatalTail, Deciding
<1> HIDE DEF t
<1>3. CASE ReportAndSchedule(t) /\ cl.closing
  <2>1. /\ pc' = [pc EXCEPT ![<<"watch", i>>] = "none"] /\ conns' = Reported(conns, i)
        /\ UNCHANGED <<config, cl, result, prev, closer, taken, cbWait>>
    BY <1>1, <1>3 DEF ReportAndSchedule, t
  <2>2. FieldsKept /\ FieldsOK /\ cbWait' \in BOOLEAN
    BY <1>0, <2>1, FieldsSame DEF LocalType
  <2>3. /\ conns' \in [Ids -> ConnRec] /\ (\A j \in Ids : j # i => ConnMore(j))
        /\ conns'[i].live = conns[i].live /\ (conns[i].asked => conns'[i].asked)
        /\ conns'[i].current = conns[i].current /\ conns'[i].reports = conns[i].reports + 1
    BY <1>0, <2>1, ConnsReported DEF ConnMore
  <2> QED
    BY <1>2, <1>3, <2>1, <2>2, <2>3, DeciderEnds DEF t
<1>4. CASE ReportAndSchedule(t) /\ ~cl.closing /\ (config.disabled \/ cl.attempt >= MaxAttempts)
  <2>1. /\ pc' = [pc EXCEPT ![<<"watch", i>>] = "fatal"] /\ cl' = EndClient
        /\ taken' = {cl.conn, cl.retiring} \ {0} /\ UNCHANGED <<config, result, prev, conns, closer, cbWait>>
    BY <1>4 DEF ReportAndSchedule, t
  <2> QED
    BY <1>2, <1>4, <2>1, ClientEnds DEF t
<1>5. CASE ReportAndSchedule(t) /\ ~cl.closing /\ ~(config.disabled \/ cl.attempt >= MaxAttempts)
  <2>1. PICK v \in {"redialNow", "redialLater"} : pc' = [pc EXCEPT ![<<"watch", i>>] = v]
    BY <1>5 DEF ReportAndSchedule, t
  <2>2. PICK a \in Nat : cl' = [cl EXCEPT !.attempt = a]
    <3>1. cl' = [cl EXCEPT !.attempt = @ + 1]
      BY <1>5 DEF ReportAndSchedule
    <3>2. cl.attempt + 1 \in Nat
      BY <1>0 DEF FieldType, ClientRec
    <3> QED
      BY <3>1, <3>2
  <2>6. /\ cl' = [cl EXCEPT !.attempt = a, !.keepaliveUsed = cl.keepaliveUsed,
                            !.refreshUsed = cl.refreshUsed, !.state = cl.state]
        /\ cl.keepaliveUsed \in BOOLEAN /\ cl.refreshUsed \in BOOLEAN
    BY <1>0, <2>2 DEF FieldType, ClientRec
  <2>3. FieldsKept /\ FieldsOK
    BY <1>0, <2>6, FieldsSet
  <2>4. UNCHANGED <<config, result, conns, prev, closer, taken, cbWait>>
    BY <1>5 DEF ReportAndSchedule
  <2> QED
    BY <1>2, <2>1, <2>3, <2>4, DeciderMoves DEF t
<1>6. CASE Schedule(t)
  <2>1. CanSpawn /\ UNCHANGED <<config, cl, result, prev, closer, taken, cbWait>>
    BY <1>6 DEF Schedule
  <2>2. Fresh \in Ids /\ Free(Fresh)
    BY <2>1, FreshOK
  <2>3. PICK v \in {"start", "backoff"} : pc' = [pc EXCEPT ![<<"attempt", Fresh>>] = v, ![<<"watch", i>>] = "none"]
    BY <1>6 DEF Schedule, Attempt, t
  <2>4. conns' = [Reported(conns, i) EXCEPT ![Fresh] = NoConn]
    BY <1>1, <1>6 DEF Schedule, Renewed
  <2>5. ReadyToSpawn("watch", i)
    BY <1>2 DEF ReadyToSpawn, t
  <2> QED
    BY <2>1, <2>2, <2>3, <2>4, <2>5, SpawnOK
<1>7. CASE FatalTail(t)
  <2>1. /\ cl.closing /\ pc' = [pc EXCEPT ![<<"watch", i>>] = "none"] /\ conns' = Asked(Reported(conns, i), taken)
        /\ cbWait' \in BOOLEAN /\ UNCHANGED <<config, result, prev, closer, taken>>
    BY <1>0, <1>1, <1>7 DEF FatalTail, ScheduleCbChClose, EndInv, t
  <2>2. PICK f \in {"none", "ok", "error"} : cl' = [cl EXCEPT !.first = f, !.closeCh = TRUE]
    BY <1>0, <1>7 DEF FatalTail, FieldType, ClientRec
  <2>3. cl' = [cl EXCEPT !.first = f, !.closeCh = TRUE, !.cbClosed = cl.cbClosed] /\ cl.cbClosed \in BOOLEAN
    BY <1>0, <2>2 DEF FieldType, ClientRec
  <2>4. FieldsKept /\ FieldsOK
    BY <1>0, <2>1, <2>3, FieldsClose
  <2>5. PICK r \in [Ids -> ConnRec] :
          /\ r = Reported(conns, i)
          /\ \A j \in Ids : /\ r[j].live = conns[j].live /\ r[j].asked = conns[j].asked
                            /\ r[j].current = conns[j].current
                            /\ r[j].reports = IF j = i THEN conns[j].reports + 1 ELSE conns[j].reports
    BY <1>0, ConnsReported
  <2>6. /\ conns' \in [Ids -> ConnRec]
        /\ \A j \in Ids : /\ conns'[j].live = r[j].live /\ conns'[j].reports = r[j].reports
                          /\ conns'[j].current = r[j].current /\ (r[j].asked => conns'[j].asked)
    BY <2>1, <2>5, AskedKeeps
  <2>7. /\ \A j \in Ids : j # i => ConnMore(j)
        /\ conns'[i].live = conns[i].live /\ (conns[i].asked => conns'[i].asked)
        /\ conns'[i].current = conns[i].current /\ conns'[i].reports = conns[i].reports + 1
    BY <2>5, <2>6 DEF ConnMore
  <2> QED
    BY <1>2, <2>1, <2>4, <2>6, <2>7, DeciderEnds DEF t
<1> QED
  BY <1>3, <1>4, <1>5, <1>6, <1>7 DEF FollowUp, t

\* The goroutines on the side: retire's select and the stability timer.
LEMMA SideGoroutines ==
  ASSUME ClientInv, NEW i \in Ids, Retire(i) \/ ArmStability(i)
  PROVE  ClientInv'
<1>0. FieldType /\ ConnType /\ PlaceType /\ EndInv
  BY DEF ClientInv, TypeOK
<1>1. UNCHANGED <<config, result, prev, closer, taken, cbWait>>
  BY DEF Retire, ArmStability
<1>2. CASE Retire(i)
  <2>1. /\ pc[<<"retire", i>>] = "serving" /\ pc' = [pc EXCEPT ![<<"retire", i>>] = "closing"]
        /\ conns' = Asked(conns, {i}) /\ cl' = cl
    BY <1>2 DEF Retire
  <2>2. /\ pc' \in [Threads -> Places] /\ Only("retire", i, "closing")
        /\ Kept("attempt") /\ Kept("watch") /\ Kept("stable") /\ Kept("drain")
    BY <1>0, <2>1, MoveRetire
  <2>3. SidePcs
    BY <2>1, <2>2 DEF SidePcs, Only, Kept
  <2> QED
    BY <1>0, <1>1, <2>1, <2>3, FieldsSame, SideAsked, SideStep
<1>3. CASE ArmStability(i)
  <2>1. pc' = [pc EXCEPT ![<<"stable", i>>] = "none"] /\ conns' = conns
    BY <1>3 DEF ArmStability
  <2>2. /\ pc' \in [Threads -> Places] /\ Only("stable", i, "none")
        /\ Kept("attempt") /\ Kept("watch") /\ Kept("retire") /\ Kept("drain")
    BY <1>0, <2>1, MoveStable
  <2>3. SidePcs
    BY <2>1, <2>2 DEF SidePcs, Only, Kept
  <2>4. cl' = cl \/ cl' = [cl EXCEPT !.attempt = 0, !.keepaliveUsed = FALSE, !.refreshUsed = FALSE]
    BY <1>3 DEF ArmStability
  <2>5. FieldsKept /\ FieldsOK
    <3>1. CASE cl' = cl
      BY <1>0, <3>1, FieldsSame
    <3>2. CASE cl' = [cl EXCEPT !.attempt = 0, !.keepaliveUsed = FALSE, !.refreshUsed = FALSE]
      <4>1. cl' = [cl EXCEPT !.attempt = 0, !.keepaliveUsed = FALSE, !.refreshUsed = FALSE, !.state = cl.state]
        BY <1>0, <3>2 DEF FieldType, ClientRec
      <4> QED
        BY <1>0, <4>1, FieldsSet
    <3> QED
      BY <2>4, <3>1, <3>2
  <2> QED
    BY <1>0, <1>1, <2>1, <2>3, <2>5, SideSame, SideStep
<1> QED
  BY <1>2, <1>3

\* handleServerDrain: the first drain of the current connection, or any other.
LEMMA DrainArrives ==
  ASSUME ClientInv, NEW i \in Ids, HandleServerDrain(i)
  PROVE  ClientInv'
<1>0. FieldType /\ ConnType /\ PlaceType /\ EndInv
  BY DEF ClientInv, TypeOK
<1> DEFINE first == Up(i) /\ ~cl.closing /\ cl.conn = i /\ ~config.disabled /\ ~RepeatedDrain(i)
<1>1. CASE first
  BY <1>1, DrainFirst
<1>2. CASE ~first
  <2>1. UNCHANGED <<config, result, prev, closer, taken, cbWait>> /\ conns[i].pending > 0
    BY DEF HandleServerDrain
  <2>2. pc' = pc
    <3>1. pc' = [pc EXCEPT ![<<"drain", i>>] = pc[<<"drain", i>>]]
      BY <1>2 DEF HandleServerDrain
    <3> QED
      BY <1>0, <3>1 DEF PlaceType
  <2>3. PICK d \in BOOLEAN : /\ cl' = [cl EXCEPT !.drainedNoReconnect = d]
                             /\ d => cl.drainedNoReconnect \/ config.disabled
    <3>1. cl.drainSched \in BOOLEAN /\ cl.drainedNoReconnect \in BOOLEAN
      BY <1>0 DEF FieldType, ClientRec
    <3>2. PICK d \in BOOLEAN : /\ cl' = [cl EXCEPT !.drainedNoReconnect = d, !.drainSched = cl.drainSched, !.retiring = cl.retiring]
                               /\ d => cl.drainedNoReconnect \/ config.disabled
      <4> DEFINE e == cl.drainedNoReconnect \/ (Up(i) /\ ~cl.closing /\ cl.conn = i /\ config.disabled)
      <4>1. e \in BOOLEAN /\ (e => cl.drainedNoReconnect \/ config.disabled)
        OBVIOUS
      <4>2. cl' = [cl EXCEPT !.drainedNoReconnect = e, !.drainSched = cl.drainSched, !.retiring = cl.retiring]
        BY <1>2, <3>1 DEF HandleServerDrain
      <4> QED
        BY <4>1, <4>2
    <3> QED
      BY <1>0, <3>2 DEF FieldType, ClientRec
  <2>4. cl' \in ClientRec /\ FieldsKept
    BY <1>0, <2>3 DEF FieldType, ClientRec, FieldsKept
  <2>5. cl'.drainedNoReconnect = d /\ cl'.state = cl.state /\ cl'.closeCh = cl.closeCh /\ cl'.cbClosed = cl.cbClosed
    BY <1>0, <2>3 DEF FieldType, ClientRec
  <2>6. FieldsOK
    BY <1>0, <2>3, <2>4, <2>5 DEF FieldsOK, FieldsKept, EndInv
  <2>7. SideConns
    <3> DEFINE popped == [conns EXCEPT ![i].pending = @ - 1]
    <3>1. /\ popped \in [Ids -> ConnRec]
          /\ \A j \in Ids : /\ popped[j].live = conns[j].live /\ popped[j].reports = conns[j].reports
                            /\ popped[j].current = conns[j].current /\ popped[j].asked = conns[j].asked
      BY <1>0, <2>1 DEF ConnType, ConnRec
    <3>2. conns' = popped \/ conns' = Asked(popped, {i})
      BY DEF HandleServerDrain
    <3> HIDE DEF popped
    <3>3. CASE conns' = popped
      BY <3>1, <3>3 DEF SideConns, Up
    <3>4. CASE conns' = Asked(popped, {i})
      <4>1. /\ conns' \in [Ids -> ConnRec]
            /\ \A j \in Ids : /\ conns'[j].live = popped[j].live /\ conns'[j].reports = popped[j].reports
                              /\ conns'[j].current = popped[j].current /\ (popped[j].asked => conns'[j].asked)
        BY <3>1, <3>4, AskedKeeps
      <4> QED
        BY <3>1, <4>1 DEF SideConns, Up
    <3> QED
      BY <3>2, <3>3, <3>4
  <2> QED
    BY <1>0, <2>1, <2>2, <2>4, <2>6, <2>7, PcsSame, SideStep
<1> QED
  BY <1>1, <1>2

\* The drain's own redial.
LEMMA DrainRedials ==
  ASSUME ClientInv, NEW i \in Ids, DrainRedial(i)
  PROVE  ClientInv'
<1>0. FieldType /\ ConnType /\ PlaceType /\ EndInv
  BY DEF ClientInv, TypeOK
<1>1. pc[<<"drain", i>>] = "track" /\ UNCHANGED <<config, cl, result, prev, closer, taken, cbWait>>
  BY DEF DrainRedial
<1>2. CASE cl.closing
  <2>1. pc' = [pc EXCEPT ![<<"drain", i>>] = "none"] /\ conns' = conns
    BY <1>2 DEF DrainRedial, TryTrack
  <2>2. /\ pc' \in [Threads -> Places] /\ Only("drain", i, "none")
        /\ Kept("attempt") /\ Kept("watch") /\ Kept("retire") /\ Kept("stable")
    BY <1>0, <2>1, MoveDrain
  <2>3. SidePcs
    BY <1>2, <2>2 DEF SidePcs, Only, Kept
  <2> QED
    BY <1>0, <1>1, <2>1, <2>3, FieldsSame, SideSame, SideStep
<1>3. CASE ~cl.closing
  <2>1. CanSpawn
    BY <1>3 DEF DrainRedial, TryTrack
  <2>2. Fresh \in Ids /\ Free(Fresh)
    BY <2>1, FreshOK
  <2>3. PICK v \in {"start", "backoff"} : pc' = [pc EXCEPT ![<<"attempt", Fresh>>] = v, ![<<"drain", i>>] = "none"]
    BY <1>3 DEF DrainRedial, TryTrack, Attempt
  <2>4. conns' = [conns EXCEPT ![Fresh] = NoConn]
    BY <1>3 DEF DrainRedial, TryTrack, Renewed
  <2>5. ReadyToSpawn("drain", i)
    BY <1>1, <1>3 DEF ReadyToSpawn
  <2> QED
    BY <1>1, <2>2, <2>3, <2>4, <2>5, SpawnOK
<1> QED
  BY <1>2, <1>3

\* The server drains or ends a connection, or a local Close completes.
LEMMA ConnectionStep ==
  ASSUME ClientInv, NEW i \in Ids, PeerDrain(i) \/ PeerEnds(i) \/ LocalEnd(i)
  PROVE  ClientInv'
<1>0. FieldType /\ ConnType /\ PlaceType /\ EndInv
  BY DEF ClientInv, TypeOK
<1>1. UNCHANGED <<config, cl, pc, result, prev, closer, taken, cbWait>>
  BY DEF PeerDrain, PeerEnds, LocalEnd
<1>2. CASE PeerDrain(i)
  <2>1. conns' = [conns EXCEPT ![i].drained = TRUE, ![i].pending = @ + 1]
    BY <1>2 DEF PeerDrain
  <2>2. SideConns
    BY <1>0, <2>1 DEF ConnType, ConnRec, SideConns, Up
  <2> QED
    BY <1>0, <1>1, <2>2, FieldsSame, PcsSame, SideStep
<1>3. CASE PeerEnds(i) \/ LocalEnd(i)
  <2>1. conns' = [conns EXCEPT ![i].live = "done", ![i].asked = FALSE]
    BY <1>3 DEF PeerEnds, LocalEnd
  <2>2. SideConns
    BY <1>0, <2>1 DEF ConnType, ConnRec, SideConns, Up
  <2> QED
    BY <1>0, <1>1, <2>2, FieldsSame, PcsSame, SideStep
<1> QED
  BY <1>2, <1>3

\* A call of Close goes on: it may forget its connections.
LEMMA CloserMoves ==
  ASSUME CloserType, EndInv, NEW k \in Closers, cl.closing, NEW r \in CloserRec, closer' = [closer EXCEPT ![k] = r],
         r.pc # "idle", r.conn \in {0, closer[k].conn}, r.retiring \in {0, closer[k].retiring}
  PROVE  SideClosers
<1>1. closer' \in [Closers -> CloserRec] /\ closer'[k] = r /\ \A x \in Closers : x # k => closer'[x] = closer[x]
  BY DEF CloserType
<1>2. \A x \in Closers : closer'[x] = closer[x] \/ (closer'[x].pc # "idle" /\ cl.closing)
  BY <1>1
<1>3. \A x \in Closers : closer'[x].conn \in {0, closer[x].conn} /\ closer'[x].retiring \in {0, closer[x].retiring}
  BY <1>1
<1> QED
  BY <1>1, <1>2, <1>3 DEF SideClosers

\* A call of Close comes to its wait for the goroutines.
LEMMA CloserWaits ==
  ASSUME CloserType, EndInv, NEW k \in Closers, cl.closing, closer' = [closer EXCEPT ![k] = Waiting]
  PROVE  SideClosers
<1>1. Waiting \in CloserRec /\ Waiting.pc # "idle" /\ Waiting.conn = 0 /\ Waiting.retiring = 0
  BY IdRange DEF Waiting, CloserRec
<1> QED
  BY <1>1, CloserMoves

\* Every step of a call of Close but the first.
LEMMA CloserStepOK ==
  ASSUME ClientInv, NEW k \in Closers, CloserStep(k)
  PROVE  ClientInv'
<1>0. FieldType /\ ConnType /\ CloserType /\ PlaceType /\ LocalType /\ EndInv
  BY DEF ClientInv, TypeOK
<1>1. /\ closer[k].pc # "idle" /\ UNCHANGED <<config, pc, result, prev, taken, cbWait>>
      /\ cl.closing
  <2>1. closer[k].pc # "idle" /\ UNCHANGED <<config, pc, result, prev, taken, cbWait>>
    BY DEF CloserStep, CloseStop, CloseCheck, CloseDrain, CloseGrace, CloseConn, CloseWait
  <2> QED
    BY <1>0, <2>1 DEF EndInv
<1>2. SidePcs /\ cbWait' \in BOOLEAN /\ (cbWait' => cl.closing)
  BY <1>0, <1>1, PcsSame DEF LocalType
<1>3. closer[k] \in CloserRec
  BY <1>0 DEF CloserType
<1>4. \A p \in {"stop", "check", "drain", "grace", "closing", "waiting", "done"} :
        /\ [closer[k] EXCEPT !.pc = p] \in CloserRec /\ [closer[k] EXCEPT !.pc = p].pc # "idle"
        /\ [closer[k] EXCEPT !.pc = p].conn = closer[k].conn
        /\ [closer[k] EXCEPT !.pc = p].retiring = closer[k].retiring
  BY <1>3 DEF CloserRec
<1>5. ASSUME NEW p \in {"stop", "check", "drain", "grace", "closing", "waiting", "done"},
             closer' = [closer EXCEPT ![k] = [closer[k] EXCEPT !.pc = p]]
      PROVE  SideClosers
  BY <1>0, <1>1, <1>4, <1>5, CloserMoves
<1>6. CASE CloseStop(k)
  <2>1. SideConns
    BY <1>0, <1>6, SideAsked DEF CloseStop
  <2>2. PICK f \in {"none", "ok", "error"} : cl' = [cl EXCEPT !.first = f, !.closeCh = TRUE]
    <3>1. cl' = [cl EXCEPT !.closeCh = TRUE, !.first = IF @ = "none" THEN "error" ELSE @]
      BY <1>6 DEF CloseStop
    <3>2. (IF cl.first = "none" THEN "error" ELSE cl.first) \in {"none", "ok", "error"}
      BY <1>0 DEF FieldType, ClientRec
    <3>3. cl' = [cl EXCEPT !.first = IF cl.first = "none" THEN "error" ELSE cl.first, !.closeCh = TRUE]
      BY <1>0, <3>1 DEF FieldType, ClientRec
    <3> QED
      BY <3>2, <3>3
  <2>3. cl' = [cl EXCEPT !.first = f, !.closeCh = TRUE, !.cbClosed = cl.cbClosed] /\ cl.cbClosed \in BOOLEAN
    BY <1>0, <2>2 DEF FieldType, ClientRec
  <2>4. FieldsKept /\ FieldsOK
    BY <1>0, <1>1, <2>3, FieldsClose
  <2>5. SideClosers
    <3>1. CASE closer[k].conn = 0
      <4>1. closer' = [closer EXCEPT ![k] = Waiting]
        BY <1>6, <3>1 DEF CloseStop
      <4> QED
        BY <1>0, <1>1, <4>1, CloserWaits
    <3>2. CASE closer[k].conn # 0
      <4>1. PICK p \in {"closing", "check"} : closer' = [closer EXCEPT ![k] = [closer[k] EXCEPT !.pc = p, !.retiring = 0]]
        BY <1>6, <3>2 DEF CloseStop
      <4> DEFINE r == [closer[k] EXCEPT !.pc = p, !.retiring = 0]
      <4>2. r \in CloserRec /\ r.pc # "idle" /\ r.conn = closer[k].conn /\ r.retiring = 0
        BY <1>3, IdRange DEF CloserRec
      <4> HIDE DEF r
      <4>3. closer' = [closer EXCEPT ![k] = r]
        BY <4>1 DEF r
      <4> QED
        BY <1>0, <1>1, <4>2, <4>3, CloserMoves
    <3> QED
      BY <3>1, <3>2
  <2> QED
    BY <1>1, <1>2, <2>1, <2>4, <2>5, Background
<1>7. CASE CloseWait(k)
  <2>1. WgZero /\ conns' = conns
    BY <1>7 DEF CloseWait
  <2>2. /\ cl' = [cl EXCEPT !.first = cl.first, !.closeCh = cl.closeCh, !.cbClosed = TRUE]
        /\ cl.first \in {"none", "ok", "error"} /\ cl.closeCh \in BOOLEAN
    BY <1>0, <1>7 DEF CloseWait, FieldType, ClientRec
  <2>3. FieldsKept /\ FieldsOK
    BY <1>0, <1>1, <2>1, <2>2, FieldsClose
  <2>4. SideClosers
    BY <1>5, <1>7 DEF CloseWait
  <2> QED
    BY <1>0, <1>1, <1>2, <2>1, <2>3, <2>4, SideSame, Background
<1>8. ASSUME cl' = cl, SideConns, SideClosers
      PROVE  ClientInv'
  BY <1>0, <1>1, <1>2, <1>8, FieldsSame, Background
<1>9. CASE CloseCheck(k)
  <2>1. SideConns
    BY <1>0, <1>9, SideSame, SideAsked DEF CloseCheck
  <2>2. PICK p \in {"closing", "drain"} : closer' = [closer EXCEPT ![k] = [closer[k] EXCEPT !.pc = p]]
    BY <1>9 DEF CloseCheck
  <2> QED
    BY <1>5, <1>8, <1>9, <2>1, <2>2 DEF CloseCheck
<1>10. CASE CloseDrain(k)
  <2>1. SideConns /\ cl' = cl
    BY <1>0, <1>10, SideSame DEF CloseDrain
  <2>2. \/ closer' = [closer EXCEPT ![k] = Waiting]
        \/ closer' = [closer EXCEPT ![k] = [closer[k] EXCEPT !.pc = "grace"]]
    BY <1>10 DEF CloseDrain
  <2>3. SideClosers
    BY <1>0, <1>1, <1>5, <2>2, CloserWaits
  <2> QED
    BY <1>8, <2>1, <2>3
<1>11. CASE CloseGrace(k)
  <2>1. SideConns /\ cl' = cl
    BY <1>0, <1>11, SideAsked DEF CloseGrace
  <2>2. closer' = [closer EXCEPT ![k] = [closer[k] EXCEPT !.pc = "closing"]]
    BY <1>11 DEF CloseGrace
  <2> QED
    BY <1>5, <1>8, <2>1, <2>2
<1>12. CASE CloseConn(k)
  <2>1. SideConns /\ cl' = cl /\ closer' = [closer EXCEPT ![k] = Waiting]
    BY <1>0, <1>12, SideSame DEF CloseConn
  <2> QED
    BY <1>0, <1>1, <1>8, <2>1, CloserWaits
<1> QED
  BY <1>6, <1>7, <1>9, <1>10, <1>11, <1>12 DEF CloserStep

\* closeStart: the first call, or one that finds the client closing.
LEMMA CloseStartOK ==
  ASSUME ClientInv, NEW k \in Closers, NEW how \in {"graceful", "now"}, CloseStart(k, how)
  PROVE  ClientInv'
<1>0. FieldType /\ ConnType /\ CloserType /\ PlaceType /\ LocalType /\ EndInv
  BY DEF ClientInv, TypeOK
<1>1. CASE cl.closing
  <2>1. closer' = [closer EXCEPT ![k] = Waiting] /\ UNCHANGED <<config, cl, pc, result, prev, conns, taken, cbWait>>
    BY <1>1 DEF CloseStart
  <2>2. SideClosers
    BY <1>0, <1>1, <2>1, CloserWaits
  <2>3. SidePcs /\ SideConns /\ FieldsKept /\ FieldsOK
    BY <1>0, <2>1, PcsSame, SideSame, FieldsSame
  <2>4. cbWait' \in BOOLEAN
    BY <1>0, <2>1 DEF LocalType
  <2> QED
    BY <1>1, <2>1, <2>2, <2>3, <2>4, Background
<1>2. CASE ~cl.closing
  BY <1>2, CloseStarts
<1> QED
  BY <1>1, <1>2

\* scheduleCbChClose's goroutine.
LEMMA CbChCloseOK ==
  ASSUME ClientInv, CbChClose
  PROVE  ClientInv'
<1>0. FieldType /\ ConnType /\ CloserType /\ PlaceType /\ LocalType /\ EndInv
  BY DEF ClientInv, TypeOK
<1>1. cl.closing /\ WgZero /\ cbWait' = FALSE /\ UNCHANGED <<config, pc, result, prev, conns, closer, taken>>
  BY <1>0 DEF CbChClose, EndInv
<1>2. /\ cl' = [cl EXCEPT !.first = cl.first, !.closeCh = cl.closeCh, !.cbClosed = TRUE]
      /\ cl.first \in {"none", "ok", "error"} /\ cl.closeCh \in BOOLEAN
  BY <1>0 DEF CbChClose, FieldType, ClientRec
<1>3. FieldsKept /\ FieldsOK
  BY <1>0, <1>1, <1>2, FieldsClose
<1>4. SidePcs /\ SideConns
  BY <1>0, <1>1, PcsSame, SideSame
<1>5. SideClosers
  BY <1>0, <1>1 DEF SideClosers, CloserType
<1> QED
  BY <1>1, <1>3, <1>4, <1>5, Background

\* Connect.
LEMMA ConnectOK ==
  ASSUME ClientInv, Connect
  PROVE  ClientInv'
<1>1. CASE cl.closing
  BY <1>1, ConnectTooLate
<1>2. CASE ~cl.closing
  <2>1. CanSpawn
    BY <1>2, FreeAtStart DEF ClientInv, Connect
  <2>2. Fresh \in Ids /\ pc' = [pc EXCEPT ![<<"attempt", Fresh>>] = "start"]
    BY <1>2, <2>1, FreshOK DEF Connect, Attempt
  <2> QED
    BY <1>2, <2>2, ConnectStarts
<1> QED
  BY <1>1, <1>2

-----------------------------------------------------------------------------
(* The invariant and what follows from it                                    *)

\* Every step keeps the invariant.
LEMMA ClientStep ==
  ASSUME ClientInv, [Next]_vars
  PROVE  ClientInv'
<1>1. CASE Connect
  BY <1>1, ConnectOK
<1>2. CASE CbChClose
  BY <1>2, CbChCloseOK
<1>3. CASE UNCHANGED vars
  <2>1. SidePcs /\ SideConns /\ FieldsKept /\ FieldsOK
    BY <1>3, PcsSame, SideSame, FieldsSame DEF vars, ClientInv, TypeOK
  <2>2. UNCHANGED <<config, result, prev, closer, taken, cbWait>>
    BY <1>3 DEF vars
  <2> QED
    BY <2>1, <2>2, SideStep
<1>4. ASSUME NEW i \in Ids,
             \/ AttemptStep(i) \/ WatchStep(i)
             \/ Retire(i) \/ RetireEnds(i) \/ ArmStability(i)
             \/ HandleServerDrain(i) \/ DrainRedial(i)
             \/ PeerDrain(i) \/ PeerEnds(i) \/ LocalEnd(i)
             \/ FollowUp(<<"attempt", i>>) \/ FollowUp(<<"watch", i>>)
      PROVE  ClientInv'
  BY <1>4, AttemptStepOK, WatchStepOK, SideGoroutines, RetireEndsOK, DrainArrives, DrainRedials, ConnectionStep,
     AttemptFollowsUp, WatcherFollowsUp
<1>5. ASSUME NEW k \in Closers, CloserStep(k) \/ \E how \in {"graceful", "now"} : CloseStart(k, how)
      PROVE  ClientInv'
  BY <1>5, CloserStepOK, CloseStartOK
<1> QED
  BY <1>1, <1>2, <1>3, <1>4, <1>5 DEF Next, Done

\* The state of NewClient.
LEMMA ClientInit ==
  ASSUME Init
  PROVE  ClientInv
<1>1. FieldType
  <2>1. config \in [disabled : BOOLEAN, static : BOOLEAN]
    BY ClientAssumption DEF Init
  <2>2. cl \in ClientRec
    BY IdRange DEF Init, ClientRec
  <2> QED
    BY <2>1, <2>2 DEF FieldType
<1>2. NoConn \in ConnRec /\ NoConn.live = "none" /\ NoConn.reports = 0 /\ NoConn.current = FALSE
  BY DEF NoConn, ConnRec
<1>3. \A i \in Ids : conns[i] = NoConn /\ prev[i] = 0 /\ result[i] = "none"
  BY DEF Init
<1>4. \A k \in Kinds, i \in Ids : pc[<<k, i>>] = "none"
  BY DEF Init, Threads
<1>5. \A i \in Ids : /\ pc[<<"attempt", i>>] = "none" /\ pc[<<"watch", i>>] = "none" /\ pc[<<"retire", i>>] = "none"
                     /\ pc[<<"stable", i>>] = "none" /\ pc[<<"drain", i>>] = "none"
  BY <1>4 DEF Kinds
<1>6. "none" \in AttemptPcs /\ "none" \in Places /\ "none" \notin Deciding
  BY DEF AttemptPcs, Places, Deciding
<1>7. /\ cl.state = "idle" /\ cl.conn = 0 /\ cl.retiring = 0 /\ cl.graceful = 0 /\ cl.closing = FALSE
      /\ cl.drainSched = FALSE /\ cl.drainedNoReconnect = FALSE /\ cl.retired = {} /\ cl.started = FALSE
      /\ cl.closeCh = FALSE /\ cl.cbClosed = FALSE /\ taken = {} /\ cbWait = FALSE
  BY DEF Init
<1>8. \A k \in Closers : closer[k].pc = "idle" /\ closer[k].conn = 0 /\ closer[k].retiring = 0
  BY DEF Init
<1>9. ConnType
  BY <1>2 DEF Init, ConnType
<1>10. CloserType
  BY IdRange DEF Init, CloserType, CloserRec
<1>11. PlaceType
  BY <1>5, <1>6 DEF Init, PlaceType
<1>12. LocalType
  BY <1>5, <1>7, IdRange DEF Init, LocalType
<1>13. EndInv
  BY <1>5, <1>7, <1>8 DEF EndInv
<1>14. StartInv
  BY <1>2, <1>3, <1>4, <1>7, <1>8 DEF StartInv, Up
<1>15. YoungInv
  BY <1>5 DEF YoungInv, Young
<1>16. CurrentInv
  BY <1>7 DEF CurrentInv
<1>17. HandInv
  BY <1>3, <1>5, <1>6, <1>7 DEF HandInv
<1>18. ReportInv
  BY <1>2, <1>3 DEF ReportInv
<1>19. WatchedInv /\ NoOrphan
  BY <1>2, <1>3 DEF WatchedInv, NoOrphan, Up
<1>20. DriverInv
  BY <1>7 DEF DriverInv
<1> QED
  BY <1>1, <1>9, <1>10, <1>11, <1>12, <1>13, <1>14, <1>15, <1>16, <1>17, <1>18, <1>19, <1>20 DEF ClientInv, TypeOK

\* In every reachable state the fields, the goroutines and the connections agree about who
\* has which connection, who is to report its end and what brings the next one
\* (client_reconnect.go as a whole).
THEOREM ClientInvariant == Spec => []ClientInv
<1>1. Init => ClientInv
  BY ClientInit
<1>2. ClientInv /\ [Next]_vars => ClientInv'
  BY ClientStep
<1> QED
  BY <1>1, <1>2, PTL DEF Spec

\* No connection's end reaches OnDisconnect twice, and while the client runs none is
\* forgotten (watchConn, retire).
THEOREM AlwaysReportedOnce == Spec => []ReportedOnce
<1>1. ClientInv => ReportedOnce
  <2> SUFFICES ASSUME ClientInv, NEW i \in Ids
               PROVE  /\ conns[i].reports <= 1
                      /\ Settled(i) /\ ~cl.closing /\ (\A j \in Ids : prev[j] # i) => conns[i].reports = 1
    BY DEF ReportedOnce
  <2>1. CurrentInv /\ ReportInv
    BY DEF ClientInv
  <2>2. conns[i].reports <= 1
    BY <2>1 DEF ReportInv
  <2>3. ASSUME Settled(i), ~cl.closing, \A j \in Ids : prev[j] # i
        PROVE  conns[i].reports = 1
    <3>1. conns[i].current /\ pc[<<"attempt", i>>] = "none" /\ pc[<<"watch", i>>] = "none" /\ pc[<<"retire", i>>] = "none"
      BY <2>3 DEF Settled, Kinds
    <3>2. i # cl.conn
      BY <2>1, <2>3, <3>1, IdRange DEF CurrentInv
    <3>3. "none" \notin Deciding
      BY DEF Deciding
    <3>4. ~Owed(i)
      BY <2>3, <3>1, <3>2, <3>3 DEF Owed
    <3> QED
      BY <2>1, <2>3, <3>1, <3>4 DEF ReportInv
  <2> QED
    BY <2>2, <2>3
<1> QED
  BY <1>1, ClientInvariant, PTL

\* Whoever is to close a live connection still knows of it (Close, closeLiveConns, retire).
THEOREM AlwaysNoOrphan == Spec => []NoOrphan
<1>1. ClientInv => NoOrphan
  BY DEF ClientInv
<1> QED
  BY <1>1, ClientInvariant, PTL

\* A client that runs has exactly one thing that will bring it its next connection
\* (reportAndSchedule, handleServerDrain, drainHandOverAfterClose, watchConn).
THEOREM AlwaysOneDriver == Spec => []OneDriver
<1>1. ClientInv => OneDriver
  <2> SUFFICES ASSUME ClientInv, cl.started, ~cl.closing
               PROVE  Cardinality(Drivers) = 1
    BY DEF OneDriver
  <2>1. DriverInv
    BY DEF ClientInv
  <2>2. \A t \in Threads : t[1] \in Kinds /\ t[2] \in Ids /\ t = <<t[1], t[2]>>
    BY DEF Threads
  <2>3. CASE cl.conn # 0 /\ ~cl.drainSched
    <3>1. \A t \in Threads : ~Drives(t[1], pc[t])
      BY <2>1, <2>2, <2>3 DEF DriverInv
    <3>2. Drivers = {<<"current", cl.conn>>}
      BY <2>3, <3>1 DEF Drivers
    <3> QED
      BY <3>2, FS_Singleton
  <2>4. CASE ~(cl.conn # 0 /\ ~cl.drainSched)
    <3>1. PICK kind \in Kinds, id \in Ids :
            \A k \in Kinds, i \in Ids : Drives(k, pc[<<k, i>>]) <=> k = kind /\ i = id
      BY <2>1, <2>4 DEF DriverInv
    <3>2. <<kind, id>> \in Threads
      BY DEF Threads
    <3>3. \A t \in Threads : Drives(t[1], pc[t]) <=> t = <<kind, id>>
      BY <2>2, <3>1
    <3>4. Drivers = {<<kind, id>>}
      BY <2>4, <3>2, <3>3 DEF Drivers
    <3> QED
      BY <3>4, FS_Singleton
  <2> QED
    BY <2>3, <2>4
<1> QED
  BY <1>1, ClientInvariant, PTL

\* Close is final: nothing moves the state on, and once the queue of callbacks is closed no
\* goroutine can add to it and no live connection is left that nobody is closing.
THEOREM AlwaysClosedIsFinal == Spec => []ClosedIsFinal
<1>1. ClientInv => ClosedIsFinal
  <2> SUFFICES ASSUME ClientInv PROVE ClosedIsFinal
    OBVIOUS
  <2>1. EndInv /\ WatchedInv
    BY DEF ClientInv
  <2>2. ASSUME cl.cbClosed, NEW i \in Ids, Up(i) PROVE conns[i].asked
    <3>1. pc[<<"attempt", i>>] = "none" /\ pc[<<"watch", i>>] = "none"
      BY <2>1, <2>2 DEF EndInv, WgZero, Kinds
    <3> QED
      BY <2>1, <2>2, <3>1 DEF WatchedInv
  <2> QED
    BY <2>1, <2>2 DEF ClosedIsFinal, EndInv
<1> QED
  BY <1>1, ClientInvariant, PTL
=============================================================================
