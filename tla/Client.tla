------------------------------- MODULE Client -------------------------------
(* The reconnecting client (client_reconnect.go): the attempts, the goroutine *)
(* that watches each connection, the retirement of a drained connection, the  *)
(* stability timer, the server's drains, and the three ways to close.         *)
(*                                                                            *)
(* An attempt and the connection it dials share an id.  Every section of      *)
(* cl.mu is one action, and so is the unlocked tail after it when that tail   *)
(* only queues callbacks or starts goroutines.  The queue of callbacks is     *)
(* reduced to its closing (cbClosed) and to the number of OnDisconnect calls  *)
(* queued for each connection.                                                *)
EXTENDS Integers, FiniteSets

CONSTANTS
  N,            \* bound: attempts and connections that exist at one time
  MaxAttempts,  \* ReconnectOptions.MaxAttempts (positive: zero would mean no limit)
  MaxDrains,    \* bound: drain messages of the server
  Configs,      \* configurations to explore: [disabled, static] records
  Codes,        \* close codes a server may end a connection with
  Closers       \* bound: calls of Close, CloseWith and CloseImmediately

Ids == 1 .. N

\* 4010 and 4011; 4012; 1001; 1000; 4013; 4009 and 4014; every other end.
AllCodes == {"fatal", "away", "1001", "clean", "keepalive", "refused", "other"}

ASSUME ClientAssumption ==
  /\ N \in Nat \ {0} /\ MaxAttempts \in Nat \ {0} /\ MaxDrains \in Nat
  /\ Configs \subseteq [disabled : BOOLEAN, static : BOOLEAN] /\ Codes \subseteq AllCodes

\* The goroutines of an id.  wg counts every kind but "drain", which runs on the
\* connection's delivery loop.
Kinds   == {"attempt", "watch", "retire", "stable", "drain"}
Threads == Kinds \X Ids

VARIABLES
  config,   \* Reconnect.Disabled, and whether the token provider is a StaticToken
  cl,       \* the fields of Client; 0 stands for nil
  pc,       \* where each goroutine is; "none" when it does not run
  result,   \* what dialAndHandshake returned to each attempt
  prev,     \* the drained connection an attempt has superseded (wonDrainRace)
  conns,    \* the connections
  closer,   \* the calls of Close
  taken,    \* connections a fatal path took from cl.conn and cl.retiringConn
  cbWait,   \* scheduleCbChClose's goroutine waits for wg
  drains    \* drain messages sent so far

vars == <<config, cl, pc, result, prev, conns, closer, taken, cbWait, drains>>

\* A connection: Done() has not fired (up), a drain was received, OnDrain calls owed, a
\* local Close is under way, it became current, OnDisconnect calls queued.
NoConn == [live |-> "none", drained |-> FALSE, pending |-> 0, asked |-> FALSE,
           current |-> FALSE, reports |-> 0]

\* Conn.Done() has fired, or there is no connection.
Up(i) == conns[i].live = "up"

\* No goroutine, field or local variable refers to the id any more.
Free(i) ==
  /\ ~Up(i)
  /\ \A k \in Kinds : pc[<<k, i>>] = "none"
  /\ i \notin {cl.conn, cl.retiring, cl.graceful} \cup cl.retired \cup taken
  /\ \A j \in Ids : prev[j] # i
  /\ \A k \in Closers : closer[k].conn # i /\ closer[k].retiring # i

Fresh == CHOOSE i \in Ids : Free(i)

\* go attemptLoop(delay): with a delay it first waits in waitBackoff.  A new attempt
\* takes a free id (with none free the goroutine that starts it waits: the bound N).
Attempt(p, delay) == [p EXCEPT ![<<"attempt", Fresh>>] = IF delay = "now" THEN "start" ELSE "backoff"]
Renewed(c) == [c EXCEPT ![Fresh] = NoConn]
CanSpawn == \E i \in Ids : Free(i)

\* cl.report for the end of a connection.
Reported(c, i) == [c EXCEPT ![i].reports = @ + 1]

\* conn.Close in a goroutine of its own; LocalEnd completes it.
Asked(c, S) == [i \in Ids |-> [c[i] EXCEPT !.asked = @ \/ (i \in S /\ c[i].live = "up")]]

\* What every fatal path does to the fields: the client is closed and whoever did
\* this takes both connections.
EndClient == [cl EXCEPT !.state = "closed", !.closing = TRUE, !.conn = 0, !.retiring = 0]

WgZero == \A k \in Kinds \ {"drain"}, i \in Ids : pc[<<k, i>>] = "none"

Init ==
  /\ config \in Configs
  /\ cl = [state |-> "idle", conn |-> 0, retiring |-> 0, graceful |-> 0, attempt |-> 0,
           closing |-> FALSE, drainSched |-> FALSE, drainedNoReconnect |-> FALSE,
           keepaliveUsed |-> FALSE, refreshUsed |-> FALSE, retired |-> {},
           started |-> FALSE, everConnected |-> FALSE, first |-> "none",
           closeCh |-> FALSE, cbClosed |-> FALSE]
  /\ pc = [t \in Threads |-> "none"]
  /\ result = [i \in Ids |-> "none"] /\ prev = [i \in Ids |-> 0]
  /\ conns = [i \in Ids |-> NoConn]
  /\ closer = [k \in Closers |-> [pc |-> "idle", how |-> "none", conn |-> 0, retiring |-> 0]]
  /\ taken = {} /\ cbWait = FALSE /\ drains = 0

\* Connect: startOnce, tryTrack and the first attempt.
Connect ==
  /\ ~cl.started
  /\ cl' = [cl EXCEPT !.started = TRUE]
  /\ pc' = IF cl.closing THEN pc ELSE Attempt(pc, "now")
  /\ UNCHANGED <<config, result, prev, conns, closer, taken, cbWait, drains>>

-----------------------------------------------------------------------------
(* attemptLoop                                                               *)

\* waitBackoff's section.
WaitBackoff(i) ==
  /\ pc[<<"attempt", i>>] = "backoff"
  /\ pc' = [pc EXCEPT ![<<"attempt", i>>] = IF cl.closing THEN "none" ELSE "sleeping"]
  /\ cl' = IF cl.closing THEN cl ELSE [cl EXCEPT !.state = "backoff"]
  /\ UNCHANGED <<config, result, prev, conns, closer, taken, cbWait, drains>>

\* The end of the wait: the timer, or closeCh.
Wake(i) ==
  /\ pc[<<"attempt", i>>] = "sleeping"
  /\ \E woken \in {"start"} \cup (IF cl.closeCh THEN {"none"} ELSE {}) :
       pc' = [pc EXCEPT ![<<"attempt", i>>] = woken]
  /\ UNCHANGED <<config, cl, result, prev, conns, closer, taken, cbWait, drains>>

StartDial(i) ==
  /\ pc[<<"attempt", i>>] = "start"
  /\ pc' = [pc EXCEPT ![<<"attempt", i>>] = IF cl.closing THEN "none" ELSE "dialing"]
  /\ cl' = IF cl.closing THEN cl ELSE [cl EXCEPT !.state = "dialing"]
  /\ UNCHANGED <<config, result, prev, conns, closer, taken, cbWait, drains>>

\* What can come back from the token provider and dialOnce other than a connection or a
\* rejected token: a provider's own error, a provider that cannot reach its source
\* (ErrTokenUnavailable), an upgrade refused for good (403, 404, a wrong subprotocol,
\* 4010), HTTP 429 with a Retry-After, and everything that may pass.
Failures == {"provider", "unavailable", "refused", "throttled", "transient"}

\* classifyFailureErr: fatal, or after which kind of delay to try again.
Verdicts(failure) ==
  CASE failure \in {"provider", "refused"}       -> {"fatal"}
    [] failure = "throttled"                     -> {"now", "later"}
    [] failure \in {"unavailable", "transient"}  -> {"later"}

\* dialAndHandshake up to its first result.  A rejected token (401, 4011) is fatal for a
\* static token and once the refresh has been used; else it claims the one refresh.
Dial(i) ==
  /\ pc[<<"attempt", i>>] = "dialing"
  /\ \/ /\ conns' = [conns EXCEPT ![i].live = "up"]
        /\ result' = [result EXCEPT ![i] = "ok"]
        /\ pc' = [pc EXCEPT ![<<"attempt", i>>] = "result"]
        /\ UNCHANGED cl
     \/ \E failure \in Failures : \E verdict \in Verdicts(failure) :
        /\ result' = [result EXCEPT ![i] = verdict]
        /\ pc' = [pc EXCEPT ![<<"attempt", i>>] = "result"]
        /\ UNCHANGED <<cl, conns>>
     \/ LET forced == config.static \/ cl.refreshUsed IN
        /\ cl' = IF config.static THEN cl ELSE [cl EXCEPT !.refreshUsed = TRUE]
        /\ result' = IF forced THEN [result EXCEPT ![i] = "fatal"] ELSE result
        /\ pc' = [pc EXCEPT ![<<"attempt", i>>] = IF forced THEN "result" ELSE "rejected"]
        /\ UNCHANGED conns
  /\ UNCHANGED <<config, prev, closer, taken, cbWait, drains>>

\* The first rejection is reported; with the client closing the error goes back as it is.
Refresh(i) ==
  /\ pc[<<"attempt", i>>] = "rejected"
  /\ result' = IF cl.closing THEN [result EXCEPT ![i] = "later"] ELSE result
  /\ pc' = [pc EXCEPT ![<<"attempt", i>>] = IF cl.closing THEN "result" ELSE "redialing"]
  /\ UNCHANGED <<config, cl, prev, conns, closer, taken, cbWait, drains>>

\* The dial with the second token: only a second rejection is forced to be fatal.
Redial(i) ==
  /\ pc[<<"attempt", i>>] = "redialing"
  /\ pc' = [pc EXCEPT ![<<"attempt", i>>] = "result"]
  /\ \/ /\ conns' = [conns EXCEPT ![i].live = "up"]
        /\ result' = [result EXCEPT ![i] = "ok"]
     \/ \E verdict \in {"fatal"} \cup UNION {Verdicts(failure) : failure \in Failures} :
        /\ result' = [result EXCEPT ![i] = verdict]
        /\ UNCHANGED conns
  /\ UNCHANGED <<config, cl, prev, closer, taken, cbWait, drains>>

\* attemptLoop's closingNow, and the way to onAttemptSucceeded or onAttemptFailed.
TakeResult(i) ==
  /\ pc[<<"attempt", i>>] = "result"
  /\ result' = [result EXCEPT ![i] = "none"]
  /\ pc' = [pc EXCEPT ![<<"attempt", i>>] =
              IF cl.closing THEN "none"
              ELSE CASE result[i] = "ok"     -> "landed"
                     [] result[i] = "fatal"  -> "unrecoverable"
                     [] result[i] = "now"    -> "againNow"
                     [] result[i] = "later"  -> "againLater"]
  /\ conns' = IF cl.closing /\ result[i] = "ok" THEN Asked(conns, {i}) ELSE conns
  /\ UNCHANGED <<config, cl, prev, closer, taken, cbWait, drains>>

-----------------------------------------------------------------------------
(* onAttemptSucceeded, retire and armStability                               *)

\* Mutant: the flag of the drain outlives its hand-over.
SchedKept(won) == cl.drainSched
\* A replacement that superseded the drained connection ends the hand-over.
SchedAfterWelcome(won) == cl.drainSched /\ ~won

\* The first section: the connection becomes current, its deliveries are released and
\* Connect has its result.  A client that is closing discards it.
OnAttemptSucceeded(i) ==
  LET won == cl.retiring \notin {0, i} IN
  /\ pc[<<"attempt", i>>] = "landed"
  /\ IF cl.closing
     THEN /\ conns' = Asked(conns, {i})
          /\ pc' = [pc EXCEPT ![<<"attempt", i>>] = "none"]
          /\ UNCHANGED <<cl, prev>>
     ELSE /\ cl' = [cl EXCEPT !.everConnected = TRUE, !.state = "connected", !.conn = i,
                              !.first = IF @ = "none" THEN "ok" ELSE @,
                              !.retiring = 0, !.drainSched = SchedAfterWelcome(won)]
          /\ conns' = [conns EXCEPT ![i].current = TRUE]
          /\ prev' = [prev EXCEPT ![i] = IF won THEN cl.retiring ELSE 0]
          /\ pc' = [pc EXCEPT ![<<"attempt", i>>] = IF won THEN "superseding" ELSE "publish"]
  /\ UNCHANGED <<config, result, closer, taken, cbWait, drains>>

\* The second section: the drained connection is handed to retire.
Supersede(i) ==
  /\ pc[<<"attempt", i>>] = "superseding"
  /\ cl' = [cl EXCEPT !.retired = @ \cup {prev[i]}]
  /\ pc' = [pc EXCEPT ![<<"attempt", i>>] = "publish", ![<<"retire", prev[i]>>] = "serving"]
  /\ prev' = [prev EXCEPT ![i] = 0]
  /\ UNCHANGED <<config, result, conns, closer, taken, cbWait, drains>>

\* OnConnect is queued; watchConn and armStability start.
Publish(i) ==
  /\ pc[<<"attempt", i>>] = "publish"
  /\ pc' = [pc EXCEPT ![<<"attempt", i>>] = "none", ![<<"watch", i>>] = "watching",
                      ![<<"stable", i>>] = "waiting"]
  /\ UNCHANGED <<config, cl, result, prev, conns, closer, taken, cbWait, drains>>

\* retire's select: no stream left, the timer or closeCh (its end is RetireEnds).
Retire(o) ==
  /\ pc[<<"retire", o>>] = "serving" /\ Up(o)
  /\ conns' = Asked(conns, {o})
  /\ pc' = [pc EXCEPT ![<<"retire", o>>] = "closing"]
  /\ UNCHANGED <<config, cl, result, prev, closer, taken, cbWait, drains>>

RetireEnds(o) ==
  /\ pc[<<"retire", o>>] \in {"serving", "closing"} /\ ~Up(o)
  /\ cl' = [cl EXCEPT !.retired = @ \ {o}]
  /\ conns' = Reported(conns, o)
  /\ pc' = [pc EXCEPT ![<<"retire", o>>] = "none"]
  /\ UNCHANGED <<config, result, prev, closer, taken, cbWait, drains>>

\* armStability: the timer re-arms the budgets if the connection is still the current
\* one; the end of the connection and closeCh end the wait.
ArmStability(i) ==
  /\ pc[<<"stable", i>>] = "waiting"
  /\ pc' = [pc EXCEPT ![<<"stable", i>>] = "none"]
  /\ \/ cl' = IF cl.conn = i THEN [cl EXCEPT !.attempt = 0, !.keepaliveUsed = FALSE, !.refreshUsed = FALSE]
              ELSE cl
     \/ /\ ~Up(i) \/ cl.closeCh
        /\ UNCHANGED cl
  /\ UNCHANGED <<config, result, prev, conns, closer, taken, cbWait, drains>>

-----------------------------------------------------------------------------
(* onAttemptFailed, reportAndSchedule, goFatal: t is an attempt or a watcher *)

\* The report of a failed attempt belongs to no connection.
ReportOf(t) == IF t[1] = "watch" THEN Reported(conns, t[2]) ELSE conns

\* reportAndSchedule's section: with the client closing only the report is left to do.
ReportAndSchedule(t) ==
  /\ pc[t] \in {"againNow", "againLater"}
  /\ IF cl.closing
     THEN /\ conns' = ReportOf(t)
          /\ pc' = [pc EXCEPT ![t] = "none"]
          /\ UNCHANGED <<cl, taken>>
     ELSE IF config.disabled \/ cl.attempt >= MaxAttempts
     THEN /\ cl' = EndClient
          /\ taken' = {cl.conn, cl.retiring} \ {0}
          /\ pc' = [pc EXCEPT ![t] = "fatal"]
          /\ UNCHANGED conns
     ELSE /\ cl' = [cl EXCEPT !.attempt = @ + 1]
          /\ pc' = [pc EXCEPT ![t] = IF @ = "againNow" THEN "redialNow" ELSE "redialLater"]
          /\ UNCHANGED <<conns, taken>>
  /\ UNCHANGED <<config, result, prev, closer, cbWait, drains>>

\* Its tail, after the section: the report, OnReconnect and the next attempt.
Schedule(t) ==
  /\ pc[t] \in {"redialNow", "redialLater"} /\ CanSpawn
  /\ conns' = Renewed(ReportOf(t))
  /\ pc' = [Attempt(pc, IF pc[t] = "redialNow" THEN "now" ELSE "later") EXCEPT ![t] = "none"]
  /\ UNCHANGED <<config, cl, result, prev, closer, taken, cbWait, drains>>

\* onAttemptFailed's fatal branch: a client that is closing still gets the report.
Unrecoverable(i) ==
  /\ pc[<<"attempt", i>>] = "unrecoverable"
  /\ pc' = [pc EXCEPT ![<<"attempt", i>>] = IF cl.closing THEN "none" ELSE "fatal"]
  /\ cl' = IF cl.closing THEN cl ELSE EndClient
  /\ taken' = IF cl.closing THEN taken ELSE {cl.conn, cl.retiring} \ {0}
  /\ UNCHANGED <<config, result, prev, conns, closer, cbWait, drains>>

\* goFatal's section: with the client closing it returns at once.
GoFatal(i) ==
  /\ pc[<<"watch", i>>] = "goFatal"
  /\ pc' = [pc EXCEPT ![<<"watch", i>>] = IF cl.closing THEN "none" ELSE "fatal"]
  /\ cl' = IF cl.closing THEN cl ELSE EndClient
  /\ taken' = IF cl.closing THEN taken ELSE {cl.conn, cl.retiring} \ {0}
  /\ UNCHANGED <<config, result, prev, conns, closer, cbWait, drains>>

\* Mutant: nobody closes the queue of callbacks after a fatal end.
NoCbChClose == UNCHANGED cbWait
\* scheduleCbChClose.
ScheduleCbChClose == cbWait' = TRUE

\* The tail of the three fatal paths: report, first result, stopBackoff, closeLiveConns
\* and scheduleCbChClose.
FatalTail(t) ==
  /\ pc[t] = "fatal"
  /\ pc' = [pc EXCEPT ![t] = "none"]
  /\ conns' = Asked(ReportOf(t), taken)
  /\ cl' = [cl EXCEPT !.first = IF @ = "none" THEN "error" ELSE @, !.closeCh = TRUE]
  /\ ScheduleCbChClose
  /\ UNCHANGED <<config, result, prev, closer, taken, drains>>

-----------------------------------------------------------------------------
(* handleServerDrain                                                         *)

\* Mutant: a second drain of the same connection starts a second replacement.
NeverRepeated(i) == FALSE
\* The connection is already being replaced.
RepeatedDrain(i) == cl.drainSched /\ cl.retiring = i

\* One drain message reaches OnDrain.  Its connection may have ended, the client may be
\* closing, another connection may be current, and it may be a repeat.
HandleServerDrain(i) ==
  /\ conns[i].pending > 0 /\ conns[i].current /\ pc[<<"drain", i>>] = "none"
  /\ LET stale  == Up(i) /\ ~cl.closing /\ cl.conn # i
         asks   == stale /\ cl.retiring # i /\ i \notin cl.retired
         now    == Up(i) /\ ~cl.closing /\ cl.conn = i
         first  == now /\ ~config.disabled /\ ~RepeatedDrain(i)
         popped == [conns EXCEPT ![i].pending = @ - 1]
     IN /\ conns' = IF asks THEN Asked(popped, {i}) ELSE popped
        /\ cl' = [cl EXCEPT !.drainedNoReconnect = @ \/ (now /\ config.disabled),
                            !.drainSched = @ \/ first,
                            !.retiring = IF first THEN i ELSE @]
        /\ pc' = [pc EXCEPT ![<<"drain", i>>] = IF first THEN "track" ELSE @]
  /\ UNCHANGED <<config, result, prev, closer, taken, cbWait, drains>>

\* Mutant: a bare wg.Add.
AlwaysTracks == TRUE
\* tryTrack: no goroutine joins wg once the client is closing.
TryTrack == ~cl.closing

\* tryTrack's section, then OnReconnect and the parallel attempt.
DrainRedial(i) ==
  /\ pc[<<"drain", i>>] = "track" /\ (TryTrack => CanSpawn)
  /\ \E delay \in {"now", "later"} :
       pc' = [(IF TryTrack THEN Attempt(pc, delay) ELSE pc) EXCEPT ![<<"drain", i>>] = "none"]
  /\ conns' = IF TryTrack THEN Renewed(conns) ELSE conns
  /\ UNCHANGED <<config, cl, result, prev, closer, taken, cbWait, drains>>

-----------------------------------------------------------------------------
(* watchConn                                                                 *)

\* closeCh: a connection nobody claimed is closed here.
WatchEscape(i) ==
  /\ pc[<<"watch", i>>] = "watching" /\ Up(i) /\ cl.closeCh
  /\ conns' = IF cl.graceful = i THEN conns ELSE Asked(conns, {i})
  /\ pc' = [pc EXCEPT ![<<"watch", i>>] = "ending"]
  /\ UNCHANGED <<config, cl, result, prev, closer, taken, cbWait, drains>>

\* What watchConn does once the connection it watched was the current one and ended with
\* code (effectiveWSCode; it is read here and nowhere else, so it is chosen here).
Verdict(i, code) ==
  CASE cl.closing                                                -> "report"
    [] ~cl.closing /\ cl.drainedNoReconnect                      -> "goFatal"
    [] ~cl.closing /\ ~cl.drainedNoReconnect /\ cl.drainSched    -> "report"
    [] OTHER ->
       IF conns[i].drained /\ code \in {"away", "clean"}
       THEN IF config.disabled THEN "goFatal" ELSE "handOver"
       ELSE CASE code = "fatal"     -> "goFatal"
              [] code = "keepalive" -> "keepalive"
              [] OTHER                       -> "againLater"

\* Mutant: every watcher takes its connection for the current one.
ActiveAlways(i) == TRUE
\* The connection was still the current one when it ended.
WasActive(i) == cl.conn = i

\* The state after the current connection ended.
Disconnected == IF cl.state = "closed" THEN "closed" ELSE "disconnected"

\* Mutant: the flag of the drain outlives the drained connection.
SchedStays(wasActive) == cl.drainSched
\* The end of the current connection ends the hand-over it was in.
SchedAfterEnd(wasActive) == cl.drainSched /\ ~wasActive

\* The section after <-conn.Done(): the fields let go of the connection, and the
\* drain flags belong to the connection that was current.
WatchConn(i) ==
  LET wasActive == WasActive(i) IN
  /\ pc[<<"watch", i>>] \in {"watching", "ending"} /\ ~Up(i)
  /\ \E code \in Codes : LET verdict == IF wasActive THEN Verdict(i, code) ELSE "none" IN
       /\ conns' = IF verdict = "report" THEN Reported(conns, i) ELSE conns
       /\ pc' = [pc EXCEPT ![<<"watch", i>>] = IF verdict = "report" THEN "none" ELSE verdict]
  /\ cl' = [cl EXCEPT !.conn = IF wasActive THEN 0 ELSE @,
                      !.state = IF wasActive THEN Disconnected ELSE @,
                      !.retiring = IF @ = i THEN 0 ELSE @,
                      !.drainSched = SchedAfterEnd(wasActive),
                      !.drainedNoReconnect = @ /\ ~wasActive]
  /\ UNCHANGED <<config, result, prev, closer, taken, cbWait, drains>>

\* Close 4013: one immediate attempt until a connection has been stable.
KeepaliveBudget(i) ==
  /\ pc[<<"watch", i>>] = "keepalive"
  /\ cl' = [cl EXCEPT !.keepaliveUsed = TRUE]
  /\ pc' = [pc EXCEPT ![<<"watch", i>>] = IF cl.keepaliveUsed THEN "againLater" ELSE "againNow"]
  /\ UNCHANGED <<config, result, prev, conns, closer, taken, cbWait, drains>>

\* drainHandOverAfterClose: the drain's redial for a drain that was not delivered.
DrainHandOverAfterClose(i) ==
  /\ pc[<<"watch", i>>] = "handOver" /\ CanSpawn
  /\ conns' = Renewed(Reported(conns, i))
  /\ \E delay \in {"now", "later"} : pc' = [Attempt(pc, delay) EXCEPT ![<<"watch", i>>] = "none"]
  /\ UNCHANGED <<config, cl, result, prev, closer, taken, cbWait, drains>>

-----------------------------------------------------------------------------
(* Close, CloseWith, CloseImmediately                                        *)

\* The call is at wg.Wait and has no more use for its connections.
Waiting == [pc |-> "waiting", how |-> "none", conn |-> 0, retiring |-> 0]

\* closeStart's section.
CloseStart(k, how) ==
  /\ closer[k].pc = "idle"
  /\ IF cl.closing
     THEN /\ closer' = [closer EXCEPT ![k] = Waiting]
          /\ UNCHANGED cl
     ELSE /\ closer' = [closer EXCEPT ![k] = [pc |-> "stop", how |-> how,
                                              conn |-> cl.conn, retiring |-> cl.retiring]]
          /\ cl' = [cl EXCEPT !.closing = TRUE, !.state = "closed", !.drainedNoReconnect = FALSE,
                              !.graceful = cl.conn, !.retiring = 0]
  /\ UNCHANGED <<config, pc, result, prev, conns, taken, cbWait, drains>>

\* Its tail (stopBackoff, finishFirstResult) and the close of a retiring connection.
CloseStop(k) ==
  LET c == closer[k].conn
      other == {closer[k].retiring} \ {0, c}
      now == closer[k].how = "now" /\ c # 0
  IN /\ closer[k].pc = "stop"
     /\ cl' = [cl EXCEPT !.closeCh = TRUE, !.first = IF @ = "none" THEN "error" ELSE @]
     /\ conns' = Asked(conns, other \cup (IF now THEN {c} ELSE {}))
     /\ closer' = [closer EXCEPT ![k] = IF c = 0 THEN Waiting
                                        ELSE [@ EXCEPT !.pc = IF now THEN "closing" ELSE "check",
                                                       !.retiring = 0]]
     /\ UNCHANGED <<config, pc, result, prev, taken, cbWait, drains>>

\* Close: conn.isDraining(), in a c.mu section of its own.
CloseCheck(k) ==
  LET c == closer[k].conn IN
  /\ closer[k].pc = "check"
  /\ conns' = IF conns[c].drained THEN Asked(conns, {c}) ELSE conns
  /\ closer' = [closer EXCEPT ![k].pc = IF conns[c].drained THEN "closing" ELSE "drain"]
  /\ UNCHANGED <<config, cl, pc, result, prev, taken, cbWait, drains>>

\* conn.Drain: it returns at once when the connection is draining by now.
CloseDrain(k) ==
  /\ closer[k].pc = "drain"
  /\ closer' = [closer EXCEPT ![k] = IF conns[@.conn].drained THEN Waiting ELSE [@ EXCEPT !.pc = "grace"]]
  /\ UNCHANGED <<config, cl, pc, result, prev, conns, taken, cbWait, drains>>

\* Drain's select (no stream left, five seconds, ctx) and its Close.
CloseGrace(k) ==
  /\ closer[k].pc = "grace"
  /\ conns' = Asked(conns, {closer[k].conn})
  /\ closer' = [closer EXCEPT ![k].pc = "closing"]
  /\ UNCHANGED <<config, cl, pc, result, prev, taken, cbWait, drains>>

CloseConn(k) ==
  /\ closer[k].pc = "closing" /\ ~Up(closer[k].conn)
  /\ closer' = [closer EXCEPT ![k] = Waiting]
  /\ UNCHANGED <<config, cl, pc, result, prev, conns, taken, cbWait, drains>>

\* wg.Wait and closeCbCh.
CloseWait(k) ==
  /\ closer[k].pc = "waiting" /\ WgZero
  /\ cl' = [cl EXCEPT !.cbClosed = TRUE]
  /\ closer' = [closer EXCEPT ![k].pc = "done"]
  /\ UNCHANGED <<config, pc, result, prev, conns, taken, cbWait, drains>>

\* scheduleCbChClose's goroutine.
CbChClose ==
  /\ cbWait /\ WgZero
  /\ cl' = [cl EXCEPT !.cbClosed = TRUE]
  /\ cbWait' = FALSE
  /\ UNCHANGED <<config, pc, result, prev, conns, closer, taken, drains>>

-----------------------------------------------------------------------------
(* The connections (conn.go, drain.go; modelled in Mux and Lifecycle)        *)

\* The read loop takes a drain: the connection is draining, OnDrain is owed.
PeerDrain(i) ==
  /\ Up(i) /\ drains < MaxDrains
  /\ conns' = [conns EXCEPT ![i].drained = TRUE, ![i].pending = @ + 1]
  /\ drains' = drains + 1
  /\ UNCHANGED <<config, cl, pc, result, prev, closer, taken, cbWait>>

\* The server or the network ends a connection.
PeerEnds(i) ==
  /\ Up(i)
  /\ conns' = [conns EXCEPT ![i].live = "done", ![i].asked = FALSE]
  /\ UNCHANGED <<config, cl, pc, result, prev, closer, taken, cbWait, drains>>

\* A local conn.Close completes.
LocalEnd(i) ==
  /\ Up(i) /\ conns[i].asked
  /\ conns' = [conns EXCEPT ![i].live = "done", ![i].asked = FALSE]
  /\ UNCHANGED <<config, cl, pc, result, prev, closer, taken, cbWait, drains>>

-----------------------------------------------------------------------------
AttemptStep(i) ==
  \/ WaitBackoff(i) \/ Wake(i) \/ StartDial(i) \/ Dial(i) \/ Refresh(i) \/ Redial(i)
  \/ TakeResult(i) \/ OnAttemptSucceeded(i) \/ Supersede(i) \/ Publish(i) \/ Unrecoverable(i)

WatchStep(i) ==
  \/ WatchEscape(i) \/ WatchConn(i) \/ KeepaliveBudget(i) \/ DrainHandOverAfterClose(i) \/ GoFatal(i)

FollowUp(t) == ReportAndSchedule(t) \/ Schedule(t) \/ FatalTail(t)

CloserStep(k) ==
  CloseStop(k) \/ CloseCheck(k) \/ CloseDrain(k) \/ CloseGrace(k) \/ CloseConn(k) \/ CloseWait(k)

\* Everything returned: the client is closed, every goroutine has ended.
Done ==
  /\ cl.closing /\ WgZero /\ cl.cbClosed /\ ~cbWait
  /\ UNCHANGED vars

Next ==
  \/ Connect \/ CbChClose \/ Done
  \/ \E i \in Ids :
       \/ AttemptStep(i) \/ WatchStep(i)
       \/ Retire(i) \/ RetireEnds(i) \/ ArmStability(i)
       \/ HandleServerDrain(i) \/ DrainRedial(i)
       \/ PeerDrain(i) \/ PeerEnds(i) \/ LocalEnd(i)
       \/ \E kind \in {"attempt", "watch"} : FollowUp(<<kind, i>>)
  \/ \E k \in Closers : CloserStep(k) \/ \E how \in {"graceful", "now"} : CloseStart(k, how)

Spec == Init /\ [][Next]_vars

\* The server or the network sees to it that a connection it has drained ends.
ServerEndsDrained(i) == conns[i].drained /\ PeerEnds(i)

\* Every goroutine runs, timers fire, a dial returns (its context has a timeout) and a
\* local Close completes.
Running ==
  /\ WF_vars(CbChClose)
  /\ \A i \in Ids :
       /\ WF_vars(AttemptStep(i)) /\ WF_vars(WatchStep(i))
       /\ WF_vars(FollowUp(<<"attempt", i>>)) /\ WF_vars(FollowUp(<<"watch", i>>))
       /\ WF_vars(Retire(i)) /\ WF_vars(RetireEnds(i)) /\ WF_vars(ArmStability(i))
       /\ WF_vars(HandleServerDrain(i)) /\ WF_vars(DrainRedial(i)) /\ WF_vars(LocalEnd(i))
  /\ \A k \in Closers : WF_vars(CloserStep(k))

\* A server that drains also closes.
FairSpec == Spec /\ Running /\ \A i \in Ids : WF_vars(ServerEndsDrained(i))

\* The same, with no promise about the server.
LoneSpec == Spec /\ Running

-----------------------------------------------------------------------------
(* Properties                                                                *)

\* The connection's goroutines have all ended, and so has it.
Settled(i) == conns[i].current /\ ~Up(i) /\ \A k \in Kinds : pc[<<k, i>>] = "none"

\* No connection's end reaches OnDisconnect twice, whichever of watchConn and retire sees
\* it, and while the client runs none is forgotten.
ReportedOnce ==
  \A i \in Ids :
    /\ conns[i].reports <= 1
    /\ Settled(i) /\ ~cl.closing /\ (\A j \in Ids : prev[j] # i) => conns[i].reports = 1

\* The ownership invariant above Close: whoever is to close a live connection still knows
\* of it.
NoOrphan ==
  \A i \in Ids : Up(i) =>
    \/ i \in {cl.conn, cl.retiring, cl.graceful} \cup cl.retired \cup taken
    \/ conns[i].asked
    \/ pc[<<"attempt", i>>] \in {"result", "landed"}
    \/ \E j \in Ids : prev[j] = i

\* What will bring the client its next connection: an attempt, a watcher that is deciding
\* about one, a drain that is about to start one, or the watch of a connection with no
\* replacement on its way.
Drives(kind, place) ==
  \/ kind = "attempt" /\ place \notin {"none", "superseding", "publish"}
  \/ kind = "watch" /\ place \notin {"none", "watching", "ending"}
  \/ kind = "drain" /\ place # "none"
Drivers ==
  {t \in Threads : Drives(t[1], pc[t])}
  \cup (IF cl.conn # 0 /\ ~cl.drainSched THEN {<<"current", cl.conn>>} ELSE {})

\* A client that was started and is not closing has exactly one of them: no redial is lost
\* and no two run at once, whatever the order of a drain, the end of the drained
\* connection and the success of its replacement.
OneDriver == cl.started /\ ~cl.closing => Cardinality(Drivers) = 1

\* Close is final: no attempt or watcher that was under way moves the state on, and once
\* the queue of callbacks is closed no goroutine is left that could add to it and no
\* connection that nobody is closing.
ClosedIsFinal ==
  /\ cl.closing => cl.state = "closed"
  /\ cl.cbClosed => WgZero /\ \A i \in Ids : Up(i) => conns[i].asked

\* Close returns, and so does every goroutine of a client that ends by itself.
CloseEnds == cl.closing ~> (WgZero /\ cl.cbClosed)

\* A client without a connection gets one or ends: it never just sits there.
KeepsTrying == (cl.started /\ cl.conn = 0) ~> (cl.conn # 0 \/ cl.closing)

\* ClientConfig.OnDisconnect: "fires for every disconnect, recoverable or fatal --
\* unconditionally".  (A connection taken by a fatal path is subsumed in its report.)
EveryEndReported ==
  \A i \in Ids : Settled(i) /\ i \notin taken /\ (\A j \in Ids : prev[j] # i) => conns[i].reports = 1

\* Close "waits up to 5s for in-flight streams to finish, then closes".
CloseReturns == \A k \in Closers : (closer[k].pc = "stop") ~> (closer[k].pc = "done")
-----------------------------------------------------------------------------
(* The inductive invariant                                                   *)

Deciding == {"againNow", "againLater", "redialNow", "redialLater", "goFatal", "fatal", "keepalive", "handOver"}
AttemptPcs ==
  {"none", "backoff", "sleeping", "start", "dialing", "rejected", "redialing", "result", "landed",
   "superseding", "publish", "unrecoverable", "againNow", "againLater", "redialNow", "redialLater", "fatal"}
Places == AttemptPcs \cup Deciding \cup {"watching", "ending", "serving", "closing", "waiting", "track"}

ClientRec ==
  [state : {"idle", "backoff", "dialing", "connected", "disconnected", "closed"},
   conn : 0 .. N, retiring : 0 .. N, graceful : 0 .. N, attempt : Nat, closing : BOOLEAN,
   drainSched : BOOLEAN, drainedNoReconnect : BOOLEAN, keepaliveUsed : BOOLEAN, refreshUsed : BOOLEAN,
   retired : SUBSET Ids, started : BOOLEAN, everConnected : BOOLEAN, first : {"none", "ok", "error"},
   closeCh : BOOLEAN, cbClosed : BOOLEAN]
ConnRec ==
  [live : {"none", "up", "done"}, drained : BOOLEAN, pending : Nat, asked : BOOLEAN,
   current : BOOLEAN, reports : Nat]
CloserRec ==
  [pc : {"idle", "stop", "check", "drain", "grace", "closing", "waiting", "done"},
   how : {"none", "graceful", "now"}, conn : 0 .. N, retiring : 0 .. N]

FieldType == config \in [disabled : BOOLEAN, static : BOOLEAN] /\ cl \in ClientRec
ConnType == conns \in [Ids -> ConnRec]
CloserType == closer \in [Closers -> CloserRec]
PlaceType ==
  /\ pc \in [Threads -> Places]
  /\ \A i \in Ids :
       /\ pc[<<"attempt", i>>] \in AttemptPcs
       /\ pc[<<"watch", i>>] \in Deciding \cup {"none", "watching", "ending"}
       /\ pc[<<"retire", i>>] \in {"none", "serving", "closing"}
       /\ pc[<<"stable", i>>] \in {"none", "waiting"}
       /\ pc[<<"drain", i>>] \in {"none", "track"}
LocalType ==
  /\ result \in [Ids -> {"none", "ok", "fatal", "now", "later"}]
  /\ \A i \in Ids : pc[<<"attempt", i>>] = "result" => result[i] # "none"
  /\ prev \in [Ids -> 0 .. N] /\ taken \subseteq Ids /\ cbWait \in BOOLEAN
TypeOK == FieldType /\ ConnType /\ CloserType /\ PlaceType /\ LocalType

\* Until somebody closes the client nothing of its end exists; from then on it is closed.
EndInv ==
  /\ cl.closing => cl.state = "closed"
  /\ ~cl.closing => /\ cl.graceful = 0 /\ taken = {} /\ ~cbWait /\ ~cl.closeCh /\ ~cl.cbClosed
                    /\ \A k \in Closers : closer[k].pc = "idle"
                    /\ \A i \in Ids : pc[<<"watch", i>>] \notin {"ending", "fatal"}
                    /\ \A i \in Ids : pc[<<"attempt", i>>] # "fatal"
  /\ \A k \in Closers : closer[k].pc = "idle" => closer[k].conn = 0 /\ closer[k].retiring = 0
  /\ cl.cbClosed => WgZero

\* Before Connect there is nothing at all.
StartInv ==
  ~cl.started => /\ cl.conn = 0 /\ cl.graceful = 0 /\ cl.retired = {} /\ taken = {}
                 /\ \A k \in Kinds, i \in Ids : pc[<<k, i>>] = "none"
                 /\ \A i \in Ids : ~Up(i) /\ ~conns[i].current /\ conns[i].reports = 0 /\ prev[i] = 0
                 /\ \A k \in Closers : closer[k].conn = 0 /\ closer[k].retiring = 0

\* An attempt whose connection has not become current.
Young(i) == pc[<<"attempt", i>>] \notin {"none", "superseding", "publish"}

\* Who refers to an id, its attempt apart.
Referred(i) ==
  \/ i \in {cl.conn, cl.retiring, cl.graceful} \cup cl.retired \cup taken
  \/ \E j \in Ids : prev[j] = i
  \/ \E k \in Closers : closer[k].conn = i \/ closer[k].retiring = i
  \/ pc[<<"watch", i>>] # "none" \/ pc[<<"retire", i>>] # "none"
  \/ pc[<<"stable", i>>] # "none" \/ pc[<<"drain", i>>] # "none"

\* Nobody knows of such an attempt's connection, and it is up only once it was dialled.
YoungInv ==
  \A i \in Ids : Young(i) =>
    /\ ~Referred(i) /\ ~conns[i].current /\ conns[i].reports = 0
    /\ Up(i) => \/ pc[<<"attempt", i>>] = "landed"
                \/ pc[<<"attempt", i>>] = "result" /\ result[i] = "ok"

\* The current connection is the only one that can be about to be retired, its drain flag
\* says so, and until the client closes it is watched or about to be.
CurrentInv ==
  /\ cl.retiring \in {0, cl.conn}
  /\ cl.drainSched => ~config.disabled
  /\ cl.drainedNoReconnect => config.disabled
  /\ ~cl.closing => (cl.drainSched <=> cl.retiring # 0)
  /\ ~cl.closing /\ cl.conn # 0 =>
       \/ pc[<<"attempt", cl.conn>>] \in {"superseding", "publish"}
       \/ pc[<<"watch", cl.conn>>] = "watching"

\* One goroutine, attempt or field at a time has the end of a connection to report: the
\* fields, the attempt that superseded it, its retire or its watcher.
HandInv ==
  /\ \A i \in Ids : prev[i] # 0 <=> pc[<<"attempt", i>>] = "superseding"
  /\ \A i \in Ids : prev[i] # 0 => prev[i] # cl.conn /\ \A j \in Ids : prev[j] = prev[i] => j = i
  /\ \A i \in Ids : i \in cl.retired <=> pc[<<"retire", i>>] # "none"
  /\ \A i \in Ids : pc[<<"retire", i>>] # "none" => i # cl.conn /\ \A j \in Ids : prev[j] # i
  /\ \A i \in Ids : pc[<<"watch", i>>] \in Deciding =>
       i # cl.conn /\ pc[<<"retire", i>>] = "none" /\ \A j \in Ids : prev[j] # i
  /\ \A i \in Ids : pc[<<"attempt", i>>] # "none" => pc[<<"watch", i>>] = "none"

\* The end of i is still to be reported.
Owed(i) ==
  \/ i = cl.conn \/ pc[<<"watch", i>>] \in Deciding \/ pc[<<"retire", i>>] # "none"
  \/ \E j \in Ids : prev[j] = i
ReportInv ==
  \A i \in Ids :
    /\ conns[i].reports <= 1 /\ (conns[i].reports = 1 => ~Owed(i))
    /\ conns[i].current /\ ~cl.closing => conns[i].reports = 1 \/ Owed(i)

\* Every live connection has a goroutine of wg that outlives it, or is being closed.
WatchedInv ==
  \A i \in Ids : Up(i) =>
    \/ conns[i].asked
    \/ pc[<<"attempt", i>>] \in {"result", "landed", "superseding", "publish"}
    \/ pc[<<"watch", i>>] \in {"watching", "ending"}

\* While the current connection has no replacement on its way no goroutine is a driver, else one is.
DriverInv ==
  cl.started /\ ~cl.closing =>
    IF cl.conn # 0 /\ ~cl.drainSched
    THEN \A k \in Kinds, i \in Ids : ~Drives(k, pc[<<k, i>>])
    ELSE \E kind \in Kinds, id \in Ids :
           \A k \in Kinds, i \in Ids : Drives(k, pc[<<k, i>>]) <=> k = kind /\ i = id

\* Why nothing is lost and nothing happens twice.
ClientInv ==
  /\ TypeOK /\ EndInv /\ StartInv /\ YoungInv /\ CurrentInv /\ HandInv /\ ReportInv /\ WatchedInv
  /\ NoOrphan /\ DriverInv
=============================================================================
