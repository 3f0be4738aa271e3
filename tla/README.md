# A TLA+ model of ws-mixer-go

ws-mixer multiplexes byte streams over one WebSocket connection (package
`wsmixer`); `mcpwarp` exposes a local MCP server through such a connection.
This directory models the multiplexer, its reconnecting client and mcpwarp's
session, tunnel and bridge, checks them with TLC on small instances and proves
all the safety properties, and the refinement of the byte pipe, with TLAPS for all
instances.

## Inventory

| component | state | operations | interacts through |
| --- | --- | --- | --- |
| stream (`stream.go`) | state, windows, `unacked`, buffer, `eof`, sticky `err`, `outQueue`, `notifyCh` | Read, Write, CloseWrite, Reset, Close; `handleData/Window/Close/Reset` | control queue, ready rotation, stream table |
| writer loop (`sched.go`) | `controlQueue`, `ready`/`inReady`, `workCh` | `writerLoop`, `markStreamReady`, `nextChunk` | reads every stream's `outQueue` and `sendDone` |
| stream table (`streams.go`) | `streams`, `nextStreamID`, `highestOpened`, `openMu`, `connNotifyCh` | `OpenStream`, `allocateStreamLocked`, `retireStream`, `SendApp` | control queue, Drain |
| dispatch (`dispatch.go`) | `highestOpened`, drain boundary, refused OPENs, ping bookkeeping | one handler per frame and control message | streams, table, delivery queue |
| drain (`drain.go`) | `draining`, `announcedLastID` | `Drain`, `resetSurvivors` | table, Reset, Close |
| connection (`conn.go`) | `closed`, `err`, `running`, delivery queue and gate | `Run`, `fail`, `Close`, `failWrite`, `deliveryLoop` | everything above |
| keepalive (`keepalive.go`) | `lastPongAt`, outstanding pings | `pingLoop`, `watchdogLoop` | control queue, `fail` |
| handshake (`accept.go`, `client.go`) | hello timer, negotiated limits | `AcceptConn`, `Dial` | `fail`, `Run` |
| reconnecting client (`client_reconnect.go`) | current and draining connection, attempt, backoff, reports | attempt loop, drain hand-over, Close | connections, application callbacks |
| session, agent (`mcpwarp/session.go`, `agent.go`) | state, retry and overload generations, takeover | register, unregister, enable/disable, close | client callbacks, app messages |
| tunnel (`mcpwarp/tunnel.go`, `expose.go`) | desired and applied configuration, generation | Configure, Stop, Dispose, agent events | session |
| bridge, HTTP/1 (`mcpwarp/bridge.go`, `http1.go`) | one request/response per stream | relay, cancel | streams |

What is hard here is concurrency: every operation is split over several short
critical sections with blocking channel sends in between, two goroutines per
connection (reader and writer loop) run against any number of application
goroutines, and each frame is applied to a stream that may have changed since it
was looked up. What makes each part correct: flow-control accounts that agree at
both ends; bytes complete and in order; no DATA after CLOSE; increasing ids; the
announced drain boundary; the stream limit; no leaked table entries; no lost
wakeups; every blocked call released; one redial at a time and none lost; every
end of a connection reported; one register in flight; the last configuration
wins; a response that is complete or visibly cut. `PROJECT.json` lists the hazards
by line.

## Modules

* **`Stream`**: both ends of one stream, after OPEN. Each end has a reader, a
  writer, a closer, a writer loop and a read loop; each `s.mu`/`c.mu` critical
  section is one action, and what the code does between two of them is left open
  to all other goroutines (`ReadData` / `CreditConsumed` / `SendWindowFrame` are
  the three steps of a Read; `Reset` / `RetireForReset` / `SendReset` of a Reset;
  `LookupLiveStream` / `Handle...` of a dispatch). A payload is the range of
  positions of its bytes in the sender's byte sequence, so lengths, order, loss
  and duplication are all visible without byte contents. A parked goroutine is a
  member of `waiting`; `NotifyLocked` empties it, as closing `notifyCh` does.
  A Read that is cancelled has no effect beyond returning and is not an action.
* **`Pipe`, `StreamPipe`**: what a direction of a stream promises, as an abstract
  specification (chunks between two applications, either of which may cut them
  short), and the refinement mapping from `Stream`: the pipe's content is what is
  in `outQueue`, in the writer loop's hands and on the link. `BytePipe` says that
  both directions implement `Pipe`.
* **`Mux`**: the server's stream table, OpenStream, Drain, writer loop and
  rotation for several streams, with the client's dispatch as the judge of what
  the wire carries. `openMu` is a variable because it is held across a blocking
  send. Windows are left to `Stream`: a Write is one chunk. `inReady` always is
  the set of elements of `ready`, so only `ready` is kept. The client's own calls
  are single steps (their steps are `Stream`'s), and its control queue and socket
  are one FIFO. An OpenStream may find the ids used up, which starts a drain, and a
  parked one may be cancelled. `Close` at the end of Drain records `c.err`;
  `ConnEnds` closes `c.closed` later, and until then every goroutine goes on, the
  server's read loop included, as in the code. Two ways in which a client refuses an
  OPEN are left out: after a drain of its own (`dispatch.go:138`) and with a full
  delivery queue (`dispatch.go:182`; `Lifecycle` has that queue).
* **`Lifecycle`**: one end of a connection from the upgrade to `c.closed`. Six
  actors can end it (hello timer, handshake goroutine, the application's Close,
  read loop, watchdog, writer loop); each walks through `closeOnce`, the `c.mu`
  section, its error{} and the close in separate steps, while Run starts the
  loops and the other actors go on. A connection is a server's, which the
  application holds before Run, or a Client's, whose delivery is held by a gate.
  Of what is written only the number of error{} messages is kept; stream frames,
  pongs and pings are not told apart from application messages. pingLoop itself is
  left out: wherever it waits, it waits for `c.closed` too. A write may fail, and the
  watchdog may fire, at any time.
* **`Client`**: the reconnecting client. An attempt and the connection it dials
  share an id, and five kinds of goroutine work for an id (attempt loop, watcher,
  retirement, stability timer, OnDrain). Each `cl.mu` section is an action; a tail
  that only queues callbacks or starts goroutines goes with it. The callback queue
  is reduced to its closing and to the reports owed to OnDisconnect. A connection
  is up or done, drained or not (its inside is `Mux`'s and `Lifecycle`'s); the
  close code is chosen when watchConn reads it. Delays are "now" or "later".
* **`Session`**: mcpwarp's registration of one service with its agent and
  transport, against an edge that answers frames in order. `s` holds the session's
  fields; a helper that runs under `mu` maps `s` to its next value, and what it
  queues is run by `Flush`, with everything else in between. OnConnect is two
  steps (`OnWelcome`, `Bind`), because messages may arrive between them. With
  `SendsFail` a send may fail on a connection that is up (its timeout, a full control
  queue). A disable is for the service's id or for the id that its next `registered`
  brings (`disableNext`); one for another service's id is held and changes nothing.
  What the queue calls is taken to return: a callback of the application that does not
  is `Tunnel`'s subject.
* **`Tunnel`**: Configure, Stop, Dispose, the pump, generations and agent events,
  with the two loops of `unlockAndFlush` (one goroutine runs the queue, one
  delivers callbacks, and may be the same). A status callback may call a method
  and wait for it. An agent is its generation, whether it dialled and whether it
  is closing; its inside is `Session`'s, except for one thing: an event may come on the
  flush of the agent's own session, and as long as that goroutine is in the tunnel's
  loops (`who`), nothing else that session has queued runs. That holds for the steps of
  its close, so `AgentCloses` waits for it (`FlushBusy`). Events that the client brings
  (lost connections, failed dials) come on goroutines that no close waits for.
* **`Bridge`**: one stream carrying a request: head, body reader, refusals, the
  response writer, handler or target, against the edge, the head deadline, the
  take-over, edge cancellation and the end of the connection. Bytes are counted. The
  head parser and bodyFraming are not modelled: what they make of a head is one of
  four verdicts and one of three framings, and all that is wrong with the form of a
  chunk is a malformed size. That a target's body fits its head is left to net/http
  (`CopyBytes`).
* **`StreamProofs`, `StreamPipeProofs`, `MuxProofs`, `LifecycleProofs`,
  `ClientProofs`, `SessionProofs`, `TunnelProofs`, `BridgeProofs`**: theorems about
  the module they are named after, each from that module's inductive invariants, which
  are the last sections of the model.
* **`MCStream`, `MCMux`, `MCClient`, `MCBridge`**: instances for TLC.

How they fit: `Session`'s connections come and go as `Client` lets them, `Client`'s
end as `Lifecycle` and `Mux` say, and `Bridge` uses the stream that `Pipe`
abstracts. Each upper module takes from the lower one only what that one is
checked to promise (a report per connection, delivery in order and until the end,
RESET and CLOSE).

Operators commented "Mutant" are wrong variants of the definition below them;
each property is known to fail when one of them is put in place.

## Runs and bounds

| run | shows |
| --- | --- |
| `stream_flow` | a Write of 5 through a window of 4, which may be cancelled, reads of up to 3, CloseWrite and Reset at one end against Close at the other: types, the inductive invariant `FlowInv`, no flow-control error, credit conserved, no DATA after CLOSE or RESET, the refinement `BytePipe` |
| `stream_live` | two bytes through a one-byte window, either connection may end: every Write returns, a half-close ends the peer's reads, the end of a connection releases blocked calls |
| `mux_open` | three openers, two slots, half-closes from both ends, Drain: id order and drain boundary (`OpensLegal`), limit, tables agree at rest |
| `mux_sched` | two streams, two Writes each, a cancellation, resets: rotation and control priority (`RoundRobin`) |
| `mux_live` | one slot and one id for two openers, two Writes, client resets, a drain by the application or for exhausted ids: Writes return, parked OpenStreams return, a drain ends with the connection closed |
| `lifecycle` | both roles, two frames from the peer, one SendApp, queues of one: one socket writer; one error{}, one handshake outcome and the peer's own close reason (`EndsOnce`); `Err()` settled at `Done()`; events delivered exactly for connections that became current (`DeliveredIffCurrent`); every end completes |
| `client` | a client with reconnection disabled or with a static token, three ids, two drains, every close code, one Close: each end reported once, no live connection forgotten, exactly one driver of the next connection, close is final |
| `client_live` | a client with a token provider (and so the refresh), one drain: Close returns with every goroutine gone; a client without a connection gets one or ends |
| `session` | two connections, two messages of the edge, two replaced drains, sends that fail, a close: one register in flight, a wait for the unregister not ended by an earlier answer, no dead registration, the close ends |
| `tunnel` | two calls by a goroutine and a callback, two agent events: one connection, last call wins, calls return after the close they waited for; calls that no Dispose overtakes return and the listener catches up, unless a callback waits for its own session's flush for ever |
| `bridge` | twelve requests (refused heads, HEAD, bodies at and over a limit of two, chunks that fit alone and not together), up to three bytes of response: complete or reset, never left open, whole bodies, cancellation ends the call |
| `tunnel_callback` | expected to fail, see below |

The configurations `stream_inv` (MCStream), `mux_open_inv`, `mux_sched_inv` (MCMux),
`lifecycle_inv` (Lifecycle), `client_inv` (MCClient), `session_inv` (Session),
`tunnel_inv` (Tunnel, with three calls and one event) and `bridge_inv` (MCBridge) check the inductive invariants of
the proofs on the bounds of the runs they are named after, and `mux_tables_inv`
(MCMux) the one about the tables with two openers, every call of both applications
and a client that refuses; they are no runs of their own, because the theorems say the
same of every instance. `FlowInv` is part of `stream_flow`. `mux_write` (MCMux)
checks `WritesReturn` with a queue of two and three Writes of which two may be
cancelled, the setting of `mux_chunk` below.

The bounds make every boundary reachable: more bytes than a window holds, Writes
longer than what may be sent, control queues of one frame and a link of one or
two, so that every blocking send blocks; fewer slots than openers; ids that run
out; `MaxAttempts` of one, so that attempts run out; three client ids at a time,
which are reused, so that a drained connection, its replacement and the next
attempt coexist; two connections of a session, so that one is superseded, and two
`drain{replaced}`; fewer ids than openers in `mux_live`; two agent events in `tunnel`, so
that one can find the tunnel busy with the other. Openers are interchangeable and
used as a symmetry set in the safety runs. The `Client` runs check for deadlock; the
others do not, because applications may stop calling and then the system rests.

Fairness (`FairSpec`) is weak fairness of each goroutine: the Go scheduler runs
what can run and the transport delivers. In `Stream` applications keep reading.
Nothing is assumed about writing, cancelling, closing, resetting or draining.
In `Lifecycle` a peer may stay silent for ever: a Read is fair only once the
socket is dead, and the watchdog need not fire; socket writes and the close
handshake end because the code gives them deadlines. In `Client` timers fire,
dials end (their context has a timeout) and a server that drained a connection
ends it; `LoneSpec` is the same without that promise. In `Session` the queue runs,
the unregister budget ends and a closing client closes its connections; nothing is
assumed of the edge. In `Tunnel` one of what can run goes on (`Works`). A closing
agent is among them only while its session's flush is not in the tunnel: then the
flush runs the close's steps, the unregister has its budget and the transport's close
its deadlines, which `Session`'s `CloseEnds` shows; a callback that waits on that
flush stops the close, and nothing is assumed of it. In `Bridge` an application
returns once its context is cancelled; the edge may stay silent.

### Disagreements between code and comments

The run `tunnel_callback` is expected to fail; the finding in `PROJECT.json` quotes the
lines the code departs from. The other configurations are no runs; like the run they
give their counterexamples with `tlc -config <name>.cfg <module>`.

| configuration, module | property | what happens |
| --- | --- | --- |
| `tunnel_callback`, Tunnel | `CallbackReturns` | a status callback on a session's flush waits in Stop or Configure for the close of that agent; the unregister and the close's continuation are queued behind the callback (`session.go:214`, `706`, `754`), so a call with a context that does not end never returns (`tunnel.go:204`, `DECISIONS.md:971`: a callback may make these calls). `CallsReturn` is what holds |
| `tunnel_dispose`, Tunnel | `EveryCallReturns` | Configure waits for `t.idle`; Dispose before the pump clears `pendingApply`, finds itself idle and closes only `disposeDone` (`tunnel.go:538`); nothing closes `t.idle` any more |
| `session_enable`, Session | `RegisterNotLost` | OVERLOADED pauses a register, disable cancels the re-send and leaves it outstanding; the next enable's register waits behind a reply that will not come (`session.go:179`) |
| `session_replaced`, Session | `ConflictFirst` | a second `drain{replaced}`, before the conflict event of the first has run, takes over nothing and releases the held disconnects (`agent.go:221`; "the close's disconnect reports wait for the conflict event", `agent.go:215`). `HeldUntilConflict` is what holds |
| `mux_data_first`, MCMux | `OpenBeforeData` | an OPEN is queued after the writer loop has emptied the control queue, and a chunk of its stream is taken in the same turn: DATA before OPEN (`sched.go:38`; "Control frames jump the DATA rotation entirely", `sched.go:21`), which is fatal at the peer (`dispatch.go:203`) |
| `mux_reset_first`, MCMux | `OpenBeforeReset` | Drain resets a stream of the table whose OPEN is not queued yet (`drain.go:104`); a RESET for an unknown id is fatal at the peer (`dispatch.go:189`) |
| `mux_chunk`, MCMux | `QueuedChunkCompletes` | with two chunks queued (one of a cancelled Write) when the stream half-closes, `nextChunk` completes one and forgets the other, whose Write never returns (`sched.go:108`; `stream.go:93` says that queued chunks are completed). `WritesReturn` is what holds |
| `lifecycle_late`, Lifecycle | `EveryEventDelivered` | `deliveryLoop` relies on the read loop having stopped before `c.closed` is closed (`conn.go:435`); an event enqueued after its flush is lost |
| `lifecycle_answer`, Lifecycle | `NeverAnswersError` | Dial answers an error{} in place of welcome with an error{} of its own (`client.go:287`; `dispatch.go:460` says it must not) |
| `client_close`, MCClient | `CloseReturns` | Close reads `isDraining()` as false, the peer's drain arrives, `conn.Drain` returns at once, and with a server that does not close `wg.Wait` never ends (`client_reconnect.go:1020`; the comment promises five seconds) |
| `client_report`, MCClient | `EveryEndReported` | Close sets `closing` between watchConn's read of it and `goFatal`, which then returns without a report (`client_reconnect.go:1814`; OnDisconnect "fires for every disconnect ... unconditionally") |

Also seen while modelling, without a property: a drain's redial moves `State()`
through backoff although the connection still serves; a second drain frame between
the two sections of onAttemptSucceeded closes the superseded connection early;
OnReconnect can be announced after Close; Configure's waiters are released before
the queued `a.start` runs; `refuse`'s discard and the body read have no deadline.

## Proofs

Each property below is proved for every value of the constants that satisfies the
module's named assumption, which says no more than that capacities, sizes and
counts are natural numbers (positive where a zero would make no program) and that
sets of options are what the code knows: any number of openers, callers, closers,
ids, attempts, frames, requests and calls. No property is inductive as it stands;
what had to be added is the argument for the code.

**Stream** (`StreamAssumption`). `TypeCorrect`: `Spec => []TypeOK`.
`FlowInvariant`: `Spec => []FlowInv`. That a DATA frame fits the window when it
arrives depends on every frame in flight. `FlowInv` therefore states, per end, that
the windows are the initial window plus credits minus bytes (`WindowAccounts`), that
credit is reserved before bytes are queued (`ReservedFirst`), that the DATA frames
in `outQueue`, in the writer loop's hands and on the link, and the WINDOW frames in
the control queue and on the link, cover disjoint increasing ranges (`DataInOrder`,
`CreditInOrder`), and that a receiver credits only what was read (`ReadAccounts`).
The chain bytes arrived <= queued <= reserved, and credits applied <= issued <= read
<= arrived (lemma `Bounds`), then bounds both windows. `NeverFlowControlError`,
`SenderWithinReceiver` and `ReceiveCreditConserved` follow.

`NeverDataAfterClose`: `Spec => []NoDataAfterClose`. A chunk that the writer loop holds
when the stream half-closes is still written, so the property depends on who may still
put which frame where. `FinInv` says that a CLOSE or RESET is queued only by an end that
has stopped sending (`FinDecided`), and that behind one on the link there is neither a
chunk on the link nor one in the loop's hands (`FinLast`): the loop looks at the control
queue only between chunks, and takes none of a stream that has stopped sending.

**Pipe and StreamPipe**. `ImplementsPipe`: `Spec => BytePipe`, each direction of a
stream implements `Pipe`. What the pipe holds is a set of chunks, so that a frame that
moves from `outQueue` to the loop and on to the link is a stutter; a Write is the pipe's
`Write` when its chunk is queued, a frame taken from the link is a `Deliver` or a
`Discard`, and what a half-close or reset leaves in `outQueue` is the tail that `Shut`
loses. `PipeInvariant` is what the mapping needs: behind a CLOSE that was handled nothing is on its way
(`RemoteDone`), io.EOF is reported only after it and with the buffer drained
(`EofIsRemote`, `ReadsEnd`, `CodesAt`); a chunk that a Write waits for lies behind every
byte reported so far (`WaitedFor`), and what is reported as written is on the link or in
the peer's buffer (`AckedSent`); and the chunks in the pipe are disjoint and continue
what was delivered without a gap (`ChansInv`). Each action of `Stream` has a lemma that
names the step of the pipe it is in either direction; `FlowInv` and `FinInv` are used
throughout.

**Mux** (`MuxAssumption`). `OpenInvariant` and, from it, `AlwaysOpensLegal` and
`AlwaysWithinMaxStreams`. OPENs pass through the control queue and the link, so
`OpenInv` orders all of them: they rise from the client's `cHighest`, and the id of
the opener that holds `openMu`, whose OPEN is not queued yet, is above them all
(`OrderInv`); a DRAIN on its way names the last id there will be (`DrainInv`),
because no id is given out once Drain has read `highestOpened` (`AllocInv`). `RotationOrder` and
`RotationInvariant` say that streams wait in the rotation in the order of their last
turn (`TurnInv`) and that the control queue was empty when a DATA frame was chosen
(`DataInv`); `AlwaysRoundRobin` follows.

`TablesInvariant` and, from it, `AlwaysTablesAgree`. That the tables agree at rest says
nothing of the states in between, so `TablesInv` says how they may differ while the
connection lasts (`Mirrored`): for every stream, the state at the client (a stream
whose OPEN is due counts as open there) and at the server differ exactly by a CLOSE or
RESET that is on its way, or that a goroutine of the server is committed to queue
(`CloseDue`, `ResetDue`). `ServerEnd` and `ClientEnd` are the rules of each end alone,
and hold after a failure too: a closed stream leaves the table before its frame is
queued, and a client lets go of a stream when it sends RESET. `CountInv` is needed for
the ids to be distinct. No order between a stream's OPEN and its RESET or DATA is
assumed, because the code does not give one (`mux_reset_first`, `mux_data_first`): the
client then fails the connection, and the invariant claims nothing about a failed one.
Every action is shown to leave each stream alone or to be one of a few moves of it.

**Lifecycle** (`LifecycleAssumption`). `LifeInvariant` and, from it,
`AlwaysOneWriter`, `AlwaysEndsOnce`, `AlwaysDeliveredIffCurrent` and the action
property `AlwaysErrSettled`. The conjuncts of `LifeInv` are the rules the six actors
rely on: one actor is inside `closeOnce` (`OnceInv`), an end that found no writer
loop keeps Run out (`WriterInv`), no error{} exists before that body returns
(`ErrorInv`), the timer ends only a handshake it claimed (`TimerInv`), `c.err` is
recorded before `c.closed` is closed (`ErrInv`), events are numbered by arrival and
the flush has room for what is owed (`DeliveryInv`).

**Client** (`ClientAssumption`). `ClientInvariant` and, from it,
`AlwaysReportedOnce`, `AlwaysNoOrphan`, `AlwaysOneDriver` and
`AlwaysClosedIsFinal`. `ClientInv` says for every id who refers to it at every stage
of its life (attempt, current, superseded, retiring, reported), who is to report its
end, and which single goroutine, timer or connection brings the next one; ids are
reused, so it also says that nobody refers to an id that is given out. The proof has
one lemma per kind of step (an attempt goes on or ends, a watcher decides, a fatal
path ends the client, a connection is handed over), and each action is shown to be
of such a kind.

**Session** (`SessionAssumption`). `SessionInvariant` and, from it,
`AlwaysOneRegister`, `AlwaysDeadNotRegistered`, `AlwaysUnregisterWaits` and
`AlwaysHeldUntilConflict`, for any number of drains; the last property is itself about
the time before a second `drain{replaced}`, because that one refutes it
(`session_replaced`). The session counts its frames by two fields, `outstanding` and
`closePreReply`, and a frame may be in the queue, on its way, paused by OVERLOADED or
forgotten with its connection. `SessionInv` says where frames can be (`FrameInv`: a
register is ahead of everything else for its connection, an unregister exists only in
a close), what the fields say of them (`AccountInv`: unless a register is outstanding
and not paused none is in flight on the current connection, and a close that waits for
its unregister knows whether a register's reply is still due), that one take-over
event is ever queued (`TakeInv`, `HoldInv`), and which connections may still speak
(`LandInv`, `DeadInv`). Each helper that runs under `mu` is shown to keep `Good`, for
any session and any frames on their way; an answered frame leaves no register in
flight (`Pops`), and that is what the message handlers need.

**Tunnel** (`TunnelAssumption`). `TunnelInvariant` and, from it,
`AlwaysOneConnection`, `AlwaysLastWins` and `AlwaysReturnsAfterClose`. A generation
has an agent long after `startLocked` returned, because the calls to agents wait in
the queue. `TunnelInv` says that of all agents that exist or are to be made there is
at most one, and which of start and close it still waits for (`OneAtATime`); that a
config waiting for the pump is newer than what is applied or active, and else they
agree (`Wanted`); and that a call's wait ends only when what remains is younger than
the call (`Kept`). Helpers that run under `mu` are shown to keep each part, and
`Unlocks` that letting go of a good Tunnel leads to a good state.

**Bridge** (`BridgeAssumption`). `BridgeInvariant` and, from it,
`AlwaysOneCompleteResponse`, `AlwaysServeEndsStream` and `AlwaysWholeBodyOnly`, for
every list of chunks and every limit. `BridgeInv` bounds what the body reader has
let through after each piece (`BodyInv`), says that only the deadline claims the
head before serve does (`ClaimInv`), and ties the response writer's counters to what
is on the stream (`WriterOK`, `PlaceInv`).

Only model-checked: all liveness (`WriteReturnsEventually`, `HalfCloseEndsReads`,
`ConnEndReleases`, `WritesReturn`, `OpenStreamReturns`, `DrainEnds`,
`EndCompletes`, `CloseEnds`, `KeepsTrying`, `CallsReturn`, `ListenerCatchesUp`,
`CancelEnds`), which is outside the prover's reach.

## Plan

1. Done: the models of all parts, the byte pipe with its refinement, and proofs of
   every safety property and of the refinement.
2. Not begun: keepalive's pingLoop and clock (ping ids, the watermark and pruning).

## Not modelled

Byte layout and JSON of frames, control messages and envelopes, option
validation, metrics, stats, logging, status texts, the conformance adapter and the
commands: data, counters and test harness that no behaviour of the modelled parts
depends on. pingLoop, ping ids and the watchdog's clock, the head parser, the
stream-0 rate limit, two concurrent Reads of one stream, and `expose.go`, which wraps
one agent.
