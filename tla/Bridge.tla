------------------------------- MODULE Bridge -------------------------------
(* One stream that carries an HTTP request, served by a handler or a target    *)
(* (bridge.go, http1.go).  Beside serve's own steps run the edge, which sends  *)
(* the request piece by piece and may RESET, the end of the connection, the    *)
(* head deadline, the take-over that RESETs every served stream, the watcher   *)
(* of edge cancellation, and the application.                                  *)
(*                                                                             *)
(* Bytes are counted, never spelled out: the request's head is one piece, a    *)
(* body byte, a chunk's size line, its data and the last chunk are one each.   *)
EXTENDS Integers, Sequences

CONSTANTS
  MaxBody,    \* maxBodyBytes
  Requests,   \* what the edge sends
  Modes,      \* a subset of {"handler", "target"}
  MaxWrite    \* bound: bytes an application writes

\* What becomes of a head (the parsing itself is not modelled): fine, refused by
\* parseRequestHead or for its size, addressed to another path, or fine and not
\* representable as a web request.
Heads == {"ok", "bad", "elsewhere", "odd"}

\* The framing a head announces; a head whose bodyFraming fails is "bad".
Framings == {"none", "length", "chunked"}

ASSUME BridgeAssumption ==
  /\ MaxBody \in Nat \ {0} /\ MaxWrite \in Nat /\ Modes \subseteq {"handler", "target"}
  /\ \A r \in Requests :
       /\ r.head \in Heads /\ r.method \in {"GET", "HEAD"}
       /\ r.framing \in Framings /\ r.length \in Nat
       /\ r.chunks \in Seq(Nat)      \* 0: a malformed size

VARIABLES
  req, mode,
  pc,       \* where serve is
  arrived,  \* pieces of the request the stream holds or has handed out
  edge,     \* the edge's direction: "open", "closed" or "reset"
  lost,     \* the connection has ended
  ended,    \* how this side ended the stream: "open", "close" or "reset"
  avail,    \* availability: "up", "unavailable" or "conflict"
  cut,      \* closeTakenOver has reset the streams being served
  claimed,  \* the head deadline and serve race for it
  timer,    \* the head deadline's timer has not run
  rd,       \* the body reader: pieces read after the head, body bytes so far
  w,        \* streamResponseWriter
  out,      \* what was written: heads, how the body is framed, its bytes, its end
  watching, cancelled

vars == <<req, mode, pc, arrived, edge, lost, ended, avail, cut, claimed, timer, rd, w, out, watching, cancelled>>
world == <<arrived, edge, lost, avail, cut>>
appVars == <<w, watching, cancelled>>

-----------------------------------------------------------------------------
(* The stream (wsmixer.Stream, module Stream) as the bridge sees it          *)

\* It was reset by either side; or its connection is gone, which leaves what had arrived
\* readable.
WasReset == edge = "reset" \/ ended = "reset"
Dead == WasReset \/ lost

\* Reset and CloseWrite change nothing once the stream is over.
Reset == ended' = IF Dead \/ (ended = "close" /\ edge = "closed") THEN ended ELSE "reset"
CloseWrite == ended' = IF Dead \/ ended # "open" THEN ended ELSE "close"

\* Pieces of the body the request announces, as the edge sends them.
Pieces == CASE req.framing = "none"    -> 0
            [] req.framing = "length"  -> req.length
            [] req.framing = "chunked" -> 2 * Len(req.chunks) + 1

\* A head is written, which says how the body is framed.
Announce(o, framing, length) ==
  [heads |-> o.heads + 1, framing |-> framing, length |-> length, bytes |-> o.bytes, final |-> o.final]

\* The whole of an SDK-generated reply (errorReply).
Whole(o) == Announce(o, "whole", 0)

-----------------------------------------------------------------------------
(* serve, up to the application                                              *)

Done == pc' = "done"

\* The first availability check, and the head deadline's timer.
Serve ==
  /\ pc = "start"
  /\ IF avail = "conflict"
     THEN Reset /\ Done /\ UNCHANGED timer
     ELSE pc' = "head" /\ timer' = TRUE /\ UNCHANGED ended
  /\ UNCHANGED <<req, mode, world, claimed, rd, out, appVars>>

\* The deadline's CompareAndSwap.
DeadlineWins == ~claimed

HeadDeadline ==
  /\ timer /\ pc # "done"
  /\ timer' = FALSE
  /\ IF DeadlineWins THEN claimed' = TRUE /\ Reset ELSE UNCHANGED <<claimed, ended>>
  /\ UNCHANGED <<req, mode, pc, world, rd, out, appVars>>

\* readRequestHead returns: nobody to answer, or a head or a clean end inside it.
ReadRequestHead ==
  /\ pc = "head"
  /\ \/ Dead /\ Done
     \/ ~WasReset /\ (arrived > 0 \/ edge = "closed") /\ pc' = "claim"
  /\ UNCHANGED <<req, mode, world, ended, claimed, timer, rd, out, appVars>>

\* serve's CompareAndSwap and what follows the head: the refusals (malformed or incomplete
\* head, another path, service not available), the second availability check.
AfterHead ==
  /\ pc = "claim"
  /\ claimed' = TRUE
  /\ IF claimed THEN Done /\ UNCHANGED ended
     ELSE IF arrived = 0 \/ req.head \in {"bad", "elsewhere"} THEN pc' = "refuse" /\ UNCHANGED ended
     ELSE IF avail = "conflict" THEN Reset /\ Done
     ELSE pc' = (IF avail = "unavailable" THEN "refuse" ELSE "body") /\ UNCHANGED ended
  /\ UNCHANGED <<req, mode, world, timer, rd, out, appVars>>

\* Mutant: a chunk is measured alone.
FitsAlone(size, total) == size <= MaxBody
\* The cap holds over all chunks read.
Fits(size, total) == size <= MaxBody - total

\* One piece of the body (readExactly, readChunkedBody): more, the whole, or a refusal.  A
\* malformed size stands for all that readChunkedBody refuses for its form: a size line or
\* trailer too long or malformed, a missing CRLF after the data.
BodyPiece ==
  LET chunk == req.chunks[rd.pieces \div 2 + 1]
      size  == IF req.framing = "length" THEN 1 ELSE IF rd.pieces % 2 = 1 THEN chunk ELSE 0
  IN IF req.framing = "chunked" /\ rd.pieces % 2 = 0 /\ rd.pieces + 1 < Pieces
        /\ (chunk = 0 \/ ~Fits(chunk, rd.total))
     THEN pc' = "refuse" /\ UNCHANGED rd
     ELSE pc' = "body" /\ rd' = [pieces |-> rd.pieces + 1, total |-> rd.total + size]

\* representable.
Representable == req.head # "odd"

\* readRequestBody: a length over the limit, the next piece, a clean end inside the body,
\* nobody to answer, or the whole body and what becomes of the request.
ReadRequestBody ==
  /\ pc = "body"
  /\ IF req.framing = "length" /\ req.length > MaxBody THEN pc' = "refuse" /\ UNCHANGED <<rd, watching>>
     ELSE IF rd.pieces = Pieces
     THEN /\ pc' = IF Representable THEN mode ELSE "reply"
          /\ watching' = Representable
          /\ UNCHANGED rd
     ELSE /\ \/ ~WasReset /\ arrived > rd.pieces + 1 /\ BodyPiece
             \/ ~WasReset /\ arrived = rd.pieces + 1 /\ edge = "closed" /\ pc' = "refuse" /\ UNCHANGED rd
             \/ Dead /\ Done /\ UNCHANGED rd
          /\ UNCHANGED watching
  /\ UNCHANGED <<req, mode, world, ended, claimed, timer, out, w, cancelled>>

\* refuse and reply: the reply, whose write fails on a dead stream.
WriteReply ==
  /\ pc \in {"refuse", "reply"}
  /\ IF Dead THEN Done /\ UNCHANGED out
     ELSE out' = Whole(out) /\ pc' = IF pc = "refuse" THEN "discard" ELSE "close"
  /\ UNCHANGED <<req, mode, world, ended, claimed, timer, rd, appVars>>

\* discard reads up to the end of the request, or to a dead stream.
Discard ==
  /\ pc = "discard" /\ (Dead \/ edge = "closed")
  /\ pc' = "close"
  /\ UNCHANGED <<req, mode, world, ended, claimed, timer, rd, out, appVars>>

EndWithClose ==
  /\ pc = "close"
  /\ CloseWrite /\ Done
  /\ UNCHANGED <<req, mode, world, claimed, timer, rd, out, appVars>>

-----------------------------------------------------------------------------
(* streamResponseWriter.  status 0 is none yet, 600 one that is refused;     *)
(* length is the Content-Length, -1 for none                                 *)

Bodyless(status) == req.method = "HEAD" \/ status = 204

\* WriteHeader, once; the headers are taken as they are then.
WithStatus(x, status, length) == IF x.status # 0 THEN x ELSE [x EXCEPT !.status = status, !.length = length]

\* sendHead, once: the writer and the output after it.
SendHead(x, o, finishing) ==
  IF x.headSent \/ x.err # "none" THEN [w |-> x, out |-> o]
  ELSE LET y == [x EXCEPT !.headSent = TRUE] IN
       IF Dead THEN [w |-> [y EXCEPT !.err = "io"], out |-> o]
       ELSE IF x.status >= 600 THEN [w |-> [y EXCEPT !.err = "badStatus"], out |-> Whole(o)]
       ELSE LET framing == IF Bodyless(x.status) THEN "none"
                           ELSE IF x.length >= 0 \/ finishing THEN "length" ELSE "chunked"
                length == IF x.length >= 0 THEN x.length ELSE 0
            IN [w |-> [y EXCEPT !.framing = framing, !.length = length],
                out |-> Announce(o, framing, length)]

\* No more than Content-Length announced.
Allowed(x, n) == IF x.framing = "length" /\ n > x.length - x.written THEN x.length - x.written ELSE n

\* Write of n bytes, after an implicit 200.
WriteBytes(x, o, n) ==
  LET s == WithStatus(x, 200, -1)
      r == SendHead(s, o, FALSE)
      m == Allowed(r.w, n)
  IN IF s.err # "none" \/ Bodyless(s.status) THEN [w |-> s, out |-> o]
     ELSE IF r.w.err # "none" THEN r
     ELSE IF Dead THEN [r EXCEPT !.w.err = "io"]
     ELSE [w |-> [r.w EXCEPT !.written = @ + m], out |-> [r.out EXCEPT !.bytes = @ + m]]

\* Mutant: a body that is too short is closed like any other.
ShortIsDone(x) == FALSE
\* Fewer bytes than Content-Length announced.
IsShort(x) == x.framing = "length" /\ x.written < x.length

\* Mutant: a refused status leaves the stream open.
NeverReplied(x) == FALSE
\* The 500 reply to a refused status is complete.
BadStatusReplied(x) == x.err = "badStatus"

\* finish.
Finish ==
  LET r == SendHead(WithStatus(w, 200, -1), out, TRUE) IN
  /\ w' = r.w
  /\ Done
  /\ IF r.w.err # "none"
     THEN /\ out' = r.out
          /\ IF BadStatusReplied(r.w) THEN CloseWrite ELSE UNCHANGED ended
     ELSE IF IsShort(r.w) THEN out' = r.out /\ Reset
     ELSE /\ out' = IF r.w.framing = "chunked" /\ ~Dead THEN [r.out EXCEPT !.final = TRUE] ELSE r.out
          /\ CloseWrite

-----------------------------------------------------------------------------
(* The handler                                                               *)

InHandler == pc = "handler"
appFrame == <<req, mode, world, claimed, timer, rd, watching, cancelled>>

HandlerWritesHeader(status, length) ==
  /\ InHandler /\ w.status = 0
  /\ w' = WithStatus(w, status, length)
  /\ UNCHANGED <<pc, ended, out, appFrame>>

HandlerWrites(n) ==
  /\ InHandler /\ w.written + n <= MaxWrite
  /\ LET r == WriteBytes(w, out, n) IN w' = r.w /\ out' = r.out
  /\ UNCHANGED <<pc, ended, appFrame>>

HandlerFlushes ==
  /\ InHandler /\ ~w.headSent
  /\ LET r == SendHead(WithStatus(w, 200, -1), out, FALSE) IN w' = r.w /\ out' = r.out
  /\ UNCHANGED <<pc, ended, appFrame>>

HandlerReturns ==
  /\ InHandler
  /\ Finish
  /\ UNCHANGED appFrame

HandlerPanics ==
  /\ InHandler
  /\ IF ~w.headSent THEN pc' = "reply" /\ UNCHANGED ended
     ELSE /\ Done
          /\ CASE BadStatusReplied(w) -> CloseWrite
               [] w.err = "none"     -> Reset
               [] OTHER              -> UNCHANGED ended
  /\ UNCHANGED <<w, out, appFrame>>

-----------------------------------------------------------------------------
(* The target                                                                *)

\* Do returns too late (504), fails (502; so does a cancelled one), or answers with a status
\* that is refused (500).
TargetFails ==
  /\ pc = "target"
  /\ pc' = "reply"
  /\ UNCHANGED <<ended, w, out, appFrame>>

TargetAnswers(status, length) ==
  /\ pc = "target"
  /\ pc' = "copy"
  /\ w' = WithStatus(w, status, length)
  /\ UNCHANGED <<ended, out, appFrame>>

\* net/http hands out no more of a body than its length.
CopyBytes(n) ==
  /\ pc = "copy" /\ ~Bodyless(w.status) /\ w.written + n <= MaxWrite
  /\ w.length >= 0 /\ w.framing # "chunked" => w.written + n <= w.length
  /\ LET r == WriteBytes(w, out, n) IN
       /\ w' = r.w /\ out' = r.out
       /\ IF r.w.err = "none" THEN UNCHANGED pc ELSE Done
  /\ UNCHANGED <<ended, appFrame>>

CopyEnds ==
  /\ pc = "copy"
  /\ w.length < 0 \/ w.framing = "chunked" \/ Bodyless(w.status) \/ w.written = w.length
  /\ Finish
  /\ UNCHANGED appFrame

\* The target's body fails, or the request is cancelled.
CopyFails ==
  /\ pc = "copy"
  /\ Done
  /\ IF w.err = "none" THEN Reset ELSE UNCHANGED ended
  /\ UNCHANGED <<w, out, appFrame>>

-----------------------------------------------------------------------------
(* The edge, the connection, the session and the watcher                     *)

EdgeSends ==
  /\ edge = "open" /\ ~Dead /\ arrived < 1 + Pieces
  /\ arrived' = arrived + 1
  /\ UNCHANGED <<req, mode, pc, edge, lost, ended, avail, cut, claimed, timer, rd, out, appVars>>

EdgeEnds(how) ==
  /\ edge = "open" /\ ~Dead
  /\ edge' = how
  /\ UNCHANGED <<req, mode, pc, arrived, lost, ended, avail, cut, claimed, timer, rd, out, appVars>>

ConnEnds ==
  /\ ~lost
  /\ lost' = TRUE
  /\ UNCHANGED <<req, mode, pc, arrived, edge, ended, avail, cut, claimed, timer, rd, out, appVars>>

Availability(next) ==
  /\ avail # "conflict" /\ avail # next
  /\ avail' = next
  /\ UNCHANGED <<req, mode, pc, arrived, edge, lost, ended, cut, claimed, timer, rd, out, appVars>>

\* closeTakenOver: the streams being served are reset.
CloseTakenOver ==
  /\ avail = "conflict" /\ ~cut
  /\ cut' = TRUE
  /\ IF pc = "done" THEN UNCHANGED ended ELSE Reset
  /\ UNCHANGED <<req, mode, pc, arrived, edge, lost, avail, claimed, timer, rd, out, appVars>>

\* Mutant: only the end of the connection is watched for.
SeesConnOnly == lost
\* A RESET is polled for; the end of the connection is a channel.
SeesCancel == lost \/ edge = "reset" \/ ended = "reset"

WatchEdgeCancel ==
  /\ watching /\ ~cancelled /\ pc # "done" /\ SeesCancel
  /\ cancelled' = TRUE
  /\ UNCHANGED <<req, mode, pc, world, ended, claimed, timer, rd, w, out, watching>>

-----------------------------------------------------------------------------
\* newStreamResponseWriter, and a stream nothing was written to.
NoWriter == [status |-> 0, length |-> -1, headSent |-> FALSE, framing |-> "none", written |-> 0, err |-> "none"]
NoOutput == [heads |-> 0, framing |-> "none", length |-> 0, bytes |-> 0, final |-> FALSE]

Init ==
  /\ req \in Requests /\ mode \in Modes
  /\ pc = "start" /\ arrived = 0 /\ edge = "open" /\ lost = FALSE /\ ended = "open"
  /\ avail \in {"up", "unavailable"} /\ cut = FALSE
  /\ claimed = FALSE /\ timer = FALSE
  /\ rd = [pieces |-> 0, total |-> 0]
  /\ w = NoWriter /\ out = NoOutput
  /\ watching = FALSE /\ cancelled = FALSE

ServeStep == Serve \/ ReadRequestHead \/ AfterHead \/ ReadRequestBody \/ WriteReply \/ Discard \/ EndWithClose

Lengths == {-1, 0, 1, 2}

Next ==
  \/ ServeStep \/ HeadDeadline \/ WatchEdgeCancel \/ CloseTakenOver
  \/ EdgeSends \/ (\E how \in {"closed", "reset"} : EdgeEnds(how)) \/ ConnEnds
  \/ \E next \in {"up", "unavailable", "conflict"} : Availability(next)
  \/ \E status \in {200, 204, 600}, length \in Lengths : HandlerWritesHeader(status, length)
  \/ \E n \in 1 .. MaxWrite : HandlerWrites(n) \/ CopyBytes(n)
  \/ HandlerFlushes \/ HandlerReturns \/ HandlerPanics
  \/ TargetFails \/ CopyEnds \/ CopyFails
  \/ \E status \in {200, 204}, length \in Lengths : TargetAnswers(status, length)

Spec == Init /\ [][Next]_vars

\* serve's goroutine and the watcher run, the head deadline fires, and an application
\* returns once its context is cancelled; an edge that sends nothing more is allowed.
FairSpec ==
  /\ Spec
  /\ WF_vars(ServeStep) /\ WF_vars(HeadDeadline) /\ WF_vars(WatchEdgeCancel)
  /\ WF_vars(cancelled /\ (HandlerReturns \/ TargetFails \/ CopyFails))

-----------------------------------------------------------------------------
(* Properties                                                                *)

\* One head, and of the body what the head announced.
Complete(o) ==
  /\ o.heads = 1
  /\ o.framing = "length" => o.bytes = o.length
  /\ o.framing = "chunked" => o.final
  /\ o.framing \in {"none", "whole"} => o.bytes = 0

\* A stream that this side ends with CLOSE carried exactly one complete response, whatever
\* the application did; a response that was cut short ends in RESET.
OneCompleteResponse == out.heads <= 1 /\ (ended = "close" => Complete(out))

\* "always ends the stream with CLOSE or RESET (or leaves it to a connection that is already
\* gone)", or to an edge that reset it.
ServeEndsStream == pc = "done" => ended # "open" \/ Dead

\* The application only sees whole bodies within the limit.
WholeBodyOnly ==
  pc \in {"handler", "target", "copy"} =>
    /\ rd.pieces = Pieces /\ rd.total <= MaxBody
    /\ req.framing = "chunked" => \A i \in DOMAIN req.chunks : req.chunks[i] > 0

\* Once the edge resets the stream or the connection ends, serve returns.
CancelEnds == (edge = "reset" \/ lost) /\ pc # "start" ~> pc = "done"

-----------------------------------------------------------------------------
(* The inductive invariant                                                   *)

Writers == [status : {0, 200, 204, 600}, length : Int, headSent : BOOLEAN,
            framing : Framings, written : Nat, err : {"none", "io", "badStatus"}]
Outputs == [heads : Nat, framing : Framings \cup {"whole"}, length : Nat, bytes : Nat, final : BOOLEAN]

ServeType ==
  /\ req \in Requests /\ mode \in Modes /\ rd \in [pieces : Nat, total : Nat]
  /\ pc \in {"start", "head", "claim", "body", "refuse", "discard", "handler", "target", "copy", "reply",
            "close", "done"}
StreamType ==
  /\ arrived \in Nat /\ edge \in {"open", "closed", "reset"} /\ ended \in {"open", "close", "reset"}
  /\ lost \in BOOLEAN /\ avail \in {"up", "unavailable", "conflict"}
FlagType == cut \in BOOLEAN /\ claimed \in BOOLEAN /\ timer \in BOOLEAN /\ watching \in BOOLEAN /\ cancelled \in BOOLEAN
WriteType == w \in Writers /\ out \in Outputs
TypeOK == ServeType /\ StreamType /\ FlagType /\ WriteType

\* What the body reader has let through: no more than announced, a length within the
\* limit, and of chunks those whose sizes are positive and fit together.
BodyOK(pieces, total) ==
  /\ pieces <= Pieces
  /\ req.framing = "none" => total = 0
  /\ req.framing = "length" => total = pieces /\ (pieces > 0 => req.length <= MaxBody)
  /\ req.framing = "chunked" =>
       /\ total <= MaxBody
       /\ \A i \in 1 .. Len(req.chunks) : 2 * i - 1 <= pieces => req.chunks[i] > 0
       /\ \A i \in 1 .. Len(req.chunks) : pieces = 2 * i - 1 => total + req.chunks[i] <= MaxBody
BodyInv == BodyOK(rd.pieces, rd.total)

\* Whoever claims the head before serve does is the deadline, which resets.
ClaimInv == claimed /\ pc \in {"start", "head", "claim"} => ended # "open" \/ Dead

\* The writer's record x of the response and what is written of it, o: nothing before the
\* head, then a head and as many bytes as counted, until a write fails.
WriterOK(x, o) ==
  /\ x.headSent => x.status # 0
  /\ ~x.headSent => x.err = "none" /\ x.written = 0 /\ x.framing = "none" /\ o = NoOutput
  /\ x.headSent /\ x.err = "none" =>
       /\ o.heads = 1 /\ o.framing = x.framing /\ o.length = x.length /\ o.bytes = x.written
       /\ x.framing = "none" <=> Bodyless(x.status)
       /\ x.framing = "length" => x.written <= x.length
       /\ x.framing = "none" => x.written = 0
  /\ x.err = "io" => Dead /\ o.heads <= 1
  /\ x.err = "badStatus" => x.status = 600 /\ o = Whole(NoOutput)

\* Where serve is tells what the writer and the stream hold.
PlaceInv ==
  /\ pc \in {"start", "head", "claim", "body", "refuse", "target"} => w = NoWriter
  /\ pc \in {"start", "head", "claim", "body", "refuse", "target", "reply"} => out = NoOutput
  /\ pc \in {"discard", "close"} => out = Whole(NoOutput)
  /\ pc \in {"handler", "copy"} => WriterOK(w, out)
  /\ pc = "copy" => w.status \in {200, 204}
  /\ ended = "close" => pc = "done"

\* Why every stream ends, with a whole response or none.
BridgeInv ==
  /\ TypeOK /\ BodyInv /\ ClaimInv /\ PlaceInv
  /\ OneCompleteResponse /\ ServeEndsStream /\ WholeBodyOnly
=============================================================================
