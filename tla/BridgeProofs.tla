---------------------------- MODULE BridgeProofs ----------------------------
(***************************************************************************)
(* Proofs about Bridge, for every set of requests and every limit:         *)
(* BridgeInv is inductive, and OneCompleteResponse, ServeEndsStream and    *)
(* WholeBodyOnly follow from it.                                           *)
(***************************************************************************)
EXTENDS Bridge, TLAPS

\* An SDK-generated reply on a fresh stream is complete; a fresh writer is in order.
LEMMA WholeReply ==
  /\ Whole(NoOutput) \in Outputs /\ Complete(Whole(NoOutput)) /\ Whole(NoOutput).heads = 1
  BY DEF Whole, Announce, NoOutput, Outputs, Framings, Complete

\* A writer that has written nothing is in order.
LEMMA FreshWriter ==
  NoWriter \in Writers /\ NoOutput \in Outputs /\ NoOutput.heads = 0 /\ NoWriter.status = 0 /\ WriterOK(NoWriter, NoOutput)
  BY DEF NoWriter, NoOutput, Writers, Outputs, Framings, WriterOK

\* What is written stays in order while the stream only gets worse.
LEMMA WriterKept ==
  ASSUME NEW x \in Writers, NEW o \in Outputs, WriterOK(x, o), UNCHANGED req, Dead => Dead'
  PROVE  WriterOK(x, o)'
  BY DEF WriterOK, Bodyless

\* PlaceInv outlives a step of the world that moves neither the request nor the writer.
LEMMA PlaceKept ==
  ASSUME WriteType, PlaceInv, UNCHANGED <<req, pc, w, out>>, Dead => Dead', ended' = "close" => ended = "close"
  PROVE  PlaceInv'
<1>1. WriterOK(w, out) => WriterOK(w, out)'
  BY WriterKept DEF WriteType
<1> QED
  BY <1>1 DEF PlaceInv

\* In order or not, there is at most one head.
LEMMA WriterHeads ==
  ASSUME NEW x \in Writers, NEW o \in Outputs, WriterOK(x, o)
  PROVE  o.heads <= 1
  BY WholeReply, FreshWriter DEF WriterOK, Writers, Outputs

\* WriteHeader keeps the writer in order.
LEMMA WithStatusOK ==
  ASSUME NEW x \in Writers, NEW o \in Outputs, WriterOK(x, o),
         NEW status \in Int, status \in {200, 204, 600}, NEW length \in Int
  PROVE  LET y == WithStatus(x, status, length) IN
         /\ y \in Writers /\ WriterOK(y, o) /\ y.status # 0
         /\ y.err = x.err /\ y.headSent = x.headSent
         /\ x.status # 0 => y.status = x.status
         /\ x.status = 0 => y.status = status
<1>1. CASE x.status # 0
  BY <1>1 DEF WithStatus
<1>2. CASE x.status = 0
  <2> DEFINE y == [x EXCEPT !.status = status, !.length = length]
  <2>1. WithStatus(x, status, length) = y
    BY <1>2 DEF WithStatus
  <2>2. y \in Writers
    BY ZenonT(60) DEF Writers
  <2>3. /\ y.status = status /\ y.headSent = x.headSent /\ y.err = x.err
        /\ y.framing = x.framing /\ y.written = x.written
    BY DEF Writers
  <2> HIDE DEF y
  <2>4. WriterOK(y, o) /\ status # 0
    BY <1>2, <2>3 DEF WriterOK
  <2> QED
    BY <1>2, <2>1, <2>2, <2>3, <2>4
<1> QED
  BY <1>1, <1>2

\* sendHead keeps the writer in order: afterwards the head is sent or the write failed.
LEMMA SendHeadOK ==
  ASSUME NEW x \in Writers, NEW o \in Outputs, WriterOK(x, o), x.status # 0, NEW finishing \in BOOLEAN
  PROVE  LET r == SendHead(x, o, finishing) IN
         /\ r.w \in Writers /\ r.out \in Outputs /\ WriterOK(r.w, r.out)
         /\ r.w.headSent /\ r.w.status = x.status
<1> DEFINE r == SendHead(x, o, finishing)
           y == [x EXCEPT !.headSent = TRUE]
<1>0. y \in Writers /\ y.headSent /\ y.status = x.status /\ y.err = x.err /\ y.written = x.written
  BY ZenonT(60) DEF Writers
<1>1. CASE x.headSent
  BY <1>1 DEF SendHead
<1>2. CASE ~x.headSent /\ Dead
  <2>1. r = [w |-> [y EXCEPT !.err = "io"], out |-> o] /\ o = NoOutput
    BY <1>2 DEF SendHead, WriterOK
  <2>2. [y EXCEPT !.err = "io"] \in Writers
    BY <1>0, ZenonT(60) DEF Writers
  <2>3. WriterOK([y EXCEPT !.err = "io"], o)
    BY <1>0, <1>2, <2>1, FreshWriter DEF WriterOK, Writers
  <2>4. r.w = [y EXCEPT !.err = "io"] /\ r.out = o
    BY <2>1
  <2>5. [y EXCEPT !.err = "io"].headSent /\ [y EXCEPT !.err = "io"].status = x.status
    BY <1>0 DEF Writers
  <2> HIDE DEF r, y
  <2> QED
    BY <2>2, <2>3, <2>4, <2>5 DEF r
<1>3. CASE ~x.headSent /\ ~Dead /\ x.status >= 600
  <2>1. r = [w |-> [y EXCEPT !.err = "badStatus"], out |-> Whole(o)] /\ o = NoOutput /\ x.status = 600
    BY <1>3 DEF SendHead, WriterOK, Writers
  <2>2. [y EXCEPT !.err = "badStatus"] \in Writers /\ Whole(o) \in Outputs
    BY <1>0, <2>1, WholeReply, ZenonT(60) DEF Writers
  <2>3. WriterOK([y EXCEPT !.err = "badStatus"], Whole(o))
    BY <1>0, <2>1 DEF WriterOK, Writers
  <2>4. r.w = [y EXCEPT !.err = "badStatus"] /\ r.out = Whole(o)
    BY <2>1
  <2>5. [y EXCEPT !.err = "badStatus"].headSent /\ [y EXCEPT !.err = "badStatus"].status = x.status
    BY <1>0 DEF Writers
  <2> HIDE DEF r, y
  <2> QED
    BY <2>2, <2>3, <2>4, <2>5 DEF r
<1>4. CASE ~x.headSent /\ ~Dead /\ ~(x.status >= 600)
  <2> DEFINE f == IF Bodyless(x.status) THEN "none" ELSE IF x.length >= 0 \/ finishing THEN "length" ELSE "chunked"
             l == IF x.length >= 0 THEN x.length ELSE 0
             u == [y EXCEPT !.framing = f, !.length = l]
             v == Announce(o, f, l)
  <2>1. x.err = "none" /\ x.written = 0 /\ o = NoOutput
    BY <1>4 DEF WriterOK
  <2>2. r = [w |-> u, out |-> v]
    BY <1>4, <2>1 DEF SendHead
  <2>3. f \in Framings /\ l \in Nat
    BY DEF Framings, Writers
  <2>7. f = "none" <=> Bodyless(x.status)
    OBVIOUS
  <2> HIDE DEF f, l, y
  <2>4. u \in Writers /\ v \in Outputs
    <3>1. l \in Int
      BY <2>3
    <3>3. u \in Writers
      BY <1>0, <2>3, <3>1, ZenonT(60) DEF Writers
    <3>2. v \in Outputs
      BY <2>1, <2>3 DEF Outputs, Announce, NoOutput
    <3> QED
      BY <3>2, <3>3
  <2>5. /\ u.headSent /\ u.status = x.status /\ u.err = "none" /\ u.written = 0 /\ u.framing = f /\ u.length = l
        /\ v.heads = 1 /\ v.framing = f /\ v.length = l /\ v.bytes = 0
    BY <1>0, <2>1 DEF Writers, NoOutput, Announce
  <2>6. WriterOK(u, v)
    BY <2>3, <2>7, <2>5 DEF WriterOK
  <2>8. r.w = u /\ r.out = v
    BY <2>2
  <2> HIDE DEF r, u, v
  <2> QED
    BY <2>4, <2>5, <2>6, <2>8 DEF r
<1> QED
  BY <1>1, <1>2, <1>3, <1>4

\* Write keeps the writer in order; one that fails found the stream dead or the status
\* refused.
LEMMA WriteBytesOK ==
  ASSUME NEW x \in Writers, NEW o \in Outputs, WriterOK(x, o), NEW n \in Nat
  PROVE  LET r == WriteBytes(x, o, n) IN
         /\ r.w \in Writers /\ r.out \in Outputs /\ WriterOK(r.w, r.out)
         /\ x.status # 0 => r.w.status = x.status
<1> DEFINE s == WithStatus(x, 200, -1)
           h == SendHead(s, o, FALSE)
           k == Allowed(h.w, n)
           r == WriteBytes(x, o, n)
<1>1. /\ s \in Writers /\ WriterOK(s, o) /\ s.status # 0
      /\ x.status # 0 => s.status = x.status
  BY WithStatusOK
<1>2. /\ h.w \in Writers /\ h.out \in Outputs /\ WriterOK(h.w, h.out)
      /\ h.w.headSent /\ h.w.status = s.status
  <2> HIDE DEF s
  <2> QED
    BY <1>1, SendHeadOK
<1>3. r = IF s.err # "none" \/ Bodyless(s.status) THEN [w |-> s, out |-> o]
          ELSE IF h.w.err # "none" THEN h
          ELSE IF Dead THEN [h EXCEPT !.w.err = "io"]
          ELSE [w |-> [h.w EXCEPT !.written = @ + k], out |-> [h.out EXCEPT !.bytes = @ + k]]
  BY DEF WriteBytes
<1>4. h = [w |-> h.w, out |-> h.out]
  BY DEF SendHead
<1> HIDE DEF s, h
<1>5. CASE s.err # "none" \/ Bodyless(s.status)
  BY <1>1, <1>3, <1>5
<1>6. CASE ~(s.err # "none" \/ Bodyless(s.status)) /\ h.w.err # "none"
  BY <1>1, <1>2, <1>3, <1>4, <1>6
<1>7. CASE ~(s.err # "none" \/ Bodyless(s.status)) /\ h.w.err = "none" /\ Dead
  <2> DEFINE u == [h.w EXCEPT !.err = "io"]
  <2>1. r.w = u /\ r.out = h.out
    BY <1>3, <1>4, <1>7
  <2>2. u \in Writers /\ u.status = s.status /\ u.headSent /\ u.err = "io"
    BY <1>2 DEF Writers
  <2>3. h.out.heads = 1
    BY <1>2, <1>7 DEF WriterOK
  <2>4. WriterOK(u, h.out)
    BY <1>1, <1>7, <2>2, <2>3 DEF WriterOK
  <2> QED
    BY <1>1, <1>2, <2>1, <2>2, <2>4
<1>8. CASE ~(s.err # "none" \/ Bodyless(s.status)) /\ h.w.err = "none" /\ ~Dead
  <2> DEFINE u == [h.w EXCEPT !.written = @ + k]
             v == [h.out EXCEPT !.bytes = @ + k]
  <2>1. r.w = u /\ r.out = v
    BY <1>3, <1>8
  <2>2. /\ h.out.heads = 1 /\ h.out.framing = h.w.framing /\ h.out.length = h.w.length
        /\ h.out.bytes = h.w.written /\ h.w.framing # "none"
        /\ h.w.framing = "length" => h.w.written <= h.w.length
    BY <1>2, <1>8 DEF WriterOK
  <2>3. h.w.written \in Nat /\ h.w.length \in Int
    BY <1>2 DEF Writers
  <2>4. k \in Nat /\ (h.w.framing = "length" => h.w.written + k <= h.w.length)
    BY <2>2, <2>3 DEF Allowed
  <2> HIDE DEF k
  <2>5. /\ u \in Writers /\ u.status = s.status /\ u.headSent /\ u.err = "none" /\ u.framing = h.w.framing
        /\ u.length = h.w.length /\ u.written = h.w.written + k
    BY <1>2, <1>8, <2>3, <2>4 DEF Writers
  <2>6. /\ v \in Outputs /\ v.heads = 1 /\ v.framing = h.w.framing /\ v.length = h.w.length
        /\ v.bytes = h.w.written + k
    BY <1>2, <2>2, <2>3, <2>4 DEF Outputs
  <2>7. WriterOK(u, v)
    BY <1>1, <1>8, <2>2, <2>4, <2>5, <2>6 DEF WriterOK
  <2> QED
    BY <1>1, <2>1, <2>5, <2>6, <2>7
<1> QED
  BY <1>5, <1>6, <1>7, <1>8

\* What the body reader has read stays as it was.
LEMMA BodyKept ==
  ASSUME UNCHANGED <<req, rd>>
  PROVE  Pieces' = Pieces /\ (BodyInv => BodyInv')
<1>1. Pieces' = Pieces
  BY DEF Pieces
<1> QED
  BY <1>1 DEF BodyInv, BodyOK

\* Even and odd pieces.
LEMMA Halves ==
  ASSUME NEW p \in Nat
  PROVE  /\ p \div 2 \in Nat /\ p % 2 \in {0, 1}
         /\ p % 2 = 1 => p = 2 * (p \div 2 + 1) - 1
         /\ p % 2 = 0 => p = 2 * (p \div 2)
  OBVIOUS

\* Pieces of the body after the size line of chunk j, and after its data.
LEMMA ChunkedBody ==
  ASSUME NEW p \in Nat, NEW t \in Nat, BodyOK(p, t), p # Pieces, MaxBody \in Nat, Pieces = 2 * Len(req.chunks) + 1,
         req.framing = "chunked", req.chunks \in Seq(Nat)
  PROVE  LET j == p \div 2 + 1 IN
         /\ p % 2 = 1 => j \in 1 .. Len(req.chunks) /\ BodyOK(p + 1, t + req.chunks[j])
         /\ /\ p % 2 = 0
            /\ p + 1 < Pieces => req.chunks[j] # 0 /\ Fits(req.chunks[j], t)
            => BodyOK(p + 1, t)
<1> DEFINE n == Len(req.chunks)
           c == [i \in 1 .. n |-> req.chunks[i]]
<1>1. n \in Nat /\ c \in [1 .. n -> Nat] /\ \A i \in 1 .. n : c[i] = req.chunks[i]
  OBVIOUS
<1>2. /\ p <= 2 * n /\ t <= MaxBody
      /\ \A i \in 1 .. n : 2 * i - 1 <= p => c[i] > 0
      /\ \A i \in 1 .. n : p = 2 * i - 1 => t + c[i] <= MaxBody
  BY <1>1 DEF BodyOK
<1>3. ASSUME NEW u \in Nat, p + 1 <= 2 * n + 1, u <= MaxBody,
             \A i \in 1 .. n : 2 * i - 1 <= p + 1 => c[i] > 0,
             \A i \in 1 .. n : p + 1 = 2 * i - 1 => u + c[i] <= MaxBody
      PROVE  BodyOK(p + 1, u)
  BY <1>1, <1>3 DEF BodyOK
<1> HIDE DEF c
<1>4. ASSUME p % 2 = 1
      PROVE  p \div 2 + 1 \in 1 .. n /\ BodyOK(p + 1, t + req.chunks[p \div 2 + 1])
  <2>1. PICK j \in Nat : j = p \div 2 + 1 /\ p = 2 * j - 1
    BY <1>4, Halves
  <2>2. j \in 1 .. n
    BY <1>1, <1>2, <2>1
  <2>3. t + c[j] <= MaxBody /\ c[j] \in Nat
    BY <1>1, <1>2, <2>1, <2>2
  <2>4. \A i \in 1 .. n : 2 * i - 1 <= p + 1 => c[i] > 0
    BY <1>1, <1>2, <2>1
  <2>5. \A i \in 1 .. n : p + 1 # 2 * i - 1
    BY <1>1, <2>1
  <2>6. BodyOK(p + 1, t + c[j])
    BY <1>1, <1>2, <1>3, <2>3, <2>4, <2>5
  <2> QED
    BY <1>1, <2>1, <2>2, <2>6
<1>5. ASSUME p % 2 = 0,
             p + 1 < Pieces => req.chunks[p \div 2 + 1] # 0 /\ Fits(req.chunks[p \div 2 + 1], t)
      PROVE  BodyOK(p + 1, t)
  <2>1. PICK j \in Nat : j = p \div 2 + 1 /\ p = 2 * j - 2
    BY <1>5, Halves
  <2>2. j \in 1 .. n => c[j] > 0 /\ t + c[j] <= MaxBody
    <3> HAVE j \in 1 .. n
    <3>1. p + 1 < Pieces
      BY <1>1, <2>1
    <3>2. c[j] = req.chunks[j] /\ c[j] \in Nat
      BY <1>1
    <3> QED
      BY <1>5, <2>1, <3>1, <3>2 DEF Fits
  <2>3. \A i \in 1 .. n : 2 * i - 1 <= p + 1 => c[i] > 0
    <3> TAKE i \in 1 .. n
    <3>1. 2 * i - 1 <= p + 1 => 2 * i - 1 <= p \/ i = j
      BY <1>1, <2>1
    <3> QED
      BY <1>2, <2>2, <3>1
  <2>4. \A i \in 1 .. n : p + 1 = 2 * i - 1 => t + c[i] <= MaxBody
    <3> TAKE i \in 1 .. n
    <3>1. p + 1 = 2 * i - 1 => i = j
      BY <1>1, <2>1
    <3> QED
      BY <2>2, <3>1
  <2> QED
    BY <1>1, <1>2, <1>3, <2>3, <2>4
<1> QED
  BY <1>4, <1>5

\* The body reader lets through whole bodies within the limit.
LEMMA ReadRequestBodyOK ==
  ASSUME ServeType, BodyInv, WholeBodyOnly, ReadRequestBody
  PROVE  /\ rd' \in [pieces : Nat, total : Nat] /\ BodyInv' /\ WholeBodyOnly'
         /\ pc' \in {"refuse", "handler", "target", "reply", "body", "done"}
         /\ pc' = "done" => Dead
<1>1. /\ req.framing \in Framings /\ req.length \in Nat /\ req.chunks \in Seq(Nat) /\ Len(req.chunks) \in Nat
      /\ req' = req /\ pc = "body" /\ rd.pieces \in Nat /\ rd.total \in Nat
      /\ mode \in {"handler", "target"} /\ MaxBody \in Nat
  BY BridgeAssumption DEF ServeType, ReadRequestBody
<1>2. /\ Pieces' = Pieces
      /\ req.framing = "none" => Pieces = 0
      /\ req.framing = "length" => Pieces = req.length
      /\ req.framing = "chunked" => Pieces = 2 * Len(req.chunks) + 1
  BY <1>1 DEF Pieces
<1>3. CASE rd' = rd /\ pc' \in {"refuse", "done"} /\ (pc' = "done" => Dead)
  BY <1>1, <1>2, <1>3, BodyKept DEF WholeBodyOnly, ServeType
<1>4. CASE rd' = rd /\ rd.pieces = Pieces /\ ~(req.framing = "length" /\ req.length > MaxBody)
           /\ pc' \in {"handler", "target", "reply"}
  <2>1. BodyInv'
    BY <1>1, <1>4, BodyKept
  <2>2. rd.total <= MaxBody
    BY <1>1, <1>2, <1>4 DEF BodyInv, BodyOK, Framings
  <2>3. ASSUME req.framing = "chunked", NEW i \in DOMAIN req.chunks
        PROVE  req.chunks[i] > 0
    <3>1. i \in 1 .. Len(req.chunks) /\ 2 * i - 1 <= Pieces
      BY <1>1, <1>2, <2>3
    <3> QED
      BY <1>4, <2>3, <3>1 DEF BodyInv, BodyOK
  <2> QED
    BY <1>1, <1>2, <1>4, <2>1, <2>2, <2>3 DEF WholeBodyOnly, ServeType
<1>5. ASSUME NEW u \in Nat, BodyOK(rd.pieces + 1, u), rd' = [pieces |-> rd.pieces + 1, total |-> u], pc' = "body"
      PROVE  rd' \in [pieces : Nat, total : Nat] /\ BodyInv' /\ WholeBodyOnly'
  <2>1. rd'.pieces = rd.pieces + 1 /\ rd'.total = u /\ rd' \in [pieces : Nat, total : Nat]
    BY <1>1, <1>5
  <2>2. BodyInv'
    BY <1>1, <1>2, <1>5, <2>1 DEF BodyInv, BodyOK
  <2> QED
    BY <1>5, <2>1, <2>2 DEF WholeBodyOnly
<1>6. CASE req.framing = "length" /\ req.length > MaxBody
  BY <1>3, <1>6 DEF ReadRequestBody
<1>7. CASE ~(req.framing = "length" /\ req.length > MaxBody) /\ rd.pieces = Pieces
  <2>1. rd' = rd /\ pc' \in {"handler", "target", "reply"}
    BY <1>1, <1>7 DEF ReadRequestBody
  <2> QED
    BY <1>4, <1>7, <2>1
<1>8. CASE ~(req.framing = "length" /\ req.length > MaxBody) /\ rd.pieces # Pieces /\ BodyPiece
  <2>1. CASE req.framing = "none"
    BY <1>1, <1>2, <1>8, <2>1 DEF BodyInv, BodyOK
  <2>2. CASE req.framing = "length"
    <3>1. rd' = [pieces |-> rd.pieces + 1, total |-> rd.total + 1] /\ pc' = "body"
      BY <1>8, <2>2 DEF BodyPiece
    <3>2. BodyOK(rd.pieces + 1, rd.total + 1)
      BY <1>1, <1>2, <1>8, <2>2 DEF BodyInv, BodyOK
    <3> QED
      BY <1>1, <1>5, <3>1, <3>2
  <2>3. CASE req.framing = "chunked" /\ rd.pieces % 2 = 1
    <3> DEFINE j == rd.pieces \div 2 + 1
    <3>1. rd' = [pieces |-> rd.pieces + 1, total |-> rd.total + req.chunks[j]] /\ pc' = "body"
      BY <1>8, <2>3 DEF BodyPiece
    <3>2. j \in 1 .. Len(req.chunks) /\ BodyOK(rd.pieces + 1, rd.total + req.chunks[j])
      BY <1>1, <1>2, <1>8, <2>3, ChunkedBody DEF BodyInv
    <3>3. req.chunks[j] \in Nat
      BY <1>1, <3>2
    <3> HIDE DEF j
    <3> QED
      BY <1>1, <1>5, <3>1, <3>2, <3>3
  <2>4. CASE req.framing = "chunked" /\ rd.pieces % 2 = 0
    <3> DEFINE j == rd.pieces \div 2 + 1
    <3>1. CASE rd.pieces + 1 < Pieces /\ (req.chunks[j] = 0 \/ ~Fits(req.chunks[j], rd.total))
      BY <1>3, <1>8, <2>4, <3>1 DEF BodyPiece
    <3>2. CASE ~(rd.pieces + 1 < Pieces /\ (req.chunks[j] = 0 \/ ~Fits(req.chunks[j], rd.total)))
      <4>1. rd' = [pieces |-> rd.pieces + 1, total |-> rd.total + 0] /\ pc' = "body"
        BY <1>8, <2>4, <3>2 DEF BodyPiece
      <4>2. BodyOK(rd.pieces + 1, rd.total)
        BY <1>1, <1>2, <1>8, <2>4, <3>2, ChunkedBody DEF BodyInv
      <4>3. rd.total + 0 = rd.total
        BY <1>1
      <4> QED
        BY <1>1, <1>5, <4>1, <4>2, <4>3
    <3> QED
      BY <3>1, <3>2
  <2>5. rd.pieces % 2 \in {0, 1}
    BY <1>1
  <2> QED
    BY <1>1, <2>1, <2>2, <2>3, <2>4, <2>5 DEF Framings
<1>9. CASE ~(req.framing = "length" /\ req.length > MaxBody) /\ rd.pieces # Pieces /\ ~BodyPiece
  BY <1>3, <1>9 DEF ReadRequestBody, Done
<1> QED
  BY <1>6, <1>7, <1>8, <1>9

\* finish ends the stream: with CLOSE only if the response is complete.
LEMMA FinishOK ==
  ASSUME StreamType, WriteType, WriterOK(w, out), ended # "close", Finish, UNCHANGED appFrame
  PROVE  /\ WriteType' /\ OneCompleteResponse' /\ ServeEndsStream' /\ pc' = "done"
         /\ ended' \in {"open", "close", "reset"}
<1> DEFINE s == WithStatus(w, 200, -1)
           r == SendHead(s, out, TRUE)
<1>1. s \in Writers /\ WriterOK(s, out) /\ s.status # 0
  BY WithStatusOK DEF WriteType
<1>2. r.w \in Writers /\ r.out \in Outputs /\ WriterOK(r.w, r.out) /\ r.w.headSent
  <2> HIDE DEF s
  <2> QED
    BY <1>1, SendHeadOK DEF WriteType
<1>3. r.out.heads <= 1
  <2> HIDE DEF r
  <2> QED
    BY <1>2, WriterHeads
<1>4. /\ w' = r.w /\ pc' = "done" /\ edge' = edge /\ lost' = lost
      /\ IF r.w.err # "none"
         THEN out' = r.out /\ IF BadStatusReplied(r.w) THEN CloseWrite ELSE UNCHANGED ended
         ELSE IF IsShort(r.w) THEN out' = r.out /\ Reset
         ELSE /\ out' = IF r.w.framing = "chunked" /\ ~Dead THEN [r.out EXCEPT !.final = TRUE] ELSE r.out
              /\ CloseWrite
  BY DEF Finish, Done, appFrame, world
<1> HIDE DEF s, r
<1>5. ended \in {"open", "reset"} /\ edge \in {"open", "closed", "reset"} /\ lost \in BOOLEAN
  BY DEF StreamType
<1>6. CASE r.w.err # "none" /\ BadStatusReplied(r.w)
  <2>1. out' = r.out /\ out' = Whole(NoOutput) /\ CloseWrite
    BY <1>2, <1>4, <1>6 DEF WriterOK, BadStatusReplied
  <2> QED
    BY <1>2, <1>4, <1>5, <2>1, WholeReply
       DEF WriteType, OneCompleteResponse, ServeEndsStream, CloseWrite, Dead, WasReset
<1>7. CASE r.w.err # "none" /\ ~BadStatusReplied(r.w)
  <2>1. out' = r.out /\ ended' = ended /\ Dead
    BY <1>2, <1>4, <1>7 DEF WriterOK, BadStatusReplied, Writers
  <2> QED
    BY <1>2, <1>3, <1>4, <1>5, <2>1 DEF WriteType, OneCompleteResponse, ServeEndsStream, Dead, WasReset
<1>8. CASE r.w.err = "none" /\ IsShort(r.w)
  BY <1>2, <1>3, <1>4, <1>5, <1>8
     DEF WriteType, OneCompleteResponse, ServeEndsStream, Reset, Dead, WasReset
<1>9. CASE r.w.err = "none" /\ ~IsShort(r.w)
  <2>1. /\ r.out.heads = 1 /\ r.out.framing = r.w.framing /\ r.out.length = r.w.length /\ r.out.bytes = r.w.written
        /\ r.w.framing = "length" => r.w.written = r.w.length
        /\ r.w.framing = "none" => r.w.written = 0
        /\ r.w.framing \in Framings
    BY <1>2, <1>9 DEF WriterOK, IsShort, Writers
  <2>2. out' \in Outputs /\ out'.heads = 1 /\ CloseWrite
    BY <1>2, <1>4, <1>9, <2>1 DEF Outputs
  <2>3. ~Dead => Complete(out')
    BY <1>2, <1>4, <1>9, <2>1 DEF Outputs, Complete, Framings
  <2> QED
    BY <1>2, <1>4, <1>5, <2>2, <2>3
       DEF WriteType, OneCompleteResponse, ServeEndsStream, CloseWrite, Dead, WasReset
<1> QED
  BY <1>6, <1>7, <1>8, <1>9

\* A new stream satisfies the invariant.
LEMMA BridgeInit == Init => BridgeInv
<1> SUFFICES ASSUME Init PROVE BridgeInv
  OBVIOUS
<1>1. ServeType /\ StreamType /\ FlagType
  BY BridgeAssumption DEF Init, ServeType, StreamType, FlagType
<1>2. WriteType
  BY DEF Init, WriteType, Writers, Outputs, Framings, NoWriter, NoOutput
<1>3. BodyInv /\ WholeBodyOnly
  <2>1. req \in Requests /\ rd.pieces = 0 /\ rd.total = 0 /\ pc = "start"
    BY DEF Init
  <2>2. req.framing \in Framings /\ req.length \in Nat /\ Len(req.chunks) \in Nat /\ MaxBody \in Nat
    BY <2>1, BridgeAssumption
  <2>3. Pieces \in Nat
    BY <2>2 DEF Pieces, Framings
  <2> QED
    BY <2>1, <2>2, <2>3 DEF BodyInv, BodyOK, WholeBodyOnly
<1>4. ClaimInv /\ PlaceInv /\ OneCompleteResponse /\ ServeEndsStream
  BY DEF Init, ClaimInv, PlaceInv, OneCompleteResponse, ServeEndsStream, NoOutput
<1> QED
  BY <1>1, <1>2, <1>3, <1>4 DEF BridgeInv, TypeOK

\* Every step keeps it: one case per action, one step per conjunct it can disturb.
LEMMA BridgeStep == BridgeInv /\ [Next]_vars => BridgeInv'
<1> SUFFICES ASSUME BridgeInv, [Next]_vars PROVE BridgeInv'
  OBVIOUS
<1>0. ServeType /\ StreamType /\ FlagType /\ WriteType /\ BodyInv /\ ClaimInv /\ PlaceInv /\ OneCompleteResponse /\ ServeEndsStream /\ WholeBodyOnly
  BY DEF BridgeInv, TypeOK
<1>1. ASSUME Serve PROVE BridgeInv'
  <2>1. BodyInv'
    BY <1>0, <1>1, BodyKept DEF Serve, world, appVars
  <2>2. WriteType'
    BY <1>0, <1>1 DEF Serve, Reset, Done, world, appVars, Dead, WasReset, WriteType
  <2>3. ServeType'
    BY <1>0, <1>1, BridgeAssumption DEF Serve, Reset, Done, world, appVars, Dead, WasReset,
      ServeType
  <2>4. StreamType'
    BY <1>0, <1>1 DEF Serve, Reset, Done, world, appVars, Dead, WasReset, StreamType
  <2>5. FlagType'
    BY <1>0, <1>1 DEF Serve, Reset, Done, world, appVars, Dead, WasReset, FlagType
  <2>6. ClaimInv'
    BY <1>0, <1>1 DEF Serve, Reset, Done, world, appVars, Dead, WasReset, ClaimInv, ServeType,
      StreamType
  <2>7. PlaceInv'
    BY <1>0, <1>1, WriterKept DEF Serve, Reset, Done, world, appVars, Dead, WasReset, PlaceInv,
      ServeType, StreamType
  <2>8. OneCompleteResponse'
    BY <1>0, <1>1, WholeReply DEF Serve, Reset, Done, world, appVars, Dead, WasReset,
      OneCompleteResponse, ServeType, StreamType, PlaceInv
  <2>9. ServeEndsStream'
    BY <1>0, <1>1 DEF Serve, Reset, Done, world, appVars, Dead, WasReset, ServeEndsStream,
      ServeType, StreamType, ClaimInv, PlaceInv
  <2>10. WholeBodyOnly'
    BY <1>0, <1>1, BodyKept DEF Serve, Done, appFrame, WholeBodyOnly
  <2> QED
    BY <2>1, <2>2, <2>3, <2>4, <2>5, <2>6, <2>7, <2>8, <2>9, <2>10 DEF BridgeInv, TypeOK
<1>2. ASSUME ReadRequestHead PROVE BridgeInv'
  <2>1. BodyInv'
    BY <1>0, <1>2, BodyKept DEF ReadRequestHead, world, appVars
  <2>2. StreamType' /\ FlagType' /\ WriteType' /\ OneCompleteResponse'
    BY <1>0, <1>2 DEF ReadRequestHead, Dead, Done, WasReset, world, appVars, StreamType, FlagType,
      WriteType, OneCompleteResponse
  <2>3. ServeType'
    BY <1>0, <1>2, BridgeAssumption DEF ReadRequestHead, Dead, Done, WasReset, world, appVars,
      ServeType
  <2>4. ClaimInv'
    BY <1>0, <1>2 DEF ReadRequestHead, Dead, Done, WasReset, world, appVars, ClaimInv, ServeType,
      StreamType
  <2>5. PlaceInv'
    BY <1>0, <1>2, WriterKept DEF ReadRequestHead, Dead, Done, WasReset, world, appVars, PlaceInv,
      ServeType, StreamType
  <2>6. ServeEndsStream'
    BY <1>0, <1>2 DEF ReadRequestHead, Dead, Done, WasReset, world, appVars, ServeEndsStream,
      ServeType, StreamType, ClaimInv, PlaceInv
  <2>7. WholeBodyOnly'
    BY <1>0, <1>2, BodyKept DEF ReadRequestHead, Done, appFrame, WholeBodyOnly
  <2> QED
    BY <2>1, <2>2, <2>3, <2>4, <2>5, <2>6, <2>7 DEF BridgeInv, TypeOK
<1>3. ASSUME AfterHead PROVE BridgeInv'
  <2>1. BodyInv'
    BY <1>0, <1>3, BodyKept DEF AfterHead, world, appVars
  <2>2. WriteType'
    BY <1>0, <1>3 DEF AfterHead, Done, Reset, world, appVars, Dead, WasReset, WriteType
  <2>3. ServeType'
    BY <1>0, <1>3, BridgeAssumption DEF AfterHead, Done, Reset, world, appVars, Dead, WasReset,
      ServeType
  <2>4. StreamType'
    BY <1>0, <1>3 DEF AfterHead, Done, Reset, world, appVars, Dead, WasReset, StreamType
  <2>5. FlagType'
    BY <1>0, <1>3 DEF AfterHead, Done, Reset, world, appVars, Dead, WasReset, FlagType
  <2>6. ClaimInv'
    BY <1>0, <1>3 DEF AfterHead, Done, Reset, world, appVars, Dead, WasReset, ClaimInv, ServeType,
      StreamType
  <2>7. PlaceInv'
    BY <1>0, <1>3, WriterKept DEF AfterHead, Done, Reset, world, appVars, Dead, WasReset, PlaceInv,
      ServeType, StreamType
  <2>8. OneCompleteResponse'
    BY <1>0, <1>3, WholeReply DEF AfterHead, Done, Reset, world, appVars, Dead, WasReset,
      OneCompleteResponse, ServeType, StreamType, PlaceInv
  <2>9. ServeEndsStream'
    BY <1>0, <1>3 DEF AfterHead, Done, Reset, world, appVars, Dead, WasReset, ServeEndsStream,
      ServeType, StreamType, ClaimInv, PlaceInv
  <2>10. WholeBodyOnly'
    BY <1>0, <1>3, BodyKept DEF AfterHead, Done, appFrame, WholeBodyOnly
  <2> QED
    BY <2>1, <2>2, <2>3, <2>4, <2>5, <2>6, <2>7, <2>8, <2>9, <2>10 DEF BridgeInv, TypeOK
<1>4. ASSUME ReadRequestBody PROVE BridgeInv'
  <2>0. /\ rd' \in [pieces : Nat, total : Nat] /\ BodyInv' /\ WholeBodyOnly'
        /\ pc' \in {"refuse", "handler", "target", "reply", "body", "done"}
        /\ pc' = "done" => Dead
    BY <1>0, <1>4, ReadRequestBodyOK
  <2>1. StreamType' /\ WriteType' /\ OneCompleteResponse'
    BY <1>0, <1>4 DEF ReadRequestBody, Pieces, Representable, WasReset, BodyPiece, Dead, Done,
      world, Fits, StreamType, WriteType, OneCompleteResponse
  <2>2. ServeType'
    BY <1>0, <1>4, <2>0 DEF ReadRequestBody, ServeType
  <2>3. FlagType'
    BY <1>0, <1>4 DEF ReadRequestBody, Representable, world, FlagType
  <2>4. BodyInv'
    BY <2>0
  <2>5. ClaimInv'
    BY <1>0, <1>4, <2>0 DEF ClaimInv
  <2>6. PlaceInv'
    BY <1>0, <1>4, <2>0, FreshWriter, WriterKept DEF ReadRequestBody, world, Dead, WasReset, PlaceInv, WriteType
  <2>7. ServeEndsStream'
    BY <1>0, <1>4, <2>0 DEF ReadRequestBody, world, Dead, WasReset, ServeEndsStream
  <2>8. WholeBodyOnly'
    BY <2>0
  <2> QED
    BY <2>1, <2>2, <2>3, <2>4, <2>5, <2>6, <2>7, <2>8 DEF BridgeInv, TypeOK
<1>5. ASSUME WriteReply PROVE BridgeInv'
  <2>1. BodyInv'
    BY <1>0, <1>5, BodyKept DEF WriteReply, world, appVars
  <2>2. StreamType' /\ FlagType'
    BY <1>0, <1>5 DEF WriteReply, Dead, Done, Whole, world, appVars, WasReset, Announce, StreamType,
      FlagType
  <2>3. ServeType'
    BY <1>0, <1>5, BridgeAssumption DEF WriteReply, Dead, Done, Whole, world, appVars, WasReset,
      Announce, ServeType
  <2>4. WriteType'
    BY <1>0, <1>5, WholeReply DEF WriteReply, Dead, WasReset, appVars, PlaceInv, WriteType
  <2>5. ClaimInv'
    BY <1>0, <1>5 DEF WriteReply, Dead, Done, Whole, world, appVars, WasReset, Announce, ClaimInv,
      ServeType, StreamType
  <2>6. PlaceInv'
    BY <1>0, <1>5 DEF WriteReply, Done, world, appVars, PlaceInv, ServeType
  <2>7. OneCompleteResponse'
    BY <1>0, <1>5, WholeReply DEF WriteReply, Done, world, PlaceInv, OneCompleteResponse
  <2>8. ServeEndsStream'
    BY <1>0, <1>5 DEF WriteReply, Dead, Done, Whole, world, appVars, WasReset, Announce,
      ServeEndsStream, ServeType, StreamType, ClaimInv, PlaceInv
  <2>9. WholeBodyOnly'
    BY <1>0, <1>5, BodyKept DEF WriteReply, Done, appFrame, WholeBodyOnly
  <2> QED
    BY <2>1, <2>2, <2>3, <2>4, <2>5, <2>6, <2>7, <2>8, <2>9 DEF BridgeInv, TypeOK
<1>6. ASSUME Discard PROVE BridgeInv'
  <2>1. BodyInv'
    BY <1>0, <1>6, BodyKept DEF Discard, world, appVars
  <2>2. StreamType' /\ FlagType' /\ WriteType' /\ OneCompleteResponse'
    BY <1>0, <1>6 DEF Discard, Dead, world, appVars, WasReset, StreamType, FlagType, WriteType,
      OneCompleteResponse
  <2>3. ServeType'
    BY <1>0, <1>6, BridgeAssumption DEF Discard, Dead, world, appVars, WasReset, ServeType
  <2>4. ClaimInv'
    BY <1>0, <1>6 DEF Discard, Dead, world, appVars, WasReset, ClaimInv, ServeType, StreamType
  <2>5. PlaceInv'
    BY <1>0, <1>6, WriterKept DEF Discard, Dead, world, appVars, WasReset, PlaceInv, ServeType,
      StreamType
  <2>6. ServeEndsStream'
    BY <1>0, <1>6 DEF Discard, Dead, world, appVars, WasReset, ServeEndsStream, ServeType,
      StreamType, ClaimInv, PlaceInv
  <2>7. WholeBodyOnly'
    BY <1>0, <1>6, BodyKept DEF Discard, Done, appFrame, WholeBodyOnly
  <2> QED
    BY <2>1, <2>2, <2>3, <2>4, <2>5, <2>6, <2>7 DEF BridgeInv, TypeOK
<1>7. ASSUME EndWithClose PROVE BridgeInv'
  <2>1. BodyInv'
    BY <1>0, <1>7, BodyKept DEF EndWithClose, world, appVars
  <2>2. FlagType' /\ WriteType'
    BY <1>0, <1>7 DEF EndWithClose, CloseWrite, Done, world, appVars, Dead, WasReset, FlagType,
      WriteType
  <2>3. ServeType'
    BY <1>0, <1>7, BridgeAssumption DEF EndWithClose, CloseWrite, Done, world, appVars, Dead,
      WasReset, ServeType
  <2>4. StreamType'
    BY <1>0, <1>7 DEF EndWithClose, CloseWrite, Done, world, appVars, Dead, WasReset, StreamType
  <2>5. ClaimInv'
    BY <1>0, <1>7 DEF EndWithClose, CloseWrite, Done, world, appVars, Dead, WasReset, ClaimInv,
      ServeType, StreamType
  <2>6. PlaceInv'
    BY <1>0, <1>7, WriterKept DEF EndWithClose, CloseWrite, Done, world, appVars, Dead, WasReset,
      PlaceInv, ServeType, StreamType
  <2>7. OneCompleteResponse'
    BY <1>0, <1>7, WholeReply DEF EndWithClose, CloseWrite, PlaceInv, OneCompleteResponse
  <2>8. ServeEndsStream'
    BY <1>0, <1>7 DEF EndWithClose, CloseWrite, Done, world, appVars, Dead, WasReset,
      ServeEndsStream, ServeType, StreamType, ClaimInv, PlaceInv
  <2>9. WholeBodyOnly'
    BY <1>0, <1>7, BodyKept DEF EndWithClose, Done, appFrame, WholeBodyOnly
  <2> QED
    BY <2>1, <2>2, <2>3, <2>4, <2>5, <2>6, <2>7, <2>8, <2>9 DEF BridgeInv, TypeOK
<1>8. ASSUME HeadDeadline PROVE BridgeInv'
  <2>1. BodyInv'
    BY <1>0, <1>8, BodyKept DEF HeadDeadline, world, appVars
  <2>2. WholeBodyOnly'
    BY <1>0, <1>8, BodyKept DEF HeadDeadline, world, appVars, WholeBodyOnly
  <2>3. ServeType' /\ WriteType'
    BY <1>0, <1>8 DEF HeadDeadline, DeadlineWins, Reset, world, appVars, Dead, WasReset, ServeType,
      WriteType
  <2>4. StreamType'
    BY <1>0, <1>8 DEF HeadDeadline, DeadlineWins, Reset, world, appVars, Dead, WasReset, StreamType
  <2>5. FlagType'
    BY <1>0, <1>8 DEF HeadDeadline, DeadlineWins, Reset, world, appVars, Dead, WasReset, FlagType
  <2>6. ClaimInv'
    BY <1>0, <1>8 DEF HeadDeadline, DeadlineWins, Reset, world, appVars, Dead, WasReset, ClaimInv,
      ServeType, StreamType
  <2>7. PlaceInv'
    <3>1. (Dead => Dead') /\ (ended' = "close" => ended = "close")
      BY <1>0, <1>8 DEF HeadDeadline, DeadlineWins, Reset, appVars, world, Dead, WasReset, StreamType
    <3> QED
      BY <1>0, <3>1, <1>8, PlaceKept DEF HeadDeadline, DeadlineWins, Reset, appVars, world
  <2>8. OneCompleteResponse'
    BY <1>0, <1>8, WholeReply DEF HeadDeadline, DeadlineWins, Reset, world, appVars, Dead, WasReset,
      OneCompleteResponse, ServeType, StreamType, PlaceInv
  <2>9. ServeEndsStream'
    BY <1>0, <1>8 DEF HeadDeadline, DeadlineWins, Reset, world, appVars, Dead, WasReset,
      ServeEndsStream, ServeType, StreamType, ClaimInv, PlaceInv
  <2> QED
    BY <2>1, <2>2, <2>3, <2>4, <2>5, <2>6, <2>7, <2>8, <2>9 DEF BridgeInv, TypeOK
<1>9. ASSUME WatchEdgeCancel PROVE BridgeInv'
  <2>1. BodyInv'
    BY <1>0, <1>9, BodyKept DEF WatchEdgeCancel, world
  <2>2. PlaceInv'
    BY <1>0, <1>9, PlaceKept DEF WatchEdgeCancel, world, Dead, WasReset
  <2>3. WholeBodyOnly'
    BY <1>0, <1>9, BodyKept DEF WatchEdgeCancel, world, WholeBodyOnly
  <2>4. ServeType' /\ StreamType' /\ WriteType' /\ ClaimInv' /\ OneCompleteResponse' /\ ServeEndsStream'
    BY <1>0, <1>9 DEF WatchEdgeCancel, SeesCancel, world, ServeType, StreamType, WriteType,
      ClaimInv, Dead, WasReset, OneCompleteResponse, ServeEndsStream
  <2>5. FlagType'
    BY <1>0, <1>9 DEF WatchEdgeCancel, SeesCancel, world, FlagType
  <2> QED
    BY <2>1, <2>2, <2>3, <2>4, <2>5 DEF BridgeInv, TypeOK
<1>10. ASSUME CloseTakenOver PROVE BridgeInv'
  <2>1. BodyInv'
    BY <1>0, <1>10, BodyKept DEF CloseTakenOver, appVars
  <2>2. WholeBodyOnly'
    BY <1>0, <1>10, BodyKept DEF CloseTakenOver, appVars, WholeBodyOnly
  <2>3. ServeType' /\ WriteType'
    BY <1>0, <1>10 DEF CloseTakenOver, Reset, appVars, Dead, WasReset, ServeType, WriteType
  <2>4. StreamType'
    BY <1>0, <1>10 DEF CloseTakenOver, Reset, appVars, Dead, WasReset, StreamType
  <2>5. FlagType'
    BY <1>0, <1>10 DEF CloseTakenOver, Reset, appVars, Dead, WasReset, FlagType
  <2>6. ClaimInv'
    BY <1>0, <1>10 DEF CloseTakenOver, Reset, appVars, Dead, WasReset, ClaimInv, ServeType,
      StreamType
  <2>7. PlaceInv'
    <3>1. (Dead => Dead') /\ (ended' = "close" => ended = "close")
      BY <1>0, <1>10 DEF CloseTakenOver, Reset, appVars, Dead, WasReset, StreamType
    <3> QED
      BY <1>0, <3>1, <1>10, PlaceKept DEF CloseTakenOver, Reset, appVars
  <2>8. OneCompleteResponse'
    BY <1>0, <1>10, WholeReply DEF CloseTakenOver, Reset, appVars, Dead, WasReset,
      OneCompleteResponse, ServeType, StreamType, PlaceInv
  <2>9. ServeEndsStream'
    BY <1>0, <1>10 DEF CloseTakenOver, Reset, appVars, Dead, WasReset, ServeEndsStream, ServeType,
      StreamType, ClaimInv, PlaceInv
  <2> QED
    BY <2>1, <2>2, <2>3, <2>4, <2>5, <2>6, <2>7, <2>8, <2>9 DEF BridgeInv, TypeOK
<1>11. ASSUME EdgeSends PROVE BridgeInv'
  <2>1. BodyInv'
    BY <1>0, <1>11, BodyKept DEF EdgeSends, appVars
  <2>2. PlaceInv'
    BY <1>0, <1>11, PlaceKept DEF EdgeSends, appVars, Dead, WasReset
  <2>3. WholeBodyOnly'
    BY <1>0, <1>11, BodyKept DEF EdgeSends, appVars, WholeBodyOnly
  <2>4. ServeType' /\ FlagType' /\ WriteType' /\ ClaimInv' /\ OneCompleteResponse' /\ ServeEndsStream'
    BY <1>0, <1>11 DEF EdgeSends, Dead, Pieces, appVars, WasReset, ServeType, FlagType, WriteType,
      ClaimInv, OneCompleteResponse, ServeEndsStream
  <2>5. StreamType'
    BY <1>0, <1>11 DEF EdgeSends, Dead, Pieces, appVars, WasReset, StreamType
  <2> QED
    BY <2>1, <2>2, <2>3, <2>4, <2>5 DEF BridgeInv, TypeOK
<1>12. ASSUME NEW how \in {"closed", "reset"}, EdgeEnds(how) PROVE BridgeInv'
  <2>1. BodyInv'
    BY <1>0, <1>12, BodyKept DEF EdgeEnds, appVars
  <2>2. WholeBodyOnly'
    BY <1>0, <1>12, BodyKept DEF EdgeEnds, appVars, WholeBodyOnly
  <2>3. ServeType' /\ FlagType' /\ WriteType' /\ OneCompleteResponse'
    BY <1>0, <1>12 DEF EdgeEnds, Dead, appVars, WasReset, ServeType, FlagType, WriteType,
      OneCompleteResponse
  <2>4. StreamType'
    BY <1>0, <1>12 DEF EdgeEnds, Dead, appVars, WasReset, StreamType
  <2>5. ClaimInv'
    BY <1>0, <1>12 DEF EdgeEnds, Dead, appVars, WasReset, ClaimInv, ServeType, StreamType
  <2>6. PlaceInv'
    <3>1. (Dead => Dead') /\ (ended' = "close" => ended = "close")
      BY <1>0, <1>12 DEF EdgeEnds, appVars, Dead, WasReset, StreamType
    <3> QED
      BY <1>0, <3>1, <1>12, PlaceKept DEF EdgeEnds, appVars
  <2>7. ServeEndsStream'
    BY <1>0, <1>12 DEF EdgeEnds, Dead, appVars, WasReset, ServeEndsStream, ServeType, StreamType,
      ClaimInv, PlaceInv
  <2> QED
    BY <2>1, <2>2, <2>3, <2>4, <2>5, <2>6, <2>7 DEF BridgeInv, TypeOK
<1>13. ASSUME ConnEnds PROVE BridgeInv'
  <2>1. BodyInv'
    BY <1>0, <1>13, BodyKept DEF ConnEnds, appVars
  <2>2. WholeBodyOnly'
    BY <1>0, <1>13, BodyKept DEF ConnEnds, appVars, WholeBodyOnly
  <2>3. ServeType' /\ FlagType' /\ WriteType' /\ OneCompleteResponse'
    BY <1>0, <1>13 DEF ConnEnds, appVars, ServeType, FlagType, WriteType, OneCompleteResponse
  <2>4. StreamType'
    BY <1>0, <1>13 DEF ConnEnds, appVars, StreamType
  <2>5. ClaimInv'
    BY <1>0, <1>13 DEF ConnEnds, appVars, ClaimInv, Dead, WasReset, ServeType, StreamType
  <2>6. PlaceInv'
    <3>1. (Dead => Dead') /\ (ended' = "close" => ended = "close")
      BY <1>0, <1>13 DEF ConnEnds, appVars, Dead, WasReset, StreamType
    <3> QED
      BY <1>0, <3>1, <1>13, PlaceKept DEF ConnEnds, appVars
  <2>7. ServeEndsStream'
    BY <1>0, <1>13 DEF ConnEnds, appVars, ServeEndsStream, Dead, WasReset, ServeType, StreamType,
      ClaimInv, PlaceInv
  <2> QED
    BY <2>1, <2>2, <2>3, <2>4, <2>5, <2>6, <2>7 DEF BridgeInv, TypeOK
<1>14. ASSUME NEW next \in {"up", "unavailable", "conflict"}, Availability(next) PROVE BridgeInv'
  <2>1. BodyInv'
    BY <1>0, <1>14, BodyKept DEF Availability, appVars
  <2>2. PlaceInv'
    BY <1>0, <1>14, PlaceKept DEF Availability, appVars, Dead, WasReset
  <2>3. WholeBodyOnly'
    BY <1>0, <1>14, BodyKept DEF Availability, appVars, WholeBodyOnly
  <2>4. ServeType' /\ FlagType' /\ WriteType' /\ ClaimInv' /\ OneCompleteResponse' /\ ServeEndsStream'
    BY <1>0, <1>14 DEF Availability, appVars, ServeType, FlagType, WriteType, ClaimInv, Dead,
      WasReset, OneCompleteResponse, ServeEndsStream
  <2>5. StreamType'
    BY <1>0, <1>14 DEF Availability, appVars, StreamType
  <2> QED
    BY <2>1, <2>2, <2>3, <2>4, <2>5 DEF BridgeInv, TypeOK
<1>15. ASSUME NEW status \in {200, 204, 600}, NEW length \in Lengths, HandlerWritesHeader(status, length) PROVE BridgeInv'
  <2>0. w' \in Writers /\ out' \in Outputs /\ WriterOK(w', out')
    <3>1. length \in Int /\ status \in Int /\ status \in {200, 204, 600}
      BY DEF Lengths
    <3>2. w \in Writers /\ out \in Outputs /\ WriterOK(w, out) /\ w.status = 0
      BY <1>0, <1>15 DEF HandlerWritesHeader, InHandler, WriteType, PlaceInv
    <3>3. WithStatus(w, status, length) \in Writers /\ WriterOK(WithStatus(w, status, length), out)
      BY <3>1, <3>2, WithStatusOK
    <3>4. WithStatus(w, status, length).status = status
      BY <3>1, <3>2, WithStatusOK
    <3>5. w' = WithStatus(w, status, length) /\ out' = out
      BY <1>15 DEF HandlerWritesHeader
    <3> QED
      BY <3>2, <3>3, <3>4, <3>5
  <2>1. BodyInv'
    BY <1>0, <1>15, BodyKept DEF HandlerWritesHeader, appFrame, world
  <2>2. WholeBodyOnly'
    BY <1>0, <1>15, BodyKept DEF HandlerWritesHeader, appFrame, world, WholeBodyOnly
  <2>3. ServeType' /\ StreamType' /\ FlagType' /\ ClaimInv' /\ OneCompleteResponse' /\ ServeEndsStream'
    BY <1>0, <1>15 DEF HandlerWritesHeader, InHandler, WithStatus, appFrame, world, ServeType,
      StreamType, FlagType, ClaimInv, Dead, WasReset, OneCompleteResponse, ServeEndsStream
  <2>4. WriteType'
    BY <2>0 DEF WriteType
  <2>5. PlaceInv'
    BY <1>0, <1>15, <2>0, WriterKept DEF HandlerWritesHeader, InHandler, Done, appFrame, world, Dead, WasReset, PlaceInv
  <2> QED
    BY <2>1, <2>2, <2>3, <2>4, <2>5 DEF BridgeInv, TypeOK
<1>16. ASSUME NEW n \in 1 .. MaxWrite, HandlerWrites(n) PROVE BridgeInv'
  <2>0. w' \in Writers /\ out' \in Outputs /\ WriterOK(w', out')
    BY <1>0, <1>16, WriteBytesOK, BridgeAssumption DEF HandlerWrites, InHandler, WriteType, PlaceInv
  <2>1. BodyInv'
    BY <1>0, <1>16, BodyKept DEF HandlerWrites, appFrame, world
  <2>2. WholeBodyOnly'
    BY <1>0, <1>16, BodyKept DEF HandlerWrites, appFrame, world, WholeBodyOnly
  <2>3. ServeType' /\ StreamType' /\ FlagType' /\ ClaimInv' /\ ServeEndsStream'
    BY <1>0, <1>16 DEF HandlerWrites, InHandler, WriteBytes, appFrame, WithStatus, SendHead,
      Allowed, Bodyless, Dead, world, Whole, Announce, WasReset, ServeType, StreamType,
      FlagType, ClaimInv, ServeEndsStream
  <2>4. WriteType'
    BY <2>0 DEF WriteType
  <2>5. PlaceInv'
    BY <1>0, <1>16, <2>0, WriterKept DEF HandlerWrites, InHandler, Done, appFrame, world, Dead, WasReset, PlaceInv
  <2>6. OneCompleteResponse'
    BY <1>0, <1>16, <2>0, WriterHeads DEF HandlerWrites, InHandler, PlaceInv, OneCompleteResponse
  <2> QED
    BY <2>1, <2>2, <2>3, <2>4, <2>5, <2>6 DEF BridgeInv, TypeOK
<1>17. ASSUME HandlerFlushes PROVE BridgeInv'
  <2>0. w' \in Writers /\ out' \in Outputs /\ WriterOK(w', out')
    <3> DEFINE s == WithStatus(w, 200, -1)
    <3>1. s \in Writers /\ WriterOK(s, out) /\ s.status # 0
      BY <1>0, <1>17, WithStatusOK DEF HandlerFlushes, InHandler, WriteType, PlaceInv
    <3>2. w' = SendHead(s, out, FALSE).w /\ out' = SendHead(s, out, FALSE).out
      BY <1>17 DEF HandlerFlushes
    <3> HIDE DEF s
    <3> QED
      BY <1>0, <3>1, <3>2, SendHeadOK DEF WriteType
  <2>1. BodyInv'
    BY <1>0, <1>17, BodyKept DEF HandlerFlushes, appFrame, world
  <2>2. WholeBodyOnly'
    BY <1>0, <1>17, BodyKept DEF HandlerFlushes, appFrame, world, WholeBodyOnly
  <2>3. ServeType' /\ StreamType' /\ FlagType' /\ ClaimInv' /\ ServeEndsStream'
    BY <1>0, <1>17 DEF HandlerFlushes, InHandler, SendHead, WithStatus, appFrame, Dead, Whole,
      Bodyless, Announce, world, WasReset, ServeType, StreamType, FlagType, ClaimInv,
      ServeEndsStream
  <2>4. WriteType'
    BY <2>0 DEF WriteType
  <2>5. PlaceInv'
    <3>1. UNCHANGED <<pc, req, ended, edge, lost>> /\ pc = "handler"
      BY <1>17 DEF HandlerFlushes, InHandler, appFrame, world
    <3> QED
      BY <1>0, <2>0, <3>1, WriterKept DEF PlaceInv, Dead, WasReset
  <2>6. OneCompleteResponse'
    <3>1. UNCHANGED ended /\ pc = "handler"
      BY <1>17 DEF HandlerFlushes, InHandler
    <3> QED
      BY <1>0, <2>0, <3>1, WriterHeads DEF PlaceInv, OneCompleteResponse
  <2> QED
    BY <2>1, <2>2, <2>3, <2>4, <2>5, <2>6 DEF BridgeInv, TypeOK
<1>18. ASSUME HandlerReturns PROVE BridgeInv'
  <2>0. /\ WriteType' /\ OneCompleteResponse' /\ ServeEndsStream' /\ pc' = "done"
        /\ ended' \in {"open", "close", "reset"}
    BY <1>0, <1>18, FinishOK DEF HandlerReturns, InHandler, PlaceInv
  <2>1. BodyInv'
    BY <1>0, <1>18, BodyKept DEF HandlerReturns, appFrame, world
  <2>2. FlagType'
    BY <1>0, <1>18 DEF HandlerReturns, InHandler, Finish, appFrame, SendHead, WithStatus, Done,
      BadStatusReplied, CloseWrite, IsShort, Reset, Dead, world, Whole, Bodyless, Announce,
      WasReset, FlagType
  <2>3. ServeType'
    BY <1>0, <1>18, <2>0 DEF HandlerReturns, appFrame, ServeType
  <2>4. StreamType'
    BY <1>0, <1>18, <2>0 DEF HandlerReturns, appFrame, world, StreamType
  <2>5. WriteType'
    BY <2>0
  <2>6. ClaimInv'
    BY <2>0 DEF ClaimInv
  <2>7. PlaceInv'
    BY <2>0 DEF PlaceInv
  <2>8. OneCompleteResponse'
    BY <2>0
  <2>9. ServeEndsStream'
    BY <2>0
  <2>10. WholeBodyOnly'
    BY <2>0 DEF WholeBodyOnly
  <2> QED
    BY <2>1, <2>2, <2>3, <2>4, <2>5, <2>6, <2>7, <2>8, <2>9, <2>10 DEF BridgeInv, TypeOK
<1>19. ASSUME HandlerPanics PROVE BridgeInv'
  <2>1. BodyInv'
    BY <1>0, <1>19, BodyKept DEF HandlerPanics, appFrame, world
  <2>2. FlagType' /\ WriteType'
    BY <1>0, <1>19 DEF HandlerPanics, InHandler, Done, BadStatusReplied, CloseWrite, Reset,
      appFrame, Dead, world, WasReset, FlagType, WriteType
  <2>3. ServeType'
    BY <1>0, <1>19, BridgeAssumption DEF HandlerPanics, InHandler, Done, BadStatusReplied,
      CloseWrite, Reset, appFrame, Dead, world, WasReset, ServeType
  <2>4. StreamType'
    BY <1>0, <1>19 DEF HandlerPanics, InHandler, Done, BadStatusReplied, CloseWrite, Reset,
      appFrame, Dead, world, WasReset, StreamType
  <2>5. ClaimInv'
    BY <1>0, <1>19 DEF HandlerPanics, InHandler, Done, BadStatusReplied, CloseWrite, Reset,
      appFrame, Dead, world, WasReset, ClaimInv, ServeType, StreamType
  <2>6. PlaceInv'
    <3>1. UNCHANGED <<w, out, req, edge, lost>> /\ pc = "handler" /\ pc' \in {"reply", "done"}
      BY <1>19 DEF HandlerPanics, InHandler, Done, appFrame, world
    <3>2. pc' = "reply" => ~w.headSent /\ ended' = ended
      BY <1>19 DEF HandlerPanics, Done
    <3>3. pc' = "reply" => out = NoOutput
      BY <1>0, <3>1, <3>2 DEF PlaceInv, WriterOK
    <3> QED
      BY <1>0, <3>1, <3>2, <3>3 DEF PlaceInv
  <2>7. OneCompleteResponse'
    BY <1>0, <1>19, WriterHeads, WholeReply DEF HandlerPanics, InHandler, BadStatusReplied, CloseWrite, Reset, Dead, WasReset,
      appFrame, world, WriteType, PlaceInv, WriterOK, StreamType, OneCompleteResponse
  <2>8. ServeEndsStream'
    BY <1>0, <1>19 DEF HandlerPanics, InHandler, BadStatusReplied, CloseWrite, Reset, Dead, WasReset, Done,
      appFrame, world, WriteType, Writers, PlaceInv, WriterOK, StreamType, ServeEndsStream
  <2>9. WholeBodyOnly'
    BY <1>0, <1>19, BodyKept DEF HandlerPanics, Done, appFrame, WholeBodyOnly
  <2> QED
    BY <2>1, <2>2, <2>3, <2>4, <2>5, <2>6, <2>7, <2>8, <2>9 DEF BridgeInv, TypeOK
<1>20. ASSUME TargetFails PROVE BridgeInv'
  <2>1. BodyInv'
    BY <1>0, <1>20, BodyKept DEF TargetFails, appFrame, world
  <2>2. StreamType' /\ FlagType' /\ WriteType' /\ OneCompleteResponse'
    BY <1>0, <1>20 DEF TargetFails, appFrame, world, StreamType, FlagType, WriteType,
      OneCompleteResponse
  <2>3. ServeType'
    BY <1>0, <1>20, BridgeAssumption DEF TargetFails, appFrame, world, ServeType
  <2>4. ClaimInv'
    BY <1>0, <1>20 DEF TargetFails, appFrame, world, ClaimInv, Dead, WasReset, ServeType, StreamType
  <2>5. PlaceInv'
    BY <1>0, <1>20, WriterKept DEF TargetFails, appFrame, world, PlaceInv, Dead, WasReset,
      ServeType, StreamType
  <2>6. ServeEndsStream'
    BY <1>0, <1>20 DEF TargetFails, appFrame, world, ServeEndsStream, Dead, WasReset, ServeType,
      StreamType, ClaimInv, PlaceInv
  <2>7. WholeBodyOnly'
    BY <1>0, <1>20, BodyKept DEF TargetFails, Done, appFrame, WholeBodyOnly
  <2> QED
    BY <2>1, <2>2, <2>3, <2>4, <2>5, <2>6, <2>7 DEF BridgeInv, TypeOK
<1>21. ASSUME NEW status \in {200, 204}, NEW length \in Lengths, TargetAnswers(status, length) PROVE BridgeInv'
  <2>0. w' \in Writers /\ out' \in Outputs /\ WriterOK(w', out') /\ w'.status \in {200, 204}
    <3>1. length \in Int /\ status \in Int /\ status \in {200, 204, 600}
      BY DEF Lengths
    <3>2. w \in Writers /\ out \in Outputs /\ WriterOK(w, out) /\ w.status = 0
      BY <1>0, <1>21, FreshWriter DEF TargetAnswers, PlaceInv
    <3>3. WithStatus(w, status, length) \in Writers /\ WriterOK(WithStatus(w, status, length), out)
      BY <3>1, <3>2, WithStatusOK
    <3>4. WithStatus(w, status, length).status = status
      BY <3>1, <3>2, WithStatusOK
    <3>5. w' = WithStatus(w, status, length) /\ out' = out
      BY <1>21 DEF TargetAnswers
    <3> QED
      BY <3>2, <3>3, <3>4, <3>5
  <2>1. BodyInv'
    BY <1>0, <1>21, BodyKept DEF TargetAnswers, appFrame, world
  <2>2. StreamType' /\ FlagType' /\ OneCompleteResponse'
    BY <1>0, <1>21 DEF TargetAnswers, WithStatus, appFrame, world, StreamType, FlagType,
      OneCompleteResponse
  <2>3. ServeType'
    BY <1>0, <1>21, BridgeAssumption DEF TargetAnswers, WithStatus, appFrame, world, ServeType
  <2>4. WriteType'
    BY <2>0 DEF WriteType
  <2>5. ClaimInv'
    BY <1>0, <1>21 DEF TargetAnswers, WithStatus, appFrame, world, ClaimInv, Dead, WasReset,
      ServeType, StreamType
  <2>6. PlaceInv'
    BY <1>0, <1>21, <2>0, WriterKept DEF TargetAnswers, InHandler, Done, appFrame, world, Dead, WasReset, PlaceInv
  <2>7. ServeEndsStream'
    BY <1>0, <1>21 DEF TargetAnswers, WithStatus, appFrame, world, ServeEndsStream, Dead, WasReset,
      ServeType, StreamType, ClaimInv, PlaceInv
  <2>8. WholeBodyOnly'
    BY <1>0, <1>21, BodyKept DEF TargetAnswers, Done, appFrame, WholeBodyOnly
  <2> QED
    BY <2>1, <2>2, <2>3, <2>4, <2>5, <2>6, <2>7, <2>8 DEF BridgeInv, TypeOK
<1>22. ASSUME NEW n \in 1 .. MaxWrite, CopyBytes(n) PROVE BridgeInv'
  <2>0. /\ w' \in Writers /\ out' \in Outputs /\ WriterOK(w', out') /\ w'.status \in {200, 204}
    BY <1>0, <1>22, WriteBytesOK, BridgeAssumption DEF CopyBytes, WriteType, PlaceInv
  <2>e. w'.err \in {"none", "io"}
    BY <2>0 DEF WriterOK, Writers
  <2>1. BodyInv'
    BY <1>0, <1>22, BodyKept DEF CopyBytes, appFrame, world
  <2>2. StreamType' /\ FlagType'
    BY <1>0, <1>22 DEF CopyBytes, appFrame, world, StreamType, FlagType
  <2>3. ServeType'
    BY <1>0, <1>22, BridgeAssumption DEF CopyBytes, Bodyless, WriteBytes, Done, appFrame,
      WithStatus, SendHead, Allowed, Dead, world, Whole, Announce, WasReset, ServeType
  <2>4. WriteType'
    BY <2>0 DEF WriteType
  <2>5. ClaimInv'
    BY <1>0, <1>22 DEF CopyBytes, Bodyless, WriteBytes, Done, appFrame, WithStatus, SendHead,
      Allowed, Dead, world, Whole, Announce, WasReset, ClaimInv, ServeType, StreamType
  <2>6. PlaceInv'
    BY <1>0, <1>22, <2>0, WriterKept DEF CopyBytes, InHandler, Done, appFrame, world, Dead, WasReset, PlaceInv
  <2>7. OneCompleteResponse'
    BY <1>0, <1>22, <2>0, WriterHeads DEF CopyBytes, InHandler, PlaceInv, OneCompleteResponse
  <2>8. ServeEndsStream'
    BY <1>0, <1>22, <2>0, <2>e DEF CopyBytes, Done, appFrame, world, Dead, WasReset, WriterOK, ServeEndsStream
  <2>9. WholeBodyOnly'
    BY <1>0, <1>22, BodyKept DEF CopyBytes, Done, appFrame, WholeBodyOnly
  <2> QED
    BY <2>1, <2>2, <2>3, <2>4, <2>5, <2>6, <2>7, <2>8, <2>9 DEF BridgeInv, TypeOK
<1>23. ASSUME CopyEnds PROVE BridgeInv'
  <2>0. /\ WriteType' /\ OneCompleteResponse' /\ ServeEndsStream' /\ pc' = "done"
        /\ ended' \in {"open", "close", "reset"}
    BY <1>0, <1>23, FinishOK DEF CopyEnds, InHandler, PlaceInv
  <2>1. BodyInv'
    BY <1>0, <1>23, BodyKept DEF CopyEnds, appFrame, world
  <2>2. FlagType'
    BY <1>0, <1>23 DEF CopyEnds, Bodyless, Finish, appFrame, SendHead, WithStatus, Done,
      BadStatusReplied, CloseWrite, IsShort, Reset, Dead, world, Whole, Announce, WasReset,
      FlagType
  <2>3. ServeType'
    BY <1>0, <1>23, <2>0 DEF CopyEnds, appFrame, ServeType
  <2>4. StreamType'
    BY <1>0, <1>23, <2>0 DEF CopyEnds, appFrame, world, StreamType
  <2>5. WriteType'
    BY <2>0
  <2>6. ClaimInv'
    BY <2>0 DEF ClaimInv
  <2>7. PlaceInv'
    BY <2>0 DEF PlaceInv
  <2>8. OneCompleteResponse'
    BY <2>0
  <2>9. ServeEndsStream'
    BY <2>0
  <2>10. WholeBodyOnly'
    BY <2>0 DEF WholeBodyOnly
  <2> QED
    BY <2>1, <2>2, <2>3, <2>4, <2>5, <2>6, <2>7, <2>8, <2>9, <2>10 DEF BridgeInv, TypeOK
<1>24. ASSUME CopyFails PROVE BridgeInv'
  <2>1. BodyInv'
    BY <1>0, <1>24, BodyKept DEF CopyFails, appFrame, world
  <2>2. FlagType' /\ WriteType'
    BY <1>0, <1>24 DEF CopyFails, Done, Reset, appFrame, Dead, world, WasReset, FlagType, WriteType
  <2>3. ServeType'
    BY <1>0, <1>24, BridgeAssumption DEF CopyFails, Done, Reset, appFrame, Dead, world, WasReset,
      ServeType
  <2>4. StreamType'
    BY <1>0, <1>24 DEF CopyFails, Done, Reset, appFrame, Dead, world, WasReset, StreamType
  <2>5. ClaimInv'
    BY <1>0, <1>24 DEF CopyFails, Done, Reset, appFrame, Dead, world, WasReset, ClaimInv, ServeType,
      StreamType
  <2>6. PlaceInv'
    BY <1>0, <1>24, WriterKept DEF CopyFails, Done, Reset, appFrame, Dead, world, WasReset,
      PlaceInv, ServeType, StreamType
  <2>7. OneCompleteResponse'
    BY <1>0, <1>24, WholeReply DEF CopyFails, Done, Reset, appFrame, Dead, world, WasReset,
      OneCompleteResponse, ServeType, StreamType, PlaceInv
  <2>8. ServeEndsStream'
    BY <1>0, <1>24 DEF CopyFails, Reset, Dead, WasReset, Done,
      appFrame, world, WriteType, Writers, PlaceInv, WriterOK, StreamType, ServeEndsStream
  <2>9. WholeBodyOnly'
    BY <1>0, <1>24, BodyKept DEF CopyFails, Done, appFrame, WholeBodyOnly
  <2> QED
    BY <2>1, <2>2, <2>3, <2>4, <2>5, <2>6, <2>7, <2>8, <2>9 DEF BridgeInv, TypeOK
<1>25. CASE UNCHANGED vars
  <2>1. BodyInv' /\ Pieces' = Pieces
    BY <1>0, <1>25, BodyKept DEF vars
  <2>2. PlaceInv'
    BY <1>0, <1>25, PlaceKept DEF vars, Dead, WasReset
  <2>3. ServeType' /\ StreamType' /\ FlagType' /\ WriteType'
    BY <1>0, <1>25 DEF vars, ServeType, StreamType, FlagType, WriteType
  <2>4. ClaimInv' /\ OneCompleteResponse' /\ ServeEndsStream' /\ WholeBodyOnly'
    BY <1>0, <1>25, <2>1 DEF vars, ClaimInv, Dead, WasReset, OneCompleteResponse, ServeEndsStream, WholeBodyOnly
  <2> QED
    BY <2>1, <2>2, <2>3, <2>4 DEF BridgeInv, TypeOK
<1> QED
  BY <1>1, <1>2, <1>3, <1>4, <1>5, <1>6, <1>7, <1>8, <1>9, <1>10, <1>11, <1>12, <1>13, <1>14,
     <1>15, <1>16, <1>17, <1>18, <1>19, <1>20, <1>21, <1>22, <1>23, <1>24, <1>25 DEF Next,
     ServeStep

\* BridgeInv holds in every reachable state.
THEOREM BridgeInvariant == Spec => []BridgeInv
<1>1. Init => BridgeInv
  BY BridgeInit
<1>2. BridgeInv /\ [Next]_vars => BridgeInv'
  BY BridgeStep
<1> QED
  BY <1>1, <1>2, PTL DEF Spec

\* A stream closed by serve carried exactly one complete response, whatever the handler or
\* the target did and whenever the edge, the deadline or a take-over cut in.
THEOREM AlwaysOneCompleteResponse == Spec => []OneCompleteResponse
<1>1. BridgeInv => OneCompleteResponse
  BY DEF BridgeInv
<1> QED
  BY <1>1, BridgeInvariant, PTL

\* serve never returns with the stream neither ended by it nor dead.
THEOREM AlwaysServeEndsStream == Spec => []ServeEndsStream
<1>1. BridgeInv => ServeEndsStream
  BY DEF BridgeInv
<1> QED
  BY <1>1, BridgeInvariant, PTL

\* An application is only ever given a whole body within maxBodyBytes, for every limit,
\* every length and every list of chunks.
THEOREM AlwaysWholeBodyOnly == Spec => []WholeBodyOnly
<1>1. BridgeInv => WholeBodyOnly
  BY DEF BridgeInv
<1> QED
  BY <1>1, BridgeInvariant, PTL
=============================================================================
