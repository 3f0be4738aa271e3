------------------------------ MODULE MCBridge ------------------------------
(* Instances of Bridge for TLC.                                                *)
EXTENDS Bridge

Plain == [head |-> "ok", method |-> "GET", framing |-> "none", length |-> 0, chunks |-> << >>]

\* Refused requests, bodies at and over the limit of two bytes, a HEAD.
MCRequests ==
  {Plain, [Plain EXCEPT !.head = "bad"], [Plain EXCEPT !.head = "elsewhere"], [Plain EXCEPT !.head = "odd"],
   [Plain EXCEPT !.method = "HEAD"]}
  \cup {[Plain EXCEPT !.framing = "length", !.length = n] : n \in 2 .. 3}
  \cup {[Plain EXCEPT !.framing = "chunked", !.chunks = c] : c \in {<< >>, <<1, 1>>, <<1, 2>>, <<3>>, <<1, 0>>}}
=============================================================================
