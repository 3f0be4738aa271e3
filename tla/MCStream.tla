------------------------------ MODULE MCStream ------------------------------
(* Instances of Stream for TLC.  Bytes flow from the server to the client,   *)
(* in more bytes than the window holds.  An end may call what its set names. *)
EXTENDS StreamPipe

Both(x) == [e \in Ends |-> x]
ServerClient(s, c) == [e \in Ends |-> IF e = "server" THEN s ELSE c]

Window1 == Both(1)
WindowDown4 == ServerClient(1, 4)
Bytes5Down == ServerClient(5, 0)
Bytes2Down == ServerClient(2, 0)
ClosesAndResets == ServerClient({"CloseWrite", "Reset"}, {"Close"})
ServerHalfCloses == ServerClient({"CloseWrite"}, {})
=============================================================================
