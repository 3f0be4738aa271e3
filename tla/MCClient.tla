------------------------------ MODULE MCClient ------------------------------
(* Client for TLC.                                                           *)
EXTENDS Client

Reconnects  == [disabled |-> FALSE, static |-> FALSE]
NoReconnect == [disabled |-> TRUE, static |-> FALSE]
StaticToken == [disabled |-> FALSE, static |-> TRUE]
MainConfig    == {Reconnects}
SimpleConfigs == {NoReconnect, StaticToken}
=============================================================================
