-------------------------------- MODULE MCWs --------------------------------
(* TLC instances of WsConnection.                                          *)
EXTENDS WsConnection

\* SetReconnect arguments: unlimited, none, one attempt
AllLimits == {-1, 0, 1}
=============================================================================
