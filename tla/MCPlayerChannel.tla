--------------------------- MODULE MCPlayerChannel --------------------------
(* Two threads that call through the handler, as the key thread and the     *)
(* phone's thread do.                                                       *)
EXTENDS PlayerChannel, TLC

CONSTANTS key, phone

TwoClients == {key, phone}
=============================================================================
