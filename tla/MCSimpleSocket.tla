--------------------------- MODULE MCSimpleSocket ---------------------------
(* The server with up to two clients and a few small packets each way.       *)
EXTENDS SimpleSocket

SomeDataSizes == {0, 1}
SomePacketSizes == {1, 2}
=============================================================================
