---------------------------- MODULE MCNetServer -----------------------------
(* The server with two clients that send one or two messages each. *)
EXTENDS NetServer

AllKinds == {"ping", "all", "direct"}
BroadcastsOnly == {"all"}
=============================================================================
