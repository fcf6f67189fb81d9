---------------------------- MODULE MCNetClient ----------------------------
(* A client that connects at most twice and pings at most twice.             *)
EXTENDS NetClient
=============================================================================
