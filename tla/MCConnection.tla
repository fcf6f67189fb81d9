---------------------------- MODULE MCConnection ----------------------------
(* One connection between SimpleClient and SimpleServer, with the messages  *)
(* those programs exchange (NetCommon.h, SimpleClient.cpp, SimpleServer.cpp).*)
EXTENDS Connection

BothEnds == {"client", "server"}
OtherEnd == [e \in BothEnds |-> IF e = "client" THEN "server" ELSE "client"]

\* ServerPing carries a time point, ServerMessage a client id; MessageAll and
\* ServerAccept carry nothing.  The unit is four bytes.
SampleIds == {"ServerAccept", "ServerPing", "MessageAll", "ServerMessage"}
SampleSize == [id \in SampleIds |->
  CASE id = "ServerPing" -> 2 [] id = "ServerMessage" -> 1 [] OTHER -> 0]
OneWay == [e \in BothEnds |-> IF e = "client" THEN {"ServerPing", "MessageAll"} ELSE {}]
Pings == {"ServerPing"}
NoIds == {}
NoEnds == {}
ClientOnly == {"client"}
=============================================================================
