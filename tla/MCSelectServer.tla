--------------------------- MODULE MCSelectServer ---------------------------
(* Both programs, with two clients.  Descriptor 9 is too great for the width and*)
(* truncates to one smaller than masterSocket; 7 is the truncated -1.  The     *)
(* descriptor set of Server has room for one client, that of NewServer for both.*)
EXTENDS SelectServer

SomeFds == {1, 7, 9}
SomeBuffers == [p \in {"NewServer", "Server"} |-> IF p = "NewServer" THEN 3 ELSE 12]
SomeSetSizes == [p \in {"NewServer", "Server"} |-> IF p = "NewServer" THEN 3 ELSE 2]
=============================================================================
