---------------------------- MODULE SelectServer ----------------------------
(***************************************************************************)
(* The select servers of the repository and their client.  NewServer.cpp   *)
(* is a class that reports to its owner through three callbacks;           *)
(* Server.cpp is the same loop as a program, which only prints.  Client.cpp*)
(* is a program that sends a message in every turn of a loop.              *)
(*                                                                         *)
(* The server has one thread.  It copies masterfds, lets select keep what  *)
(* is readable of the copy, and goes through the copy from descriptor 0 to *)
(* maxfd.  The clients and the kernel go on between any two calls it makes.*)
(*                                                                         *)
(* Bytes are counted in units.  A message is TextSize units of text and    *)
(* then zeroes; the unit <<c, k>> is number k of what client c sends.      *)
(***************************************************************************)
EXTENDS Integers, Sequences, FiniteSetsExt

CONSTANTS
  Programs,       \* a subset of {"NewServer", "Server"}
  Clients,
  Master,         \* the descriptor of masterSocket
  Fds,            \* what accept may return
  Width,          \* 2^16: NewServer keeps maxfd and names clients in a uint16_t
  FdSetSize,      \* FD_SETSIZE, as each program is built: what an fd_set holds
  Backlog,        \* how many clients listen lets wait
  BufferSize,     \* of each program
  TextSize, MessageSize,  \* a message: its text, and all of it
  MaxSends,       \* bound of the model on the messages of a client not read yet
  MaySelectFail,  \* whether select may fail without a reason in the program
  None,           \* not a client
  Stranger        \* a client that was reported and never existed

ASSUME SelectServerAssumption ==
  /\ Programs \subseteq {"NewServer", "Server"}
  /\ Fds \subseteq Nat /\ Master \in Nat \ Fds
  /\ Width \in Nat \ {0} /\ Master < Width
  /\ Backlog \in Nat /\ MaxSends \in Nat \ {0}
  /\ FdSetSize \in [Programs -> Nat \ {0}]
  /\ BufferSize \in [Programs -> Nat \ {0}]
  /\ TextSize \in Nat /\ MessageSize \in Nat /\ TextSize < MessageSize
  /\ MaySelectFail \in BOOLEAN
  /\ None \notin Clients /\ Stranger \notin Clients \cup {None}

VARIABLES
  program,      \* which of the programs this is
  mode,         \* "select", "scan" (the for loop), "ended" (main returned)
  masterfds, tempfds, maxfd,
  fd,           \* the loop's variable: the descriptors below it are done
  buffer,
  told,         \* the owner's book: whom the callbacks reported under a number
  master,       \* kernel: masterSocket is "listening", "idle" or "closed"
  backlog,      \* kernel: the clients that wait at it
  conn,         \* kernel: the client at the other end of a descriptor
  client,       \* "out", "running", "refused"; "left", "reset": it is gone
  sent, read,   \* kernel: the units a client sent, those recv returned of them
  heard,        \* history: the units of each receiveCallback (or printed)
  overlooked    \* history: the clients accepted when masterfds was full

loop == <<mode, masterfds, tempfds, maxfd, fd, buffer>>
kernel == <<master, backlog, conn>>
peers == <<client, sent>>
reports == <<told, heard, overlooked>>
vars == <<program, loop, kernel, peers, read, reports>>

Open == {f \in Fds : conn[f] # None}
Truncated(n) == n % Width
Zeroes == [i \in 1..BufferSize[program] |-> None]

\* What socket, bind and listen leave of masterSocket.  In Server() and Init()
\* their failures are only reported: it does not listen or, when setsockopt
\* failed, is closed.
NewServerSetup == {"listening", "idle", "closed"}
\* In the main of Server.cpp a failure ends the program.
ServerSetup == {"listening"}

Init ==
  /\ program \in Programs
  /\ mode = "select"
  /\ masterfds = {Master} /\ tempfds = {} /\ maxfd = Master
  /\ fd = 0
  /\ buffer = Zeroes
  /\ told = [n \in 0..(Width - 1) |-> None]
  /\ master \in IF program = "NewServer" THEN NewServerSetup ELSE ServerSetup
  /\ backlog = <<>>
  /\ conn = [f \in Fds |-> None]
  /\ client = [c \in Clients |-> "out"]
  /\ sent = [c \in Clients |-> 0] /\ read = [c \in Clients |-> 0]
  /\ heard = [c \in Clients |-> <<>>]
  /\ overlooked = {}
-----------------------------------------------------------------------------
(* Client.cpp.  *)

\* connect() fails, and the program ends, when nobody listens.
Connect(c) ==
  /\ client[c] = "out"
  /\ IF master = "listening" /\ Len(backlog) < Backlog
     THEN /\ client' = [client EXCEPT ![c] = "running"]
          /\ backlog' = Append(backlog, c)
     ELSE /\ client' = [client EXCEPT ![c] = "refused"]
          /\ UNCHANGED backlog
  /\ UNCHANGED <<program, loop, master, conn, sent, read, reports>>

Reachable(c) == (\E f \in Fds : conn[f] = c) \/ (\E i \in DOMAIN backlog : backlog[i] = c)

\* The next message.  For the sake of a finite model the units of a client are
\* numbered from 1 again when the server has read all of MaxSends messages.
SendNext(c) ==
  \/ /\ sent[c] < MaxSends * MessageSize
     /\ sent' = [sent EXCEPT ![c] = @ + MessageSize]
     /\ UNCHANGED <<read, heard>>
  \/ /\ sent[c] >= MaxSends * MessageSize /\ read[c] = sent[c]
     /\ sent' = [sent EXCEPT ![c] = MessageSize]
     /\ read' = [read EXCEPT ![c] = 0]
     /\ heard' = [heard EXCEPT ![c] = <<>>]

\* One turn of the loop, which goes on for ever: what select finds is printed,
\* whatever recv returns, and a whole buffer is sent.  A send that fails is
\* ignored: the client never notices that the server is gone.
Turn(c) ==
  /\ client[c] = "running"
  /\ Reachable(c)
  /\ SendNext(c)
  /\ UNCHANGED <<program, loop, kernel, client, told, overlooked>>

\* The program is closed or killed: its socket is shut down or reset.
Leave(c) ==
  /\ client[c] = "running"
  /\ \E how \in {"left", "reset"} : client' = [client EXCEPT ![c] = how]
  /\ UNCHANGED <<program, loop, kernel, sent, read, reports>>
-----------------------------------------------------------------------------
(* The owner of a NewServer, which may also be inside a callback.  What it *)
(* sends to a client by the number a callback gave leaves no state here.   *)

\* Shutdown() and ~Server(): masterSocket stays in masterfds.
CloseMaster == master' = "closed" /\ backlog' = <<>>

Shutdown ==
  /\ program = "NewServer"
  /\ master # "closed"
  /\ CloseMaster
  /\ UNCHANGED <<program, loop, conn, peers, read, reports>>
-----------------------------------------------------------------------------
(* The loop. *)
Gone(c) == client[c] \in {"left", "reset"}
Readable(f) ==
  \/ f = Master /\ master = "listening" /\ backlog # <<>>
  \/ f \in Open /\ (Gone(conn[f]) \/ read[conn[f]] < sent[conn[f]])

\* Faulty: only the first that is readable is served, then it selects again.
FirstSelected(fds) == {f \in fds : Readable(f) /\ \A g \in fds : Readable(g) => f <= g}
\* Faulty: the loop looks at masterfds itself.
WholeSet(fds) == fds
Selected(fds) == {f \in fds : Readable(f)}

\* Waits until something is readable.
Select ==
  /\ mode = "select" /\ master # "closed"
  /\ \E f \in masterfds : Readable(f)
  /\ mode' = "scan" /\ fd' = 0
  /\ tempfds' = Selected(masterfds)
  /\ UNCHANGED <<program, masterfds, maxfd, buffer, kernel, peers, read, reports>>

\* Certainly when a descriptor of the set is closed.  masterSocket is
\* closed, and the for loop is entered all the same, with the set as it was.
SelectFails ==
  /\ mode = "select" /\ (MaySelectFail \/ master = "closed")
  /\ mode' = "scan" /\ fd' = 0
  /\ tempfds' = masterfds
  /\ CloseMaster
  /\ UNCHANGED <<program, masterfds, maxfd, buffer, conn, peers, read, reports>>

\* if (FD_ISSET(i, &tempfds)) for i from fd to maxfd.
Due == {f \in tempfds : fd <= f /\ f <= maxfd}
Visit(f) ==
  /\ mode = "scan"
  /\ f \in Due /\ \A g \in Due : f <= g
  /\ fd' = f + 1

ScanDone ==
  /\ mode = "scan"
  /\ Due = {}
  /\ mode' = "select"
  /\ UNCHANGED <<program, masterfds, tempfds, maxfd, fd, buffer, kernel, peers, read, reports>>

\* The callbacks, of which Server.cpp has none.
Tell(n, c) == told' = IF program = "NewServer" THEN [told EXCEPT ![n] = c] ELSE told

\* Faulty: the newest descriptor is taken for the greatest.
RaisedAlways(f) == IF program = "NewServer" THEN Truncated(f) ELSE f
Raised(f) ==
  IF f <= maxfd THEN maxfd ELSE IF program = "NewServer" THEN Truncated(f) ELSE f

\* FD_SET ignores what does not fit.
Watch(f) ==
  IF Cardinality(masterfds) < FdSetSize[program]
  THEN masterfds' = masterfds \cup {f} /\ UNCHANGED overlooked
  ELSE overlooked' = overlooked \cup {Head(backlog)} /\ UNCHANGED masterfds

\* HandleNewConnection: accept, FD_SET, the greeting, the callback.
AcceptClient ==
  /\ Visit(Master)
  /\ backlog # <<>>
  /\ LET c == Head(backlog)
     IN \E f \in Fds \ Open :
          /\ conn' = [conn EXCEPT ![f] = c]
          /\ Watch(f)
          /\ maxfd' = Raised(f)
          /\ Tell(Truncated(f), c)
  /\ backlog' = Tail(backlog)
  /\ UNCHANGED <<program, mode, tempfds, buffer, master, peers, read, heard>>

\* accept returns -1: the client was reset, or the socket is closed.  The
\* callback for new clients is called with the -1 all the same, cut to 16 bits.
AcceptFails ==
  /\ Visit(Master)
  /\ \/ /\ backlog # <<>> /\ client[Head(backlog)] = "reset"
        /\ backlog' = Tail(backlog)
     \/ /\ master = "closed"
        /\ UNCHANGED backlog
  /\ Tell(Truncated(-1), Stranger)
  /\ UNCHANGED <<program, mode, masterfds, tempfds, maxfd, buffer, master, conn, peers, read,
                 heard, overlooked>>

Unit(c, k) == IF (k - 1) % MessageSize < TextSize THEN <<c, k>> ELSE None

\* The buffer after n units of c were read into it.
Filled(c, n) == [i \in DOMAIN buffer |-> IF i <= n THEN Unit(c, read[c] + i) ELSE buffer[i]]

\* What is read of it as a string: up to the first zero.
Text(b) ==
  LET zeroes == {i \in DOMAIN b : b[i] = None}
  IN SubSeq(b, 1, IF zeroes = {} THEN Len(b) ELSE Min(zeroes) - 1)

\* Faulty: no ZeroMemory.
LeftAsItIs(b) == b
Cleared(b) == Zeroes

\* Faulty: what recv returns is taken for a whole buffer.
WholeBuffer(c) == {BufferSize[program]}
\* What recv may return.
Amounts(c) == 1..Min({BufferSize[program], sent[c] - read[c]})

\* RecvInputFromExisting, ret > 0.
RecvSome(f) ==
  /\ Visit(f)
  /\ f \in Open
  /\ LET c == conn[f]
     IN /\ client[c] # "reset"
        /\ \E n \in Amounts(c) :
             /\ read' = [read EXCEPT ![c] = @ + n]
             /\ heard' = [heard EXCEPT ![c] = @ \o Text(Filled(c, n))]
             /\ buffer' = Cleared(Filled(c, n))
  /\ UNCHANGED <<program, mode, masterfds, tempfds, maxfd, kernel, peers, told, overlooked>>

\* Faulty: FD_CLR on the copy.
ClearTemp(f) == conn' = [conn EXCEPT ![f] = None] /\ UNCHANGED masterfds
CloseClient(f) ==
  /\ conn' = [conn EXCEPT ![f] = None]
  /\ masterfds' = masterfds \ {f}

\* Server.cpp returns from main, whoever left: the system closes everything.
EndProgram ==
  /\ mode' = "ended"
  /\ CloseMaster
  /\ conn' = [f \in Fds |-> None]
  /\ UNCHANGED masterfds

CloseOrEnd(f) ==
  \/ program = "NewServer" /\ CloseClient(f) /\ UNCHANGED <<mode, master, backlog>>
  \/ program = "Server" /\ EndProgram

\* Faulty: the client is closed and not reported.
ReportNothing(f) == UNCHANGED told
Report(f) == Tell(Truncated(f), None)

\* ret = 0: all that was sent is read, and the client is gone.
RecvEnd(f) ==
  /\ Visit(f)
  /\ f \in Open
  /\ client[conn[f]] = "left" /\ read[conn[f]] = sent[conn[f]]
  /\ Report(f)
  /\ CloseOrEnd(f)
  /\ UNCHANGED <<program, tempfds, maxfd, buffer, peers, read, heard, overlooked>>

\* The clients of Server inherit from masterSocket that they do not block.
WouldBlock(f) == program = "Server" /\ ~ Readable(f)

\* ret < 0: reset, would block, or not a socket any more.  No callback.
RecvError(f) ==
  /\ Visit(f)
  /\ f # Master
  /\ f \in Open => client[conn[f]] = "reset" \/ WouldBlock(f)
  /\ CloseOrEnd(f)
  /\ UNCHANGED <<program, tempfds, maxfd, buffer, peers, read, reports>>

Loop ==
  \/ Select \/ SelectFails \/ ScanDone
  \/ AcceptClient \/ AcceptFails
  \/ \E f \in Fds : RecvSome(f) \/ RecvEnd(f) \/ RecvError(f)

Next ==
  \/ \E c \in Clients : Connect(c) \/ Turn(c) \/ Leave(c)
  \/ Shutdown
  \/ Loop

Spec == Init /\ [][Next]_vars

\* Both programs run the loop for ever.
FairSpec == Spec /\ WF_vars(Loop)
-----------------------------------------------------------------------------
(* Properties. *)
Peers == Clients \cup {None}

\* Types.  maxfd and the numbers the owner has fit into 16 bits.
TypeOK ==
  /\ program \in Programs
  /\ mode \in {"select", "scan", "ended"}
  /\ {masterfds, tempfds} \subseteq SUBSET (Fds \cup {Master})
  /\ maxfd \in Nat /\ (program = "NewServer" => maxfd < Width)
  /\ fd \in Nat
  /\ buffer \in [1..BufferSize[program] -> (Clients \X Nat) \cup {None}]
  /\ told \in [0..(Width - 1) -> Peers \cup {Stranger}]
  /\ master \in {"listening", "idle", "closed"}
  /\ backlog \in Seq(Clients)
  /\ conn \in [Fds -> Peers]
  /\ client \in [Clients -> {"out", "running", "refused", "left", "reset"}]
  /\ sent \in [Clients -> Nat]
  /\ \A c \in Clients : read[c] \in 0..sent[c]
  /\ heard \in [Clients -> Seq(Clients \X Nat)]
  /\ overlooked \subseteq Clients

\* No open descriptor is too great for 16 bits.
Fits == \A f \in Open : f < Width

\* masterfds holds exactly the clients that are connected: one that is closed is
\* not selected on again, and none that still fits into the set is forgotten.
MembersAreOpen ==
  mode # "ended" => masterfds = {Master} \cup {f \in Open : conn[f] \notin overlooked}

\* The for loop reaches every descriptor select may report, as long as they fit:
\* maxfd is a 16 bit copy of the greatest ever accepted, and never goes down.
LoopReachesAll == program = "Server" \/ Fits => \A f \in masterfds : f <= maxfd

\* tempfds is a copy made before the loop, which closes clients and accepts new
\* ones.  Nonetheless what is still to be looked at is readable when its turn
\* comes: neither accept nor recv, which block, ever stops the other clients (in
\* Server, where recv fails instead of blocking, it never ends the program).
NeverBlocks ==
  mode = "scan" /\ master = "listening" => \A f \in Due : Readable(f)

\* A number is what the truncated -1 of a failed accept is, and has its stranger.
Misreported(n) == n = Truncated(-1) /\ told[n] = Stranger

\* The owner knows each connected client by its number, so that SendMessage goes
\* to whom it is meant for although descriptors are used again and not every end
\* is reported.  Whom it believes connected, when it is not, broke off with an
\* error, for which there is no callback, or is the stranger of an accept that
\* failed (NewServer.cpp:130), known as 65535 whoever had that number before.
OwnerKnows ==
  program = "NewServer" /\ Fits =>
    /\ \A f \in Open : told[f] = conn[f] \/ Misreported(f)
    /\ \A n \in DOMAIN told :
         told[n] # None /\ n \notin Open =>
           Misreported(n) \/ (told[n] # Stranger /\ client[told[n]] = "reset")

\* What is handed over for a client is text it sent, in its order, no unit twice:
\* all clients share one buffer, and it is read as a string.
HeardInOrder ==
  \A c \in Clients :
    /\ \A i \in DOMAIN heard[c] : heard[c][i][1] = c /\ heard[c][i][2] <= read[c]
    /\ \A i, j \in DOMAIN heard[c] : i < j => heard[c][i][2] < heard[c][j][2]

Watched(c) == c \notin overlooked /\ (\E f \in Open : conn[f] = c)
Excused == mode = "ended" \/ master # "listening" \/ (program = "NewServer" /\ ~ Fits)

\* What a client sent is read and, when it has left, it is closed, although the
\* other clients may send for ever: the loop starves nobody by its order.  (Of
\* a client that was overlooked, or when a descriptor of NewServer does not fit,
\* it says nothing.)
AllAreServed ==
  \A c \in Clients :
    Watched(c) /\ (read[c] < sent[c] \/ Gone(c)) ~>
      ~ Watched(c) \/ (read[c] = sent[c] /\ ~ Gone(c)) \/ Excused
=============================================================================
