------------------------------ MODULE NetClient ------------------------------
(***************************************************************************)
(* client_interface (net_client.h) and the program on top of it            *)
(* (SimpleClient.cpp): the main thread's loop, and the life of the context *)
(* thread from Connect to Disconnect.  The connection's handlers, which    *)
(* Connection models one by one, are here one step per message.            *)
(*                                                                         *)
(* A message is its id and its body, a sequence of units; the time a ping  *)
(* carries is TimeUnits of them, all with the number of the ping.         *)
(***************************************************************************)
EXTENDS Naturals, SequencesExt

CONSTANTS
  TimeUnits,      \* the size of a time_point
  MaxSends,       \* bound of the model on the messages the user sends
  MaxBroadcasts,  \* bound of the model on what the server sends of its own
  MaxConnects     \* 1: SimpleClient; 2: an owner that connects a second time

ASSUME NetClientAssumption ==
  /\ TimeUnits \in Nat \ {0}
  /\ {MaxSends, MaxBroadcasts, MaxConnects} \subseteq Nat

VARIABLES
  main,         \* where the main thread is
  inHand,       \* the messages of this turn's keys, to be sent
  quit,         \* bQuit, by the key
  connects,     \* how often Connect was called
  connection,   \* m_connection holds an object
  thread,       \* m_contextThr: "none", "running", "returned" from run()
  stopped,      \* m_context is stopped; nothing ever restarts it
  handler,      \* what the thread is at: "connect", "task", "write", "read"; "none"
  posted,       \* tasks of m_context: a message to send, or Close
  socket,       \* m_socket: "open" or "closed"
  connectOp,    \* the async_connect: "none", "pending"; "ok", "error": its handler is due
  readOp, writeOp,  \* the async_read and async_write: the same
  sendDeq, recvDeq,
  link,         \* network: "none", "up", "down"
  toServer, toClient,
  broadcasts,   \* history: how many the server sent
  sends,        \* history: how many messages the user sent
  timesRead,    \* history: what msg >> timeThen read
  early         \* history: a write was started before there was a connection

program == <<main, inHand, quit, connects, connection, sends, timesRead>>
operations == <<socket, connectOp, readOp, writeOp, sendDeq, early>>
network == <<link, toServer, toClient, broadcasts>>
context == <<thread, stopped, handler, posted>>
vars == <<program, operations, network, context, recvDeq>>

Close == [id |-> "close", body |-> <<>>]

\* message << data: the body grows at its end.
Push(body, data) == body \o data

\* message >> data: the last n units.
Pop(body, n) == SubSeq(body, Len(body) - n + 1, Len(body))

\* PingServer and MessageAll.
PingMessage(k) == [id |-> "ServerPing", body |-> Push(<<>>, [i \in 1..TimeUnits |-> k])]
AllMessage == [id |-> "MessageAll", body |-> <<>>]

Init ==
  /\ main = "start" /\ inHand = <<>> /\ quit = FALSE
  /\ connects = 0 /\ connection = FALSE
  /\ thread = "none" /\ stopped = FALSE /\ handler = "none" /\ posted = <<>>
  /\ socket = "closed" /\ connectOp = "none" /\ readOp = "none" /\ writeOp = "none"
  /\ sendDeq = <<>> /\ recvDeq = <<>>
  /\ link = "none" /\ toServer = <<>> /\ toClient = <<>> /\ broadcasts = 0
  /\ sends = 0 /\ timesRead = <<>> /\ early = FALSE

\* Faulty: connected only once the first read is under way.
ReallyConnected == connection /\ socket = "open" /\ readOp # "none"
\* The socket is open from the start of the async_connect, whatever comes of it.
IsConnected == connection /\ socket = "open"
-----------------------------------------------------------------------------
(* The main thread. *)
Goto(place) == main' = place

\* resolve throws: Connect returns false, which SimpleClient does not look at.
ConnectThrows ==
  /\ main = "start" /\ connects < MaxConnects
  /\ Goto("loop")
  /\ connects' = connects + 1
  /\ UNCHANGED <<inHand, quit, connection, sends, timesRead, operations, network, context, recvDeq>>

\* A new connection, ConnectToServer, and the thread that calls run().
Connect ==
  /\ main = "start" /\ connects < MaxConnects
  /\ Goto("loop")
  /\ connects' = connects + 1
  /\ connection' = TRUE
  /\ socket' = "open" /\ connectOp' = "pending"
  /\ readOp' = "none" /\ writeOp' = "none" /\ sendDeq' = <<>> /\ early' = FALSE
  /\ link' = "none" /\ toServer' = <<>> /\ toClient' = <<>>
  /\ thread' = "running"
  /\ UNCHANGED <<inHand, quit, sends, timesRead, broadcasts, stopped, handler, posted, recvDeq>>

\* The keys 1, 2 and 3, of which any may just have been pressed.
Keys(ping, all, three) ==
  /\ main = "loop"
  /\ Goto("send")
  /\ inHand' = (IF ping THEN <<PingMessage(sends + 1)>> ELSE <<>>)
               \o (IF all THEN <<AllMessage>> ELSE <<>>)
  /\ sends' = sends + Len(inHand')
  /\ sends' <= MaxSends
  /\ quit' = three
  /\ UNCHANGED <<connects, connection, timesRead, operations, network, context, recvDeq>>

\* Send: if (IsConnected()), and only then, the message is posted; the socket
\* may have been closed in between.
Send ==
  /\ main = "send" /\ inHand # <<>>
  /\ IF IsConnected
     THEN Goto("post") /\ UNCHANGED inHand
     ELSE inHand' = Tail(inHand) /\ UNCHANGED main
  /\ UNCHANGED <<quit, connects, connection, sends, timesRead, operations, network, context, recvDeq>>

Post ==
  /\ main = "post"
  /\ Goto("send")
  /\ posted' = Append(posted, Head(inHand))
  /\ inHand' = Tail(inHand)
  /\ UNCHANGED <<quit, connects, connection, sends, timesRead, operations, network, thread, stopped, handler,
                 recvDeq>>

\* The switch: only a ping's time and a ServerMessage's id are read.
HandleFirst ==
  LET m == Head(recvDeq)
  IN /\ recvDeq' = Tail(recvDeq)
     /\ timesRead' = IF m.id = "ServerPing" THEN Append(timesRead, Pop(m.body, TimeUnits))
                                            ELSE timesRead

\* if (IsConnected()): at most one message is taken; else "Server Down".
Receive ==
  /\ main = "send" /\ inHand = <<>>
  /\ IF IsConnected
     THEN /\ IF recvDeq # <<>> THEN HandleFirst ELSE UNCHANGED <<recvDeq, timesRead>>
          /\ Goto(IF quit THEN "disconnect" ELSE "loop")
     ELSE /\ Goto("disconnect")
          /\ UNCHANGED <<recvDeq, timesRead>>
  /\ UNCHANGED <<inHand, quit, connects, connection, sends, operations, network, context>>

\* Disconnect(), which the destructor calls: post the close, stop the context, ...
Disconnect ==
  /\ main = "disconnect"
  /\ Goto("stop")
  /\ posted' = IF IsConnected THEN Append(posted, Close) ELSE posted
  /\ UNCHANGED <<inHand, quit, connects, connection, sends, timesRead, operations, network,
                 thread, stopped, handler, recvDeq>>

Stop ==
  /\ main = "stop"
  /\ Goto("join")
  /\ stopped' = TRUE
  /\ UNCHANGED <<inHand, quit, connects, connection, sends, timesRead, operations, network,
                 thread, handler, posted, recvDeq>>

\* Faulty: the thread is not waited for.
Detached == TRUE
Joined == thread # "running"

\* ... wait for its thread, ...
Join ==
  /\ main = "join"
  /\ Joined
  /\ Goto("release")
  /\ thread' = IF thread = "returned" THEN "none" ELSE thread
  /\ UNCHANGED <<inHand, quit, connects, connection, sends, timesRead, operations, network,
                 stopped, handler, posted, recvDeq>>

\* ... and release(), which gives up the pointer; the object stays, with its
\* socket.  An owner other than SimpleClient may then connect again.
Release ==
  /\ main = "release"
  /\ main' \in {"done"} \cup (IF connects < MaxConnects THEN {"start"} ELSE {})
  /\ connection' = FALSE
  /\ UNCHANGED <<inHand, quit, connects, sends, timesRead, operations, network, context, recvDeq>>

MainStep ==
  \/ ConnectThrows \/ Connect
  \/ \E ping, all, three \in BOOLEAN : Keys(ping, all, three)
  \/ Send \/ Post \/ Receive
  \/ Disconnect \/ Stop \/ Join \/ Release
-----------------------------------------------------------------------------
(* The context thread, inside run(). *)

Due(h) ==
  CASE h = "connect" -> connectOp \in {"ok", "error"}
    [] h = "task"    -> posted # <<>>
    [] h = "write"   -> writeOp \in {"ok", "error"}
    [] h = "read"    -> readOp \in {"ok", "error"}
    [] OTHER         -> FALSE

\* What is taken up is finished, even if the context is stopped meanwhile.
TakeUp(h) ==
  /\ thread = "running" /\ ~ stopped
  /\ handler = "none"
  /\ Due(h)
  /\ handler' = h
  /\ UNCHANGED <<program, operations, network, thread, stopped, posted, recvDeq>>

CloseSocket == socket' = "closed" /\ link' = IF link = "up" THEN "down" ELSE link

\* The handler of async_connect: an error does nothing, not even a close.
ConnectHandler ==
  /\ handler = "connect"
  /\ handler' = "none"
  /\ connectOp' = "none"
  /\ readOp' = IF connectOp = "ok" THEN "pending" ELSE "none"
  /\ UNCHANGED <<program, socket, writeOp, sendDeq, early, network, thread, stopped, posted,
                 recvDeq>>

\* Faulty: at the front of the deque.
EnqueuedFront(m) == <<m>> \o sendDeq
Enqueued(m) == Append(sendDeq, m)

RunSend ==
  /\ handler = "task" /\ Head(posted) # Close
  /\ handler' = "none"
  /\ posted' = Tail(posted)
  /\ sendDeq' = Enqueued(Head(posted))
  /\ IF sendDeq = <<>>
     THEN writeOp' = "pending" /\ early' = (early \/ link = "none")
     ELSE UNCHANGED <<writeOp, early>>
  /\ UNCHANGED <<program, socket, connectOp, readOp, network, thread, stopped, recvDeq>>

RunClose ==
  /\ handler = "task" /\ Head(posted) = Close
  /\ handler' = "none"
  /\ posted' = Tail(posted)
  /\ CloseSocket
  /\ UNCHANGED <<program, connectOp, readOp, writeOp, sendDeq, early, toServer, toClient,
                 broadcasts, thread, stopped, recvDeq>>

\* A message is written, and the next one is started; or the socket is closed.
WriteHandler ==
  /\ handler = "write"
  /\ handler' = "none"
  /\ \/ /\ writeOp = "ok"
        /\ sendDeq' = Tail(sendDeq)
        /\ writeOp' = IF Tail(sendDeq) = <<>> THEN "none" ELSE "pending"
        /\ UNCHANGED <<socket, link>>
     \/ /\ writeOp = "error"
        /\ writeOp' = "none"
        /\ CloseSocket
        /\ UNCHANGED sendDeq
  /\ UNCHANGED <<program, connectOp, readOp, early, toServer, toClient, broadcasts, thread,
                 stopped, posted, recvDeq>>

\* Faulty: no ReadHeader after the message.
NoNextRead == readOp' = "none"
NextRead == readOp' = "pending"

\* Faulty: the error is only reported.
KeepSocket == UNCHANGED <<socket, link>>
ReadFailed == CloseSocket

\* A message goes to m_recvDeq, and the next read is started; or the socket is
\* closed.
ReadHandler ==
  /\ handler = "read"
  /\ handler' = "none"
  /\ \/ /\ readOp = "ok"
        /\ recvDeq' = Append(recvDeq, Head(toClient))
        /\ toClient' = Tail(toClient)
        /\ NextRead
        /\ UNCHANGED <<socket, link>>
     \/ /\ readOp = "error"
        /\ readOp' = "none"
        /\ ReadFailed
        /\ UNCHANGED <<toClient, recvDeq>>
  /\ UNCHANGED <<program, connectOp, writeOp, sendDeq, early, toServer, broadcasts, thread,
                 stopped, posted>>

\* run() returns when the context is stopped, or when there is nothing left to
\* wait for; that stops it too.
RunReturns ==
  /\ thread = "running" /\ handler = "none"
  /\ stopped \/ (posted = <<>> /\ {connectOp, readOp, writeOp} = {"none"})
  /\ thread' = "returned"
  /\ stopped' = TRUE
  /\ UNCHANGED <<program, operations, network, handler, posted, recvDeq>>

ContextStep ==
  \/ \E h \in {"connect", "task", "write", "read"} : TakeUp(h)
  \/ ConnectHandler \/ RunSend \/ RunClose \/ WriteHandler \/ ReadHandler
  \/ RunReturns
-----------------------------------------------------------------------------
(* The kernel and the server. *)

\* A connect may take as long as it likes.
ConnectDone ==
  /\ connectOp = "pending"
  /\ \/ /\ socket = "open"
        /\ connectOp' = "ok" /\ link' = "up"
     \/ connectOp' = "error" /\ UNCHANGED link
  /\ UNCHANGED <<program, socket, readOp, writeOp, sendDeq, early, toServer, toClient,
                 broadcasts, context, recvDeq>>

\* What is written before there is a connection, or after it, fails.
WriteDone ==
  /\ writeOp = "pending"
  /\ \/ /\ socket = "open" /\ link = "up"
        /\ writeOp' = "ok"
        /\ toServer' = Append(toServer, Head(sendDeq))
     \/ /\ socket = "closed" \/ link # "up"
        /\ writeOp' = "error"
        /\ UNCHANGED toServer
  /\ UNCHANGED <<program, socket, connectOp, readOp, sendDeq, early, link, toClient,
                 broadcasts, context, recvDeq>>

\* m_tempMsg holds the first of toClient from here to the handler.
ReadDone ==
  /\ readOp = "pending"
  /\ \/ /\ socket = "open" /\ toClient # <<>>
        /\ readOp' = "ok"
     \/ /\ socket = "closed" \/ (link = "down" /\ toClient = <<>>)
        /\ readOp' = "error"
  /\ UNCHANGED <<program, socket, connectOp, writeOp, sendDeq, early, network, context, recvDeq>>

\* SimpleServer: a ping goes back as it came, all else is for other clients.
ServerAnswers ==
  /\ link = "up" /\ toServer # <<>>
  /\ toServer' = Tail(toServer)
  /\ toClient' = IF Head(toServer).id = "ServerPing" THEN Append(toClient, Head(toServer))
                                                     ELSE toClient
  /\ UNCHANGED <<program, operations, link, broadcasts, context, recvDeq>>

\* ServerAccept, or ServerMessage with the number of the client that called
\* MessageAll.
ServerBroadcasts ==
  /\ link = "up" /\ broadcasts < MaxBroadcasts
  /\ broadcasts' = broadcasts + 1
  /\ \E m \in {[id |-> "ServerAccept", body |-> <<>>],
               [id |-> "ServerMessage", body |-> Push(<<>>, <<0>>)]} :
       toClient' = Append(toClient, m)
  /\ UNCHANGED <<program, operations, link, toServer, context, recvDeq>>

\* The server closes, or the connection is reset and what was on its way is lost.
LinkDown ==
  /\ link = "up"
  /\ link' = "down"
  /\ toClient' \in {toClient, IF readOp = "ok" THEN <<Head(toClient)>> ELSE <<>>}
  /\ UNCHANGED <<program, operations, toServer, broadcasts, context, recvDeq>>

Next ==
  \/ MainStep \/ ContextStep
  \/ ConnectDone \/ WriteDone \/ ReadDone \/ ServerAnswers \/ ServerBroadcasts \/ LinkDown

Spec == Init /\ [][Next]_vars

\* The loop of SimpleClient never waits; the context thread runs what is due, and
\* a read or write that can complete does.  The server takes what is sent.
FairSpec ==
  /\ Spec
  /\ WF_vars(MainStep) /\ WF_vars(ContextStep)
  /\ WF_vars(WriteDone) /\ WF_vars(ReadDone) /\ WF_vars(ServerAnswers)
-----------------------------------------------------------------------------
(* Properties. *)
Leaving == {"disconnect", "stop", "join", "release", "done"}
\* Once Disconnect has waited for the thread, no handler runs any more: the queue
\* and the context may be destroyed (~client_interface), although reads, writes
\* and tasks of the connection that was not destroyed are still outstanding.
QuietAfterJoin ==
  [][(main \in {"release", "done"}) =>
       UNCHANGED <<socket, sendDeq, recvDeq, posted>>]_vars

\* What msg >> timeThen reads is the time of one of our pings, whole, and of a
\* later ping each time, whatever else is sent and received in between.
OwnTimes ==
  LET time(i) == timesRead[i][1]
  IN /\ \A i \in DOMAIN timesRead : timesRead[i] = [u \in 1..TimeUnits |-> time(i)]
     /\ \A i, j \in DOMAIN timesRead : i < j => time(i) < time(j)

\* SimpleClient gives up ("Server Down") only when no connection is up, and while
\* one is on its way only if it was the client itself that ended it: IsConnected()
\* is true while the connect is under way, but what is sent by then is written too
\* early, and the write that fails closes the socket the connect is waiting for.
ServerDownIsTrue ==
  main = "disconnect" /\ ~ quit /\ connection =>
    /\ link # "up"
    /\ link = "none" /\ connectOp = "pending" => early

\* When the server goes, the client notices by its outstanding read, and ends.
ServerLossEndsClient ==
  link = "down" /\ connects = 1 ~> main \in {"release", "done"} \/ connects > 1

\* A ping that was posted on a connection that is up is answered and its time
\* read, as long as the connection and the client last.
Posted(k) == \E i \in DOMAIN posted : posted[i] = PingMessage(k)
PingIsAnswered ==
  \A k \in 1..MaxSends :
    Posted(k) /\ link = "up" /\ ~ stopped ~>
      link # "up" \/ main \in Leaving \/ \E i \in DOMAIN timesRead : timesRead[i][1] = k
=============================================================================
