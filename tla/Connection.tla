----------------------------- MODULE Connection -----------------------------
(***************************************************************************)
(* connection<T> (net_connection.h): the object that asio drives at each   *)
(* end of one TCP connection.  Any thread may call Send and Disconnect,    *)
(* which only post a task; everything else runs on the end's one context   *)
(* thread, as the tasks and completion handlers it takes up one by one.    *)
(*                                                                         *)
(* The kernel is an action of its own: an operation that was started       *)
(* completes at some later moment ("pending" to "ok" or "error"), and its  *)
(* handler runs some time after that.                                      *)
(*                                                                         *)
(* A message is its header (id, size) and its body.  A body is a sequence  *)
(* of units that all carry the number of the message, so that the bytes of *)
(* two messages can be told apart.  On the wire a header is one token and  *)
(* a body another.                                                         *)
(***************************************************************************)
EXTENDS Naturals, Sequences, SequencesExt

CONSTANTS
  Ends,                 \* {the client's end, the server's end}
  Peer,                 \* the other end
  Ids,                  \* message types
  FirstId,              \* the first of them, which header{} holds
  BodySize,             \* body size of a new message, for each type and end
  MaySend,              \* the types an end sends of its own accord
  EchoIds,              \* the types the server's OnMessage sends back
  Echoer,               \* the end that does so: the server's
  Disconnectors,        \* the ends whose program calls Disconnect
  MayReset,             \* whether the network may reset the connection
  MaxSends              \* bound on the messages an end sends

ASSUME ConnectionAssumption ==
  /\ Peer \in [Ends -> Ends]
  /\ \A e \in Ends : Peer[e] # e /\ Peer[Peer[e]] = e
  /\ FirstId \in Ids
  /\ BodySize \in [Ids -> Nat]
  /\ MaySend \in [Ends -> SUBSET Ids]
  /\ EchoIds \subseteq Ids
  /\ Echoer \in Ends
  /\ Disconnectors \subseteq Ends
  /\ MayReset \in BOOLEAN
  /\ MaxSends \in Nat

VARIABLES
  started,              \* whether the end's first ReadHeader was issued
  sock,                 \* m_socket: "open" or "closed"
  posted,               \* tasks posted to the context, oldest first
  sendDeq,              \* m_sendDeq
  writeOps,             \* the async_writes under way, oldest first
  readOp,               \* the async_read under way
  tempMsg,              \* m_tempMsg
  recvDeq,              \* everything ever put into m_recvDeq, oldest first
  taken,                \* how many of those the application has taken out
  wire,                 \* the bytes on their way to the end
  broken,               \* whether the network reset the connection
  sent                  \* history: the messages Send was called with

vars == <<started, sock, posted, sendDeq, writeOps, readOp, tempMsg, recvDeq,
          taken, wire, broken, sent>>
writing == <<sendDeq, writeOps>>
reading == <<started, readOp, tempMsg, recvDeq>>
calls == <<posted, taken, sent>>

Results == {"pending", "ok", "error"}
\* Faulty: data put into the body without recalculating the size.
MessageUnsized(id, body) == [id |-> id, size |-> 0, body |-> body]
Message(id, body) == [id |-> id, size |-> Len(body), body |-> body]
NoMessage == Message(FirstId, <<>>)     \* message<T> as it is constructed

\* What the message's header promises, and no more.
Payload(m) == [id |-> m.id, data |-> SubSeq(m.body, 1, m.size)]

\* Faulty: one unit too few announced.
HeaderTokenShort(m) == [what |-> "header", id |-> m.id, size |-> m.size - 1]
HeaderToken(m) == [what |-> "header", id |-> m.id, size |-> m.size]
BodyToken(m) == [what |-> "body", data |-> m.body]

Idle == [what |-> "none", res |-> "ok"]
ReadOf(what) == [what |-> what, res |-> "pending"]
WriteOf(token) == [token |-> token, res |-> "pending"]

Init ==
  /\ started = [e \in Ends |-> FALSE]
  /\ sock = [e \in Ends |-> "open"]
  /\ posted = [e \in Ends |-> <<>>]
  /\ sendDeq = [e \in Ends |-> <<>>]
  /\ writeOps = [e \in Ends |-> <<>>]
  /\ readOp = [e \in Ends |-> Idle]
  /\ tempMsg = [e \in Ends |-> NoMessage]
  /\ recvDeq = [e \in Ends |-> <<>>]
  /\ taken = [e \in Ends |-> 0]
  /\ wire = [e \in Ends |-> <<>>]
  /\ broken = FALSE
  /\ sent = [e \in Ends |-> <<>>]
-----------------------------------------------------------------------------
(* Calls from the application.                                             *)

\* Send(msg): post a task that holds a copy of msg.
PostSend(e, m) ==
  /\ Len(sent[e]) < MaxSends
  /\ posted' = [posted EXCEPT ![e] = Append(@, [op |-> "send", msg |-> m])]
  /\ sent' = [sent EXCEPT ![e] = Append(@, m)]

Send(e, id) ==
  /\ id \in MaySend[e]
  /\ PostSend(e, Message(id, [i \in 1..BodySize[id] |-> Len(sent[e]) + 1]))
  /\ UNCHANGED <<sock, broken, wire, taken, writing, reading>>

\* Disconnect(): if (IsConnected()) post a task that closes the socket.
Disconnect(e) ==
  /\ e \in Disconnectors
  /\ sock[e] = "open"
  /\ \A i \in 1..Len(posted[e]) : posted[e][i].op # "close"
  /\ posted' = [posted EXCEPT ![e] = Append(@, [op |-> "close"])]
  /\ UNCHANGED <<sock, broken, wire, taken, sent, writing, reading>>

\* Update takes a message out of m_recvDeq and OnMessage handles it; a ping
\* goes back to its sender as it came.
Handle(e) ==
  /\ taken[e] < Len(recvDeq[e])
  /\ taken' = [taken EXCEPT ![e] = @ + 1]
  /\ LET m == recvDeq[e][taken[e] + 1]
     IN IF e = Echoer /\ m.id \in EchoIds
        THEN PostSend(e, m)
        ELSE UNCHANGED <<posted, sent>>
  /\ UNCHANGED <<sock, broken, wire, writing, reading>>
-----------------------------------------------------------------------------
(* Tasks and handlers of the context thread.                               *)

StartWrite(e, token) == writeOps' = [writeOps EXCEPT ![e] = Append(@, WriteOf(token))]

\* ConnectToClient(uid), or the handler of the async_connect that
\* ConnectToServer started: issue the first ReadHeader.
Start(e) ==
  /\ ~ started[e]
  /\ sock[e] = "open"
  /\ started' = [started EXCEPT ![e] = TRUE]
  /\ readOp' = [readOp EXCEPT ![e] = ReadOf("header")]
  /\ UNCHANGED <<sock, broken, wire, tempMsg, recvDeq, writing, calls>>

\* Faulty: the new message goes to the front of the deque.
QueuedFront(e, m) == <<m>> \o sendDeq[e]
Queued(e, m) == Append(sendDeq[e], m)

\* Faulty: every message starts a write.
AlwaysStarts(e) == TRUE
\* Faulty: the test of the deque the wrong way round.
StartsInverted(e) == sendDeq[e] # <<>>
StartsWriting(e) == sendDeq[e] = <<>>

\* The task Send posted: only a message that finds m_sendDeq empty starts
\* the chain of writes.
RunSend(e) ==
  /\ posted[e] # <<>> /\ Head(posted[e]).op = "send"
  /\ LET m == Head(posted[e]).msg
     IN /\ sendDeq' = [sendDeq EXCEPT ![e] = Queued(e, m)]
        /\ IF StartsWriting(e)
           THEN StartWrite(e, HeaderToken(m))
           ELSE UNCHANGED writeOps
  /\ posted' = [posted EXCEPT ![e] = Tail(@)]
  /\ UNCHANGED <<sock, broken, wire, taken, sent, reading>>

\* m_socket.close(): what is on its way to this end is lost.
CloseSocket(e) ==
  /\ sock' = [sock EXCEPT ![e] = "closed"]
  /\ wire' = [wire EXCEPT ![e] = <<>>]

RunClose(e) ==
  /\ posted[e] # <<>> /\ Head(posted[e]).op = "close"
  /\ posted' = [posted EXCEPT ![e] = Tail(@)]
  /\ CloseSocket(e)
  /\ UNCHANGED <<broken, taken, sent, writing, reading>>

\* Faulty: nothing is started after a message.
NothingNext(rest) == <<>>
NextWrite(rest) == IF rest = <<>> THEN <<>> ELSE <<WriteOf(HeaderToken(Head(rest)))>>

\* The handlers of WriteHeader and WriteBody.  A written message leaves the
\* deque, and the next one, if there is one, starts; an error closes the
\* socket and leaves the deque as it is.
WriteHandler(e, i) ==
  /\ i \in DOMAIN writeOps[e]
  /\ LET op == writeOps[e][i]
         others == RemoveAt(writeOps[e], i)
         next(toks) == [writeOps EXCEPT ![e] = others \o toks]
         rest == Tail(sendDeq[e])
     IN /\ op.res # "pending"
        /\ \/ /\ op.res = "ok" /\ op.token.what = "header"
              /\ Head(sendDeq[e]).body # <<>>
              /\ writeOps' = next(<<WriteOf(BodyToken(Head(sendDeq[e])))>>)
              /\ UNCHANGED <<sock, wire, sendDeq>>
           \/ /\ op.res = "ok"
              /\ op.token.what = "header" => Head(sendDeq[e]).body = <<>>
              /\ sendDeq' = [sendDeq EXCEPT ![e] = rest]
              /\ writeOps' = next(NextWrite(rest))
              /\ UNCHANGED <<sock, wire>>
           \/ /\ op.res = "error"
              /\ writeOps' = next(<<>>)
              /\ CloseSocket(e)
              /\ UNCHANGED sendDeq
  /\ UNCHANGED <<broken, reading, calls>>

\* Faulty: the error is reported and the socket stays open.
KeepSocket(e) == UNCHANGED <<sock, wire>>
ReadFailed(e) == CloseSocket(e)

\* Faulty: no ReadHeader after the message.
AddToIncomingOnce(e) ==
  /\ recvDeq' = [recvDeq EXCEPT ![e] = Append(@, tempMsg[e])]
  /\ readOp' = [readOp EXCEPT ![e] = Idle]
AddToIncoming(e) ==
  /\ recvDeq' = [recvDeq EXCEPT ![e] = Append(@, tempMsg[e])]
  /\ readOp' = [readOp EXCEPT ![e] = ReadOf("header")]

\* The handlers of ReadHeader and ReadBody, with AddToIncomingMessageQueue.
\* A header of size 0 is a whole message: m_tempMsg goes to the queue with
\* whatever its body holds.
ReadHandler(e) ==
  /\ readOp[e].what # "none" /\ readOp[e].res # "pending"
  /\ \/ /\ readOp[e].res = "ok" /\ readOp[e].what = "header" /\ tempMsg[e].size > 0
        /\ readOp' = [readOp EXCEPT ![e] = ReadOf("body")]
        /\ UNCHANGED <<sock, wire, recvDeq>>
     \/ /\ readOp[e].res = "ok"
        /\ readOp[e].what = "header" => tempMsg[e].size = 0
        /\ AddToIncoming(e)
        /\ UNCHANGED <<sock, wire>>
     \/ /\ readOp[e].res = "error"
        /\ readOp' = [readOp EXCEPT ![e] = Idle]
        /\ ReadFailed(e)
        /\ UNCHANGED recvDeq
  /\ UNCHANGED <<started, tempMsg, broken, writing, calls>>
-----------------------------------------------------------------------------
(* The network and the kernel.                                             *)

Reset ==
  /\ MayReset /\ ~ broken
  /\ broken' = TRUE
  /\ UNCHANGED <<sock, wire, writing, reading, calls>>

Finish(e, i, res) == writeOps' = [writeOps EXCEPT ![e][i].res = res]

\* The kernel takes the bytes; they reach a peer that has not closed.
WriteOk(e, i) ==
  /\ i \in DOMAIN writeOps[e] /\ writeOps[e][i].res = "pending"
  /\ sock[e] = "open" /\ ~ broken
  /\ Finish(e, i, "ok")
  /\ wire' = IF sock[Peer[e]] = "open"
             THEN [wire EXCEPT ![Peer[e]] = Append(@, writeOps[e][i].token)]
             ELSE wire
  /\ UNCHANGED <<sock, broken, sendDeq, reading, calls>>

Dead(e) == sock[e] = "closed" \/ sock[Peer[e]] = "closed" \/ broken

WriteError(e, i) ==
  /\ i \in DOMAIN writeOps[e] /\ writeOps[e][i].res = "pending"
  /\ Dead(e)
  /\ Finish(e, i, "error")
  /\ UNCHANGED <<sock, wire, broken, sendDeq, reading, calls>>

\* async_read fills the buffer it was given: the header of m_tempMsg, or its
\* body, resized to the header's size.  A read meets its own kind of token
\* (see FramesAligned).
ReadOk(e) ==
  /\ readOp[e].what # "none" /\ readOp[e].res = "pending"
  /\ sock[e] = "open"
  /\ wire[e] # <<>>
  /\ LET token == Head(wire[e])
     IN /\ token.what = readOp[e].what
        /\ tempMsg' = [tempMsg EXCEPT ![e] =
             IF token.what = "header"
             THEN [@ EXCEPT !.id = token.id, !.size = token.size]
             ELSE [@ EXCEPT !.body = token.data]]
  /\ readOp' = [readOp EXCEPT ![e].res = "ok"]
  /\ wire' = [wire EXCEPT ![e] = Tail(@)]
  /\ UNCHANGED <<started, sock, broken, recvDeq, writing, calls>>

ReadError(e) ==
  /\ readOp[e].what # "none" /\ readOp[e].res = "pending"
  /\ Dead(e)
  /\ readOp' = [readOp EXCEPT ![e].res = "error"]
  /\ UNCHANGED <<started, sock, wire, broken, tempMsg, recvDeq, writing, calls>>
-----------------------------------------------------------------------------
Context(e) ==
  \/ Start(e) \/ RunSend(e) \/ RunClose(e) \/ ReadHandler(e)
  \/ \E i \in DOMAIN writeOps[e] : WriteHandler(e, i)

KernelWrite(e) == \E i \in DOMAIN writeOps[e] : WriteOk(e, i) \/ WriteError(e, i)
KernelRead(e) == ReadOk(e) \/ ReadError(e)

Next ==
  \/ \E e \in Ends :
       \/ \E id \in Ids : Send(e, id)
       \/ Disconnect(e) \/ Handle(e)
       \/ Context(e) \/ KernelWrite(e) \/ KernelRead(e)
  \/ Reset

Spec == Init /\ [][Next]_vars

\* The context thread runs what is ready, and every operation that can
\* complete does; nobody has to call Send, and no reset is owed.
Fairness ==
  \A e \in Ends :
    /\ WF_vars(Start(e)) /\ WF_vars(RunSend(e)) /\ WF_vars(RunClose(e))
    /\ WF_vars(ReadHandler(e))
    /\ WF_vars(\E i \in DOMAIN writeOps[e] : WriteHandler(e, i))
    /\ WF_vars(KernelWrite(e)) /\ WF_vars(KernelRead(e))

FairSpec == Spec /\ Fairness
-----------------------------------------------------------------------------
(* Properties                                                              *)

Messages == [id : Ids, size : Nat, body : Seq(1..MaxSends)]

Tokens ==
  [what : {"header"}, id : Ids, size : Nat] \cup [what : {"body"}, data : Seq(1..MaxSends)]

TypeOK ==
  /\ started \in [Ends -> BOOLEAN]
  /\ sock \in [Ends -> {"open", "closed"}]
  /\ \A e \in Ends : \A i \in DOMAIN posted[e] :
       posted[e][i] \in [op : {"send"}, msg : Messages] \cup [op : {"close"}]
  /\ sendDeq \in [Ends -> Seq(Messages)]
  /\ writeOps \in [Ends -> Seq([token : Tokens, res : Results])]
  /\ readOp \in [Ends -> [what : {"none", "header", "body"}, res : Results]]
  /\ tempMsg \in [Ends -> Messages]
  /\ recvDeq \in [Ends -> Seq(Messages)]
  /\ \A e \in Ends : taken[e] \in 0..Len(recvDeq[e])
  /\ wire \in [Ends -> Seq(Tokens)]
  /\ broken \in BOOLEAN
  /\ sent \in [Ends -> Seq(Messages)]

\* asio allows one async_write on a stream at a time, and the handlers read
\* m_sendDeq.front(): at most one is under way, and it writes a part of the
\* message at the front (net_connection.h:313-387).
OneWriteOfTheFront ==
  \A e \in Ends :
    /\ Len(writeOps[e]) <= 1
    /\ writeOps[e] # <<>> =>
         /\ sendDeq[e] # <<>>
         /\ writeOps[e][1].token \in {HeaderToken(Head(sendDeq[e])),
                                      BodyToken(Head(sendDeq[e]))}

\* The chain of writes never breaks while the socket is open: a queued
\* message that nothing is writing would wait for ever, for a later Send
\* finds the deque non-empty and starts nothing (net_connection.h:320-325).
ChainNeverBreaks ==
  \A e \in Ends : sendDeq[e] # <<>> /\ writeOps[e] = <<>> => sock[e] = "closed"

\* The reader never takes the bytes of a body for a header or those of a
\* header for a body, and a body has the length its header announced
\* (net_connection.h:390-437).
FramesAligned ==
  \A e \in Ends :
    readOp[e].what # "none" /\ readOp[e].res = "pending" /\ wire[e] # <<>> =>
      /\ Head(wire[e]).what = readOp[e].what
      /\ readOp[e].what = "body" => Len(Head(wire[e]).data) = tempMsg[e].size

\* A connection that is open has a read outstanding from its start on: that
\* read is the only thing that ever notices that the peer is gone.
AlwaysReading ==
  \A e \in Ends : started[e] /\ sock[e] = "open" => readOp[e].what # "none"

\* In each direction, and whatever the other direction does, what arrives is
\* what Send was called with, in that order, each once, none mixed up: what a
\* header announces of each message is a Channel.
Payloads(s) == [i \in DOMAIN s |-> Payload(s[i])]
Items == {[id |-> id, data |-> [i \in 1..BodySize[id] |-> k]] :
            id \in Ids, k \in 1..MaxSends}
Server == Echoer
Client == Peer[Echoer]
FromServer == INSTANCE Channel WITH Item <- Items,
                                    sent <- Payloads(sent[Server]),
                                    delivered <- Payloads(recvDeq[Client])
FromClient == INSTANCE Channel WITH Item <- Items,
                                    sent <- Payloads(sent[Client]),
                                    delivered <- Payloads(recvDeq[Server])
LinksAreChannels == FromServer!Spec /\ FromClient!Spec

\* A message that Send accepted arrives, or the connection is closed at one
\* end (net_connection.h:313-330 and the handlers it sets off).
SentArrives ==
  \A e \in Ends, n \in 1..MaxSends :
    (Len(sent[e]) >= n) ~>
      (Len(recvDeq[Peer[e]]) >= n \/ \E x \in Ends : sock[x] = "closed")

\* When one end closes, the other end closes its socket as well: its
\* outstanding read fails (net_connection.h:410-414, 433-437).
CloseIsNoticed ==
  \A e \in Ends : (sock[e] = "closed") ~> (sock[Peer[e]] = "closed")

\* net_message.h:59 and :88 keep a message's header.size equal to the size of
\* its body, whenever something is put in or taken out; a message that the
\* application receives should have that too.
WholeMessages ==
  \A e \in Ends : \A i \in DOMAIN recvDeq[e] :
    recvDeq[e][i].size = Len(recvDeq[e][i].body)
=============================================================================
