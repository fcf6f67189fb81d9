---------------------------- MODULE SimpleSocket ----------------------------
(***************************************************************************)
(* SimpleSocket (SimpleSocket.cpp, built with SERVER defined): one client  *)
(* at a time, a send buffer with a list behind it, a receive buffer with a *)
(* list before it, and Update, which the owner calls in a loop and which   *)
(* does at most one accept, or one recv and one send.                      *)
(*                                                                         *)
(* Bytes are counted in units.  A unit is <<packet, place>>: a packet that *)
(* comes in has HeaderSize units, of which the first holds its data size   *)
(* (the int) and the last is its flag (the char), and then its data.  Flag,*)
(* data and the zeroes the buffer starts with read as a data size of 0.    *)
(***************************************************************************)
EXTENDS Integers, SequencesExt

CONSTANTS HeaderSize,   \* sizeof(int) + sizeof(char), in units
          BufferSize,   \* SOCKET_BUFFER, in units
          DataSizes,    \* the data sizes of the packets the clients send
          PacketSizes,  \* the sizes the owner gives to SendPacket
          MaxClients, MaxPackets, MaxSubmitted,  \* bounds of the model
          MaxErrors     \* bound of the model on the sends that fail

ASSUME SimpleSocketAssumption ==
  /\ HeaderSize \in Nat \ {0}
  /\ BufferSize \in Nat
  /\ DataSizes \subseteq Nat
  /\ PacketSizes \subseteq Nat \ {0}
  /\ {MaxClients, MaxPackets, MaxSubmitted, MaxErrors} \subseteq Nat

VARIABLES mode,           \* "running"; "stopped": Update returned false; "uninit"
          clientSock,     \* a client is connected (clientSock # -1)
          nonBlocking,    \* serverSock has been made non-blocking
          clientNonBlocking,
          sendBuffer, sendBufferList,
          recvBuffer, recvBufferList,
          backlog,        \* kernel: clients not yet accepted
          peer,           \* whether the client is still there
          inbound,        \* kernel: what it sent and recv has not returned
          clients,        \* history: how many clients came
          incoming,       \* history: the data size of each packet sent to us
          submitted,      \* history: the size of each packet given to SendPacket
          transmitted,    \* history: the units send() took, of all clients
          readOut,        \* history: the units recv() returned
          taken,          \* history: what RecvPacket returned
          tidy,           \* history: no chunk went on after the end of a packet,
                          \* no client left in the middle of one
          sendErrors      \* history: how often send() returned -1

sock == <<mode, clientSock, nonBlocking, clientNonBlocking>>
sending == <<sendBuffer, sendBufferList, submitted, transmitted, sendErrors>>
receiving == <<recvBuffer, recvBufferList, readOut, taken, tidy>>
outside == <<backlog, peer, inbound, clients, incoming>>
vars == <<sock, sending, receiving, outside>>

EmptyBuffer == [id |-> 0, totalSize |-> -1, currentSize |-> 0]

Init ==
  /\ mode = "running"
  /\ clientSock = FALSE /\ nonBlocking = FALSE /\ clientNonBlocking = FALSE
  /\ sendBuffer = EmptyBuffer /\ sendBufferList = <<>>
  /\ recvBuffer = [totalSize |-> -1, buffer |-> [i \in 1..BufferSize |-> <<0, 0>>]]
  /\ recvBufferList = <<>>
  /\ backlog = 0 /\ peer = "none" /\ inbound = <<>> /\ clients = 0
  /\ incoming = <<>> /\ submitted = <<>> /\ transmitted = <<>>
  /\ readOut = <<>> /\ taken = <<>>
  /\ tidy = TRUE /\ sendErrors = 0
-----------------------------------------------------------------------------
(* The clients. *)
ClientArrives ==
  /\ clients < MaxClients
  /\ clients' = clients + 1
  /\ backlog' = backlog + 1
  /\ UNCHANGED <<sock, sending, receiving, peer, inbound, incoming>>

ClientSends(size) ==
  /\ peer = "open"
  /\ Len(incoming) < MaxPackets
  /\ incoming' = Append(incoming, size)
  /\ inbound' = inbound \o [i \in 1..(HeaderSize + size) |-> <<Len(incoming) + 1, i>>]
  /\ UNCHANGED <<sock, sending, receiving, backlog, peer, clients>>

\* Gracefully, so that what it sent can still be read, or by a reset.
ClientLeaves ==
  /\ peer = "open"
  /\ peer' = "gone"
  /\ inbound' \in {inbound, <<>>}
  /\ UNCHANGED <<sock, sending, receiving, backlog, clients, incoming>>
-----------------------------------------------------------------------------
(* SendPacket: straight into sendBuffer unless a packet is in it. *)

Busy == sendBuffer.totalSize > 0

SendPacket(size) ==
  /\ mode = "running"
  /\ Len(submitted) < MaxSubmitted
  /\ submitted' = Append(submitted, size)
  /\ LET id == Len(submitted) + 1
     IN IF Busy
        THEN /\ sendBufferList' = Append(sendBufferList, [id |-> id, size |-> size])
             /\ UNCHANGED sendBuffer
        ELSE /\ sendBuffer' = [id |-> id, totalSize |-> size, currentSize |-> 0]
             /\ UNCHANGED sendBufferList
  /\ UNCHANGED <<sock, receiving, outside, transmitted, sendErrors>>

\* Faulty: currentSize is not reset when the next packet is loaded.
LoadedAtCurrent(p) == [id |-> p.id, totalSize |-> p.size, currentSize |-> sendBuffer.currentSize]
Loaded(p) == [id |-> p.id, totalSize |-> p.size, currentSize |-> 0]

\* Faulty: the list is not looked at.
OnlyReset == /\ sendBuffer' = EmptyBuffer
             /\ UNCHANGED sendBufferList
SendDone ==
  \/ /\ sendBufferList # <<>>
     /\ sendBuffer' = Loaded(Head(sendBufferList))
     /\ sendBufferList' = Tail(sendBufferList)
  \/ /\ sendBufferList = <<>>
     /\ sendBuffer' = EmptyBuffer
     /\ UNCHANGED sendBufferList

\* The units the next send() is given.
LeftToSend ==
  [i \in 1..(sendBuffer.totalSize - sendBuffer.currentSize) |->
     <<sendBuffer.id, sendBuffer.currentSize + i>>]

\* send() takes n units from the current one on, or fails: when the client is
\* gone, or when a non-blocking socket has no room.  -1 is then added too.
Transmit ==
  \/ ~Busy /\ UNCHANGED sending
  \/ /\ Busy
     /\ \E n \in 1..Len(LeftToSend) :
          /\ transmitted' = transmitted \o SubSeq(LeftToSend, 1, n)
          /\ IF n = Len(LeftToSend)
             THEN SendDone
             ELSE /\ sendBuffer' = [sendBuffer EXCEPT !.currentSize = @ + n]
                  /\ UNCHANGED sendBufferList
     /\ UNCHANGED <<submitted, sendErrors>>
  \/ /\ Busy
     /\ peer = "gone" \/ clientNonBlocking
     /\ sendErrors < MaxErrors
     /\ sendBuffer' = [sendBuffer EXCEPT !.currentSize = @ - 1]
     /\ sendErrors' = sendErrors + 1
     /\ UNCHANGED <<sendBufferList, submitted, transmitted>>
-----------------------------------------------------------------------------
(* recv and RecvDone. *)
DataSize(unit) == IF unit[2] = 1 THEN incoming[unit[1]] ELSE 0
EndsPacket(unit) == unit[2] = HeaderSize + incoming[unit[1]]

\* Faulty: what is held is overwritten.
OffsetFront(total) == 0
Offset(total) == IF total > 0 THEN total ELSE 0

\* Faulty: the copy is not bounded by the buffer.
PastTheEnd(buffer, chunk, offset) ==
  [i \in 1..(BufferSize + Len(chunk)) |->
     IF i \in (offset + 1)..(offset + Len(chunk)) THEN chunk[i - offset] ELSE <<0, 0>>]
Copied(buffer, chunk, offset) ==
  [i \in 1..BufferSize |->
     IF i \in (offset + 1)..(offset + Len(chunk)) THEN chunk[i - offset] ELSE buffer[i]]

\* Faulty: ">" for ">=".
WholeLess(total, size) == (total - 1) \div size

\* How many turns RecvDone's loop makes: each takes size units off totalSize
\* and, as nothing is moved to the front, finds the same packet there again.
Whole(total, size) == total \div size

\* recvBuffer after chunk was appended and RecvDone has run.
RecvDone(total, buffer) ==
  LET size == HeaderSize + DataSize(buffer[1])
      count == Whole(total, size)
  IN /\ recvBuffer' = [totalSize |-> total - count * size, buffer |-> buffer]
     /\ recvBufferList' = recvBufferList \o [i \in 1..count |-> SubSeq(buffer, 1, size)]

\* The guard on n keeps the copy inside recvBuffer.buffer, which the code
\* does not check.
Receive(n) ==
  LET chunk == SubSeq(inbound, 1, n)
      offset == Offset(recvBuffer.totalSize)
  IN /\ offset + n <= BufferSize
     /\ inbound' = SubSeq(inbound, n + 1, Len(inbound))
     /\ RecvDone(offset + n, Copied(recvBuffer.buffer, chunk, offset))
     /\ readOut' = readOut \o chunk
     /\ tidy' = (tidy /\ \A i \in 1..(n - 1) : ~EndsPacket(chunk[i]))
     /\ UNCHANGED taken

RecvPacket ==
  /\ mode = "running"
  /\ recvBufferList # <<>>
  /\ taken' = Append(taken, Head(recvBufferList))
  /\ recvBufferList' = Tail(recvBufferList)
  /\ UNCHANGED <<sock, sending, outside, recvBuffer, readOut, tidy>>
-----------------------------------------------------------------------------
(* UpdateServer. *)

\* accept() blocks the first time.  After it FIONBIO is set on serverSock, the
\* socket that listens; one that accept returns later has it from there.  Then
\* the greeting is sent; either call may fail, and the client is kept.
Accept ==
  /\ mode = "running" /\ ~clientSock
  /\ backlog > 0
  /\ backlog' = backlog - 1
  /\ clientSock' = TRUE
  /\ clientNonBlocking' = nonBlocking
  /\ peer' = "open" /\ inbound' = <<>>
  /\ \/ /\ nonBlocking' \in BOOLEAN
        /\ mode' = "stopped"
     \/ /\ nonBlocking' = TRUE
        /\ UNCHANGED mode
  /\ UNCHANGED <<sending, receiving, clients, incoming>>

\* The client in the backlog is gone already, or there is none.
AcceptFails ==
  /\ mode = "running" /\ ~clientSock
  /\ backlog > 0 \/ nonBlocking
  /\ backlog' = IF backlog > 0 THEN backlog - 1 ELSE 0
  /\ mode' = "stopped"
  /\ UNCHANGED <<clientSock, nonBlocking, clientNonBlocking, sending, receiving,
                 peer, inbound, clients, incoming>>

\* Nothing to read within the millisecond select waits: only the send.
UpdateIdle ==
  /\ mode = "running" /\ clientSock
  /\ inbound = <<>> /\ peer = "open"
  /\ Transmit
  /\ UNCHANGED <<sock, receiving, outside>>

UpdateReceive ==
  /\ mode = "running" /\ clientSock
  /\ \E n \in 1..Len(inbound) : Receive(n)
  /\ Transmit
  /\ UNCHANGED <<sock, backlog, peer, clients, incoming>>

\* recv returned 0 or -1.  No buffer is reset.
UpdateClosed ==
  /\ mode = "running" /\ clientSock
  /\ inbound = <<>> /\ peer = "gone"
  /\ clientSock' = FALSE
  /\ peer' = "none"
  /\ tidy' = (tidy /\ recvBuffer.totalSize <= 0)
  /\ UNCHANGED <<mode, nonBlocking, clientNonBlocking, sending, backlog, inbound,
                 clients, incoming, recvBuffer, recvBufferList, readOut, taken>>

Update == Accept \/ AcceptFails \/ UpdateIdle \/ UpdateReceive \/ UpdateClosed

UnInit ==
  /\ mode # "uninit"
  /\ mode' = "uninit"
  /\ clientSock' = FALSE
  /\ sendBufferList' = <<>> /\ recvBufferList' = <<>>
  /\ peer' = "none" /\ inbound' = <<>> /\ backlog' = 0
  /\ UNCHANGED <<nonBlocking, clientNonBlocking, sendBuffer, submitted, transmitted,
                 sendErrors, recvBuffer, readOut, taken, tidy, clients, incoming>>

Next ==
  \/ ClientArrives \/ ClientLeaves
  \/ \E size \in DataSizes : ClientSends(size)
  \/ \E size \in PacketSizes : SendPacket(size)
  \/ RecvPacket
  \/ Update
  \/ UnInit

Spec == Init /\ [][Next]_vars

\* main.cpp:62 and Network::Update call Update for ever while it returns true.
FairSpec == Spec /\ WF_vars(Update)
-----------------------------------------------------------------------------
(* Properties. *)
Unit == Nat \X Int
SizedPacket == [id : 1..MaxSubmitted, size : PacketSizes]
handed == taken \o recvBufferList
Held == SubSeq(recvBuffer.buffer, 1, recvBuffer.totalSize)

\* Types: the buffers keep their size.
TypeOK ==
  /\ mode \in {"running", "stopped", "uninit"}
  /\ {clientSock, nonBlocking, clientNonBlocking, tidy} \subseteq BOOLEAN
  /\ sendBuffer \in [id : 0..MaxSubmitted, totalSize : PacketSizes \cup {-1},
                     currentSize : (-MaxErrors)..BufferSize]
  /\ sendBufferList \in Seq(SizedPacket)
  /\ recvBuffer.totalSize \in -1..BufferSize
  /\ recvBuffer.buffer \in Seq(Unit) /\ Len(recvBuffer.buffer) = BufferSize
  /\ recvBufferList \in Seq(Seq(Unit))
  /\ sendErrors \in 0..MaxErrors
  /\ backlog \in 0..MaxClients /\ clients \in 0..MaxClients
  /\ peer \in {"none", "open", "gone"}
  /\ inbound \in Seq(Unit)
  /\ incoming \in Seq(DataSizes) /\ submitted \in Seq(PacketSizes)
  /\ transmitted \in Seq(Unit) /\ readOut \in Seq(Unit) /\ taken \in Seq(Seq(Unit))

UnitsOf(id, size) == [i \in 1..size |-> <<id, i>>]
Unsent ==
  LeftToSend \o FlattenSeq([i \in DOMAIN sendBufferList |->
                             UnitsOf(sendBufferList[i].id, sendBufferList[i].size)])

\* As long as no send() has failed, what was sent (to one client after the
\* other), the rest of sendBuffer and the list are together the packets given
\* to SendPacket: however send() cuts them up, none is lost, repeated or
\* overtaken (SendPacket, SendDone, UpdateServer).
EachUnitOnce ==
  mode # "uninit" /\ sendErrors = 0 =>
    transmitted \o Unsent = FlattenSeq([k \in DOMAIN submitted |-> UnitsOf(k, submitted[k])])

\* As long as no chunk goes on after the end of a packet and no client leaves in
\* the middle of one, RecvDone is right although it moves nothing to the front:
\* what recv returned is what was handed out, packet by packet, and what is held.
UnbatchedIsIntact ==
  mode # "uninit" /\ tidy =>
    /\ FlattenSeq(handed) \o Held = readOut
    /\ \A k \in DOMAIN handed : handed[k] = UnitsOf(handed[k][1][1], Len(handed[k]))
                                /\ EndsPacket(Last(handed[k]))

\* Between two Updates no whole packet, by the header at the front, waits in
\* recvBuffer: nothing but more bytes will make RecvDone look at it again.
NoWholePacketWaits ==
  recvBuffer.totalSize >= HeaderSize =>
    recvBuffer.totalSize < HeaderSize + DataSize(recvBuffer.buffer[1])

\* What was given to SendPacket is sent out, as long as the client stays, no
\* send() fails and the owner goes on calling Update.
WaitingIsSent ==
  Unsent # <<>> /\ clientSock ~>
    Unsent = <<>> \/ ~clientSock \/ sendErrors > 0 \/ mode # "running"

\* The packet in each place of recvBufferList is another one: RecvDone takes a
\* packet off the receive buffer and goes on with what is left behind it.
\* ("Is there any left?", SimpleSocket.cpp:479.)
HandedOnce ==
  \A j, k \in DOMAIN handed : handed[j] = handed[k] => j = k
=============================================================================
