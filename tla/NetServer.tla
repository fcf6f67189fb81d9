------------------------------ MODULE NetServer ------------------------------
(***************************************************************************)
(* server_interface<T> (net_server.h) with CustomServer of SimpleServer.cpp*)
(* on top: the container of connections shared, without a lock, by two     *)
(* threads.  The context thread accepts clients into it and runs every     *)
(* connection's handlers; the main thread runs Update, whose OnMessage     *)
(* walks over the container to broadcast and removes the dead.  A step is  *)
(* one call of a member of the deque, or of std::remove: between any two   *)
(* of them the other thread may run.                                       *)
(*                                                                         *)
(* A connection is a number, in the order of acceptance.  Its two message  *)
(* chains are those of Connection, reduced to what decides how long the    *)
(* object must live: the posted sends, the write and the read that hold    *)
(* its raw `this`.  m_qMessagesIn is the channel that TSQueue is proved to *)
(* be.                                                                     *)
(***************************************************************************)
EXTENDS Naturals, Sequences

CONSTANTS
  Nil,                  \* the null shared_ptr
  Kinds,                \* the messages clients send: "ping", "all", "direct"
  MayVanish,            \* whether a client may be gone before its accept runs
  MayDeny,              \* whether OnClientConnect may refuse a client
  MaxConns,             \* bound on the clients
  MaxMessages           \* bound on the messages of one client

ASSUME NetServerAssumption ==
  /\ MaxConns \in Nat /\ MaxMessages \in Nat
  /\ Nil \notin 1..MaxConns
  /\ Kinds \subseteq {"ping", "all", "direct"}
  /\ MayVanish \in BOOLEAN /\ MayDeny \in BOOLEAN

Conns == 1..MaxConns

VARIABLES
  \* the clients and the network
  backlog,              \* clients that connect and are not yet accepted
  peer,                 \* "up" or "gone", for each accepted client
  wire,                 \* the messages on their way to the server
  said,                 \* how many messages a client has sent
  \* the context thread
  armed,                \* an async_accept is outstanding
  ctx,                  \* "run", or inside the accept handler, or "dead"
  newconn,              \* the accept handler's local shared_ptr
  accepted,             \* connections approved so far
  ids,                  \* the ids given out, in order (nIDCounter)
  sock,                 \* m_socket of each connection
  posted,               \* number of sends posted to the context
  sendDeq,              \* length of m_sendDeq
  writing,              \* an async_write is outstanding
  reading,              \* number of async_reads outstanding
  \* shared
  conns,                \* m_deqConnections
  qIn,                  \* m_qMessagesIn
  \* the main thread
  main,                 \* "update", in the loop of "broadcast", or in a "remove"
  remote,               \* the owner of the message OnMessage handles
  idx, last,            \* MessageAllClients: next index, last index
  invalid,              \* bInvalidClientExists
  evaluated,            \* what erase(std::remove(begin, end, ..), end) has evaluated
  removeEnd, newEnd,    \* the end std::remove is given, the one it returns
  eraseEnd,             \* the end erase is given
  round,                \* history: broadcasts begun
  told,                 \* history: what each connection's Send was called with
  notified,             \* history: the calls of OnClientDisconnect
  torn                  \* history: one removal was given two different ends

clients == <<backlog, peer, wire, said>>
accepting == <<armed, newconn, accepted, ids>>
objects == <<sock, posted, sendDeq, writing, reading>>
mainLocal == <<remote, idx, last, invalid>>
removal == <<evaluated, removeEnd, newEnd, eraseEnd>>
history == <<round, told, notified, torn>>
vars == <<clients, accepting, ctx, objects, conns, qIn, main, mainLocal, removal,
          history>>

Accepted == 1..accepted

Init ==
  /\ backlog = 0
  /\ peer = [c \in Conns |-> "up"]
  /\ wire = [c \in Conns |-> <<>>]
  /\ said = [c \in Conns |-> 0]
  /\ armed = TRUE
  /\ ctx = "run"
  /\ newconn = Nil
  /\ accepted = 0
  /\ ids = <<>>
  /\ sock = [c \in Conns |-> "closed"]
  /\ posted = [c \in Conns |-> 0]
  /\ sendDeq = [c \in Conns |-> 0]
  /\ writing = [c \in Conns |-> FALSE]
  /\ reading = [c \in Conns |-> 0]
  /\ conns = <<>>
  /\ qIn = <<>>
  /\ main = "update"
  /\ remote = Nil
  /\ idx = 0 /\ last = 0
  /\ invalid = FALSE
  /\ evaluated = {}
  /\ removeEnd = 0 /\ newEnd = 0 /\ eraseEnd = 0
  /\ round = 0
  /\ told = [c \in Conns |-> <<>>]
  /\ notified = [c \in Conns |-> 0]
  /\ torn = FALSE

\* The connections that some shared_ptr still owns: an entry of the
\* container, the accept handler's local, an owned_message in the queue or
\* in OnMessage's hands.
Owned ==
  {c \in Accepted :
     \/ \E i \in DOMAIN conns : conns[i] = c
     \/ newconn = c
     \/ \E i \in DOMAIN qIn : qIn[i].remote = c
     \/ remote = c}

\* connection<T>::Send: post a task.
Post(c, m) ==
  /\ posted' = [posted EXCEPT ![c] = @ + 1]
  /\ told' = [told EXCEPT ![c] = Append(@, m)]

\* What of s is not null, in its order.  (Defined here, as the recursion it is,
\* to be reasoned about.)
Erased(s) ==
  LET kept[n \in 0..Len(s)] ==
        IF n = 0 THEN <<>>
        ELSE IF s[n] = Nil THEN kept[n - 1] ELSE Append(kept[n - 1], s[n])
  IN kept[Len(s)]

\* What std::remove leaves of the first n entries of s: those that are not null
\* are moved to the front, and each place they were moved from, or that was
\* null, is null behind them.
Compacted(s, n) ==
  LET kept == Erased(SubSeq(s, 1, n))
  IN [i \in DOMAIN s |-> IF i <= Len(kept) THEN kept[i] ELSE IF i <= n THEN Nil ELSE s[i]]

\* A null pointer or one from an empty deque is dereferenced: the process ends.
Crash == ctx' = "dead"

IsConnected(c) == c # Nil /\ sock[c] = "open"
-----------------------------------------------------------------------------
(* Clients.                                                                *)

ClientConnects ==
  /\ backlog + accepted < MaxConns
  /\ backlog' = backlog + 1
  /\ UNCHANGED <<peer, wire, said, accepting, ctx, objects, conns, qIn, main,
                 mainLocal, removal, history>>

ClientSends(c, kind) ==
  /\ c \in Accepted /\ peer[c] = "up" /\ said[c] < MaxMessages
  /\ said' = [said EXCEPT ![c] = @ + 1]
  /\ wire' = [wire EXCEPT ![c] = Append(@, kind)]
  /\ UNCHANGED <<backlog, peer, accepting, ctx, objects, conns, qIn, main,
                 mainLocal, removal, history>>

ClientLeaves(c) ==
  /\ c \in Accepted /\ peer[c] = "up"
  /\ peer' = [peer EXCEPT ![c] = "gone"]
  /\ UNCHANGED <<backlog, wire, said, accepting, ctx, objects, conns, qIn, main,
                 mainLocal, removal, history>>
-----------------------------------------------------------------------------
(* The accept handler (WaitForClientConnection).                           *)

\* Faulty: approved without a word.
ApproveSilently(c) == UNCHANGED <<posted, told>>
\* CustomServer sends ServerAccept and approves every client.
OnClientConnect(c) == Post(c, 0)

\* Faulty: no async_accept.
WaitForNobody == armed' = FALSE
WaitForClientConnection == armed' = TRUE

\* A new connection is made and shown to OnClientConnect, which approves it.
Accept ==
  /\ ctx = "run" /\ armed /\ backlog > 0
  /\ LET c == accepted + 1
     IN /\ accepted' = c
        /\ newconn' = c
        /\ sock' = [sock EXCEPT ![c] = "open"]
        /\ OnClientConnect(c)
  /\ backlog' = backlog - 1
  /\ armed' = FALSE
  /\ ctx' = "approved"
  /\ UNCHANGED <<peer, wire, said, ids, sendDeq, writing, reading, conns, qIn, main,
                 mainLocal, removal, round, notified, torn>>

\* OnClientConnect refuses it, as the one of server_interface itself does: the
\* connection is destroyed, and the next client is waited for.
AcceptDenied ==
  /\ MayDeny
  /\ ctx = "run" /\ armed /\ backlog > 0
  /\ backlog' = backlog - 1
  /\ WaitForClientConnection
  /\ UNCHANGED <<peer, wire, said, newconn, accepted, ids, ctx, objects, conns, qIn,
                 main, mainLocal, removal, history>>

\* accept reports an error: nothing but the next async_accept.
AcceptError ==
  /\ ctx = "run" /\ armed /\ backlog > 0
  /\ backlog' = backlog - 1
  /\ WaitForClientConnection
  /\ UNCHANGED <<peer, wire, said, newconn, accepted, ids, ctx, objects, conns, qIn,
                 main, mainLocal, removal, history>>

\* socket.remote_endpoint() throws for a peer that is gone already, and no
\* handler catches it: it leaves m_asioContext.run() and the thread.
AcceptThrows ==
  /\ MayVanish
  /\ ctx = "run" /\ armed /\ backlog > 0
  /\ backlog' = backlog - 1
  /\ armed' = FALSE
  /\ Crash
  /\ UNCHANGED <<peer, wire, said, newconn, accepted, ids, objects, conns, qIn,
                 main, mainLocal, removal, history>>

\* Faulty: the newcomer goes to the front, where back() does not find it.
PushedFront(c) == <<c>> \o conns
Pushed(c) == Append(conns, c)

\* m_deqConnections.push_back.  A broadcast that is under way meanwhile goes
\* on with the end it took when it started, or runs on to the new one.
PushBack ==
  /\ ctx = "approved"
  /\ conns' = Pushed(newconn)
  /\ last' \in IF main = "broadcast" THEN {last, Len(conns')} ELSE {last}
  /\ newconn' = Nil
  /\ ctx' = "pushed"
  /\ UNCHANGED <<clients, armed, accepted, ids, objects, qIn, main, remote, idx,
                 invalid, removal, history>>

\* m_deqConnections.back() is a connection.  (Of an empty deque it is undefined.)
BackIsThere == conns # <<>> /\ conns[Len(conns)] # Nil

\* Faulty: front() for back().
Front == conns[1]
Back == conns[Len(conns)]

\* m_deqConnections.back()->ConnectToClient(nIDCounter++): give it its id and
\* start reading, whether it reads already or not.
ConnectBack ==
  /\ ctx = "pushed" /\ BackIsThere
  /\ ids' = Append(ids, Back)
  /\ reading' = [reading EXCEPT ![Back] = IF sock[Back] = "open" THEN @ + 1 ELSE @]
  /\ ctx' = "connected"
  /\ UNCHANGED <<clients, armed, newconn, accepted, sock, posted, sendDeq, writing, conns,
                 qIn, main, mainLocal, removal, history>>

\* back() once more, for its id; then the handler waits for the next client.
PrintBack ==
  /\ ctx = "connected" /\ BackIsThere
  /\ WaitForClientConnection
  /\ ctx' = "run"
  /\ UNCHANGED <<clients, newconn, accepted, ids, objects, conns, qIn, main, mainLocal,
                 removal, history>>

\* Either finds null there, or nothing.
BackIsNull ==
  /\ ctx \in {"pushed", "connected"} /\ ~ BackIsThere
  /\ Crash
  /\ UNCHANGED <<clients, accepting, objects, conns, qIn, main, mainLocal, removal, history>>
-----------------------------------------------------------------------------
(* The handlers of a connection, as long as it exists.                     *)

Runs(c) == ctx = "run" /\ c \in Owned

RunSend(c) ==
  /\ Runs(c)
  /\ posted[c] > 0
  /\ posted' = [posted EXCEPT ![c] = @ - 1]
  /\ sendDeq' = [sendDeq EXCEPT ![c] = @ + 1]
  /\ writing' = [writing EXCEPT ![c] = @ \/ sendDeq[c] = 0]
  /\ UNCHANGED <<clients, accepting, ctx, sock, reading, conns, qIn, main,
                 mainLocal, removal, history>>

\* Faulty: the next write starts without a test of the deque.
AlwaysMore(c) == TRUE
MoreToWrite(c) == sendDeq[c] > 1

\* The front of m_sendDeq is written and the next one starts; or the write
\* fails, which closes the socket and leaves the deque as it is.
WriteDone(c) ==
  /\ Runs(c)
  /\ writing[c]
  /\ \/ /\ sock[c] = "open"
        /\ sendDeq' = [sendDeq EXCEPT ![c] = @ - 1]
        /\ writing' = [writing EXCEPT ![c] = MoreToWrite(c)]
        /\ UNCHANGED sock
     \/ /\ sock[c] = "closed" \/ peer[c] = "gone"
        /\ sock' = [sock EXCEPT ![c] = "closed"]
        /\ writing' = [writing EXCEPT ![c] = FALSE]
        /\ UNCHANGED sendDeq
  /\ UNCHANGED <<clients, accepting, ctx, posted, reading, conns, qIn, main,
                 mainLocal, removal, history>>

\* AddToIncomingMessageQueue takes a shared_ptr along.  What two reads make of
\* one stream, each taking a part of it, may be any message.
ReadMessage(c) ==
  /\ Runs(c)
  /\ reading[c] > 0 /\ sock[c] = "open"
  /\ wire[c] # <<>>
  /\ wire' = [wire EXCEPT ![c] = Tail(@)]
  /\ \E kind \in IF reading[c] = 1 THEN {Head(wire[c])} ELSE Kinds :
       qIn' = Append(qIn, [remote |-> c, kind |-> kind])
  /\ UNCHANGED <<backlog, peer, said, accepting, ctx, objects, conns, main,
                 mainLocal, removal, history>>

ReadError(c) ==
  /\ Runs(c)
  /\ reading[c] > 0
  /\ sock[c] = "closed" \/ peer[c] = "gone"
  /\ reading' = [reading EXCEPT ![c] = @ - 1]
  /\ sock' = [sock EXCEPT ![c] = "closed"]
  /\ UNCHANGED <<clients, accepting, ctx, posted, sendDeq, writing, conns, qIn,
                 main, mainLocal, removal, history>>
-----------------------------------------------------------------------------
(* The main thread: Update, OnMessage, MessageClient, MessageAllClients.   *)

Alive == ctx # "dead"

OnClientDisconnect(c) == notified' = [notified EXCEPT ![c] = @ + 1]

\* ServerPing goes back to its sender.
OnPing ==
  /\ Alive /\ main = "update"
  /\ qIn # <<>> /\ Head(qIn).kind = "ping"
  /\ Post(Head(qIn).remote, 0)
  /\ qIn' = Tail(qIn)
  /\ UNCHANGED <<clients, accepting, ctx, sock, sendDeq, writing, reading, conns, main,
                 mainLocal, removal, round, notified, torn>>

\* An answer through MessageClient.  Its parameter is a copy of the
\* shared_ptr: after client.reset() it is null, and null is what is removed.
MessageClient ==
  /\ Alive /\ main = "update"
  /\ qIn # <<>> /\ Head(qIn).kind = "direct"
  /\ qIn' = Tail(qIn)
  /\ LET client == Head(qIn).remote
     IN IF IsConnected(client)
        THEN /\ Post(client, 0)
             /\ UNCHANGED <<main, remote, notified>>
        ELSE /\ OnClientDisconnect(client)
             /\ main' = "remove"
             /\ remote' = client
             /\ UNCHANGED <<posted, told>>
  /\ UNCHANGED <<clients, accepting, ctx, sock, sendDeq, writing, reading, conns, idx,
                 last, invalid, removal, round, torn>>

\* MessageAll: MessageAllClients(msg, client) begins.
BroadcastStart ==
  /\ Alive /\ main = "update"
  /\ qIn # <<>> /\ Head(qIn).kind = "all"
  /\ remote' = Head(qIn).remote
  /\ qIn' = Tail(qIn)
  /\ idx' = 1
  /\ last' = Len(conns)
  /\ invalid' = FALSE
  /\ round' = round + 1
  /\ main' = "broadcast"
  /\ UNCHANGED <<clients, accepting, ctx, objects, conns, removal, told, notified, torn>>

\* Faulty: the dead client stays where it is.
KeepEntry == UNCHANGED <<conns, invalid>>
\* Faulty: the flag that there is something to remove is not set.
ResetUnflagged == conns' = [conns EXCEPT ![idx] = Nil] /\ UNCHANGED invalid
ResetEntry == conns' = [conns EXCEPT ![idx] = Nil] /\ invalid' = TRUE

\* Faulty: nobody is excepted.
NoneIgnored(client) == FALSE
Ignored(client) == client = remote

\* One turn of the loop: a connection that is connected is sent the message,
\* any other is reported and its entry becomes null.
BroadcastVisit ==
  /\ Alive /\ main = "broadcast"
  /\ idx <= last /\ conns[idx] # Nil
  /\ idx' = idx + 1
  /\ LET client == conns[idx]
     IN IF IsConnected(client)
        THEN /\ IF Ignored(client)
                THEN UNCHANGED <<posted, told>>
                ELSE Post(client, round)
             /\ UNCHANGED <<conns, invalid, notified>>
        ELSE /\ OnClientDisconnect(client)
             /\ ResetEntry
             /\ UNCHANGED <<posted, told>>
  /\ UNCHANGED <<clients, accepting, ctx, sock, sendDeq, writing, reading, qIn, main,
                 remote, last, removal, round, torn>>

\* An entry that is null already is reported too: CustomServer asks it its id.
BroadcastVisitsNull ==
  /\ Alive /\ main = "broadcast"
  /\ idx <= last /\ conns[idx] = Nil
  /\ Crash
  /\ UNCHANGED <<clients, accepting, objects, conns, qIn, main, mainLocal, removal, history>>

\* After the loop: what is dead is removed, all in one go, and OnMessage returns.
BroadcastEnd ==
  /\ Alive /\ main = "broadcast"
  /\ idx > last
  /\ IF invalid
     THEN main' = "remove" /\ UNCHANGED remote
     ELSE main' = "update" /\ remote' = Nil
  /\ UNCHANGED <<clients, accepting, ctx, objects, conns, qIn, idx, last, invalid,
                 removal, history>>
-----------------------------------------------------------------------------
(* erase(std::remove(begin(), end(), null), end()).  The arguments of erase*)
(* may be evaluated in any order: its own end() before or after the others.*)

Removing == Alive /\ main = "remove"

RemoveRange ==
  /\ Removing /\ "range" \notin evaluated
  /\ removeEnd' = Len(conns)
  /\ evaluated' = evaluated \cup {"range"}
  /\ UNCHANGED <<clients, accepting, ctx, objects, conns, qIn, main, mainLocal, newEnd,
                 eraseEnd, history>>

RemoveNulls ==
  /\ Removing /\ "range" \in evaluated /\ "remove" \notin evaluated
  /\ conns' = Compacted(conns, removeEnd)
  /\ newEnd' = Len(Erased(SubSeq(conns, 1, removeEnd)))
  /\ evaluated' = evaluated \cup {"remove"}
  /\ UNCHANGED <<clients, accepting, ctx, objects, qIn, main, mainLocal, removeEnd,
                 eraseEnd, history>>

EraseEnd ==
  /\ Removing /\ "end" \notin evaluated
  /\ eraseEnd' = Len(conns)
  /\ evaluated' = evaluated \cup {"end"}
  /\ UNCHANGED <<clients, accepting, ctx, objects, conns, qIn, main, mainLocal, removeEnd,
                 newEnd, history>>

Evaluated == Removing /\ evaluated = {"range", "remove", "end"}

\* Faulty: one too many.
Cut == SubSeq(conns, 1, newEnd) \o SubSeq(conns, eraseEnd + 2, Len(conns))
Erasure == SubSeq(conns, 1, newEnd) \o SubSeq(conns, eraseEnd + 1, Len(conns))

\* The range from the new end to the end is erased, and OnMessage returns.
Erase ==
  /\ Evaluated /\ newEnd <= eraseEnd
  /\ conns' = Erasure
  /\ torn' = (torn \/ removeEnd # eraseEnd)
  /\ evaluated' = {}
  /\ main' = "update"
  /\ remote' = Nil
  /\ UNCHANGED <<clients, accepting, ctx, objects, qIn, idx, last, invalid, removeEnd,
                 newEnd, eraseEnd, round, told, notified>>

\* A range that ends before it begins: the deque is destroyed.
EraseBackwards ==
  /\ Evaluated /\ newEnd > eraseEnd
  /\ Crash
  /\ UNCHANGED <<clients, accepting, objects, conns, qIn, main, mainLocal, removal, history>>
-----------------------------------------------------------------------------
AcceptStep ==
  Accept \/ AcceptDenied \/ AcceptError \/ PushBack \/ ConnectBack \/ PrintBack \/ BackIsNull
HandlerStep(c) == RunSend(c) \/ WriteDone(c) \/ ReadMessage(c) \/ ReadError(c)
MainStep ==
  \/ OnPing \/ MessageClient
  \/ BroadcastStart \/ BroadcastVisit \/ BroadcastVisitsNull \/ BroadcastEnd
  \/ RemoveRange \/ RemoveNulls \/ EraseEnd \/ Erase \/ EraseBackwards

Next ==
  \/ ClientConnects
  \/ \E c \in Conns : (\E kind \in Kinds : ClientSends(c, kind)) \/ ClientLeaves(c)
  \/ AcceptStep \/ AcceptThrows
  \/ \E c \in Conns : HandlerStep(c)
  \/ MainStep

Spec == Init /\ [][Next]_vars

\* Both threads run.  (That Update wakes up for every message is TSQueue's
\* concern.)
Fairness ==
  /\ WF_vars(AcceptStep)
  /\ \A c \in Conns : WF_vars(HandlerStep(c))
  /\ WF_vars(MainStep)

FairSpec == Spec /\ Fairness
-----------------------------------------------------------------------------
(* Properties                                                              *)

TypeOK ==
  /\ backlog \in 0..MaxConns
  /\ peer \in [Conns -> {"up", "gone"}]
  /\ \A c \in Conns : wire[c] \in Seq(Kinds)
  /\ said \in [Conns -> 0..MaxMessages]
  /\ armed \in BOOLEAN
  /\ ctx \in {"run", "approved", "pushed", "connected", "dead"}
  /\ newconn \in Conns \cup {Nil}
  /\ accepted \in 0..MaxConns
  /\ ids \in Seq(Accepted)
  /\ sock \in [Conns -> {"open", "closed"}]
  /\ posted \in [Conns -> Nat]
  /\ sendDeq \in [Conns -> Nat]
  /\ writing \in [Conns -> BOOLEAN]
  /\ reading \in [Conns -> Nat]
  /\ conns \in Seq(Accepted \cup {Nil})
  /\ qIn \in Seq([remote : Accepted, kind : Kinds])
  /\ main \in {"update", "broadcast", "remove"}
  /\ remote \in Accepted \cup {Nil}
  /\ idx \in Nat /\ last \in Nat
  /\ invalid \in BOOLEAN
  /\ evaluated \subseteq {"range", "remove", "end"}
  /\ removeEnd \in Nat /\ newEnd \in Nat /\ eraseEnd \in Nat
  /\ round \in Nat
  /\ \A c \in Conns : told[c] \in Seq(0..round)
  /\ notified \in [Conns -> Nat]
  /\ torn \in BOOLEAN

InContainer(c) == \E i \in DOMAIN conns : conns[i] = c

\* Null entries are there only from the turn of the loop that makes them to
\* the erase that ends the removal: none is left for the next broadcast, which
\* would report it with OnClientDisconnect(nullptr).  The one cause that leaves
\* some is a push_back between the two end() of one removal
\* (net_server.h:166-178, SimpleServer.cpp:33-36).
NoHoles ==
  ~ torn => \A i \in DOMAIN conns : conns[i] = Nil =>
              \/ main = "broadcast" /\ i < idx /\ invalid
              \/ main = "remove" /\ ("range" \in evaluated => i <= removeEnd)

\* Between push_back and the last back() of the accept handler the main thread
\* may null, move and erase entries.  Until some removal is given two ends, the
\* newcomer is then at the back, or the main thread is between its std::remove
\* and its erase, and the newcomer is the last that std::remove has kept
\* (net_server.h:94-100, 142-143, 176-178).
BackIsNewcomer ==
  ctx \in {"pushed", "connected"} /\ ~ torn =>
    \/ BackIsThere /\ Back = accepted
    \/ "remove" \in evaluated /\ Len(conns) = removeEnd
         /\ newEnd > 0 /\ conns[newEnd] = accepted

\* Each connection gets an id of its own, in the order of acceptance, as long
\* as no removal is given two ends: whatever the main thread does, back() is
\* the newcomer or the handler fails (net_server.h:98).
EachItsOwnId ==
  ~ torn => \A k \in DOMAIN ids : ids[k] = k

\* A client that was reported as disconnected is no longer in the container
\* when OnMessage returns; "Then physically remove it from the container"
\* (net_server.h:134-143).
ReportedIsRemoved ==
  main = "update" => \A c \in Accepted : notified[c] > 0 => ~ InContainer(c)

\* A broadcast goes to every client it finds connected, its originator
\* excepted, and to nobody else (net_server.h:153-161).
BroadcastReachesAll ==
  main = "broadcast" /\ idx > last =>
    \A i \in 1..last : conns[i] # Nil =>
      ((\E k \in DOMAIN told[conns[i]] : told[conns[i]][k] = round)
         <=> conns[i] # remote)

\* The first message of a connection that the main thread can see is its
\* ServerAccept, and every connection sees the broadcasts in one order, each
\* at most once: the accept handler sends before it publishes.
ToldInOrder ==
  \A i \in DOMAIN conns : conns[i] # Nil =>
    LET t == told[conns[i]]
    IN /\ t # <<>> /\ t[1] = 0
       /\ \A j, k \in DOMAIN t : j < k /\ t[j] # 0 /\ t[k] # 0 => t[j] < t[k]

\* A connection whose socket is open is never taken out of the container,
\* except one that was pushed after std::remove was given its end: erase,
\* given a later one, takes it for dead (net_server.h:174-178).
OnlyDeadOrLateLeave ==
  [][\A c \in Accepted : InContainer(c) /\ sock[c] = "open" =>
       \/ InContainer(c)'
       \/ Evaluated /\ \E i \in (removeEnd + 1)..eraseEnd : conns[i] = c]_vars

\* A connection that is dead when a broadcast starts is out of the container
\* some time after, unless the process ends before (net_server.h:150-178).
DeadIsSwept ==
  \A c \in Conns :
    (main = "broadcast" /\ idx = 1 /\ sock[c] = "closed"
       /\ \E i \in 1..last : conns[i] = c)
      ~> ~ InContainer(c) \/ ~ Alive

\* After every client it has approved or denied, and every accept that failed,
\* the server waits for the next, as long as the process lives: "Prime the asio
\* context with more work" (net_server.h:116-118).  It does not outlive a client
\* that is gone before the accept handler asks for its address (line 81).
KeepsAccepting == []<>(armed \/ ~ Alive)

\* "we dont invalidate the container as we iterated through it"
\* (net_server.h:174-175): while the main thread is in its loop over
\* m_deqConnections, nothing is added to it or taken out of it.
IterationUndisturbed ==
  [][main = "broadcast" /\ main' = "broadcast" => Len(conns') = Len(conns)]_vars
=============================================================================
