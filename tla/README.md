# NetworkStudy in TLA+

Specifications of the networking code in this repository, model-checked with TLC;
their invariants, action properties and refinements are proved with TLAPS. Paths below are relative to `src/`;
`NetCommon/` is `boost_asio_olc/NetCommon/`.

The repository holds two generations of the same idea:

* **`boost_asio_olc/`**: a small framework over asio (`NetCommon/*.h`) with one
  server and one client on top. This is the later and larger part, with two
  threads in each process and callbacks everywhere, and the part modelled first.
* **the WinSock code in the root**: `SimpleSocket` with `Network` and `Commander`
  around it, and a `select` server (`NewServer.*`, `Server.cpp`), with helpers.

## 1. The system

| Part | State it keeps | Operations | Module |
|---|---|---|---|
| `tsqueue` (`net_tsqueue.h`) | a deque, `muxQueue`, `muxBlocking`, `cvBlocking` | `push_back`, `push_front`, `pop_front`, `pop_back`, `empty`, `wait` | `TSQueue` |
| `server_interface::Update` (`net_server.h:182`) | a counter, the message in hand | waits, pops, calls `OnMessage` | `TSQueue` |
| `connection` (`net_connection.h`) | `m_socket`, `m_sendDeq`, `m_tempMsg`, the tasks and operations asio holds for it | `Send`, `Disconnect`, `ConnectToClient`/`ConnectToServer`, the handlers of `WriteHeader`, `WriteBody`, `ReadHeader`, `ReadBody` | `Connection` |
| `message` (`net_message.h`) | header (id, size), body | `<<`, `>>`, `size` | `Connection` (size), `NetClient` (`<<`, `>>`) |
| `server_interface` (`net_server.h`) with `CustomServer` (`SimpleServer.cpp`) | `m_deqConnections`, `nIDCounter`, `m_qMessagesIn` | `WaitForClientConnection`, `MessageClient`, `MessageAllClients`, `OnClientConnect`, `OnClientDisconnect`, `OnMessage` | `NetServer` |
| `client_interface` (`net_client.h`) with `CustomClient` | context, thread, `m_connection` | `Connect`, `Disconnect`, `IsConnected`, `Send` | `NetClient` |
| `SimpleSocket` (server build) | two sockets, send and receive buffer, a list for each | `Update`, `SendPacket`, `RecvPacket`, `UnInit` | `SimpleSocket` |
| `Network`, `Commander` | `enable`, a command list | none has an effect in the server build | none |
| select server (`NewServer.*`, `Server.cpp`) | `masterfds`, `tempfds`, `maxfd`, `buffer`, three callbacks | `Init`, `Loop`, `HandleNewConnection`, `RecvInputFromExisting`, `Shutdown` | `SelectServer` |
| console client (`Client.cpp`) | a socket, a buffer | `main` | in `SelectServer` |
| `MemDB`, `Logger`, `Utils`, `TCP_Socket`, `main.cpp`, `AsioProject.cpp`, `NetworkThread` | see `PROJECT.json` | | none |

How they interact. A server process has two threads. The **context thread** runs
asio: the accept handler, which adds to `m_deqConnections`, and every connection's
handlers, which end in `m_recvDeq.push_back`. The **main thread** runs `Update`,
which pops that queue and calls `OnMessage`, which posts sends to connections
and walks over `m_deqConnections`. A client process has the same two threads and
one connection. `m_deqConnections` is shared without a lock; the queue has its
own; connections are reached only through `asio::post`, except for
`IsConnected`, which reads the socket on the caller's thread. `SimpleSocket` has
one thread, its owner's, and all its difficulty in partial `send` and `recv`. The
select servers have one thread, which goes through a *copy* of its descriptors while
clients and kernel go on; `NewServer` calls its owner back from inside that loop.

What is hard here, and what must be right:

* **the queue**: two mutexes and a condition variable; a test and a pop in separate
  critical sections. It must be a channel, must not deadlock, and a push must be
  noticed by whoever waits.
* **a connection**: a message is written in two operations and read in two, each
  started by the handler of the one before. One write at a time; chains that never
  break; the reader in step with the stream; everything sent arrives in order or the
  connection is closed; a close is noticed at the other end.
* **the server**: a container read, nulled, compacted and extended by two threads;
  owners of connections that come and go. Each dead client reported once and
  removed, no live one removed, the newcomer the one that is given the new id, a broadcast
  to exactly the others, accept always on. Not all of it holds: section 4.
* **SimpleSocket**: packets in pieces and in bunches, failing calls, a second client
  after the first. Bytes conserved and in order both ways.

* **the client**: `IsConnected` looks at a socket the other thread opens and closes; a
  context that is stopped with work outstanding. What the user is told is true; the client
  ends when the server is gone; nothing runs after the join.
* **the select servers**: descriptors that are closed and used again, or that do not fit
  into `fd_set` or 16 bits; one buffer for all. The loop never blocks, looks at every
  client, starves none, and tells its owner who is there.

Each hazard stands at its line in `PROJECT.json`, with the properties that cover it.

## 2. Plan

1. `Channel`, the abstract specification: a FIFO that delivers each item once. *(done)*
2. `TSQueue`, refined to `Channel`; its invariants and the refinement proved. *(done)*
3. `Connection`: two ends and the network; each direction refines `Channel`. *(done)*
4. `NetServer`: the two threads over the container. *(done)*
5. `SimpleSocket`: the buffers. *(done)*
6. `NetClient`: connect, `IsConnected` while connecting, `Disconnect` against
   `context.stop()`, and the pointer that is released instead of destroyed; with
   `message`'s `<<` and `>>`. Its `QuietAfterJoin` proved. *(done)*
7. `SelectServer`: the descriptor set, the copy `select` works on, callbacks. Its
   `MembersAreOpen`, `LoopReachesAll` and `NeverBlocks` proved. *(done)*
8. Proofs of every invariant of a passing run, of the two action properties and of the
   refinements (section 5). *(done)*
9. Left: an abstract specification of `NetServer` (a room whose members all get the same
   messages in one order) with `NetServer` shown to implement it; the order in which one
   `SimpleSocket` hands packets over, as a refinement of `Channel`.

`TSQueue` and `Connection` are composed by their abstraction: what `NetServer` needs
of the queue is that it is a `Channel`, which is proved, and what it needs of a
connection is how long a posted send, a write and a read keep it busy.
No module uses a RECURSIVE operator, so all can be proved about: `Erased` of `NetServer`,
what `std::remove` keeps, is a recursive function for that reason.

## 3. The modules

Names are the source's. An operator that precedes a definition of the model and is
commented "Faulty" is that definition with a plausible bug in it; it is used only to
show that a property notices. `MC*` modules give the constants their values.

**Channel.** `sent`, `delivered`; `Accept` and `Deliver`.

**TSQueue.** One action per critical section or blocking call: `Push` takes
`muxQueue` and inserts, `LockBlocking` takes `muxBlocking` inside it, `NotifyOne`
wakes a waiter and frees both. `wait()` is `WaitEmpty`, `WaitLock`, `CvWait`,
`WaitRelock`, `WaitUnlock`, with `SpuriousWakeup`; note that it tests `empty()`
*before* it takes `muxBlocking`, and that `cvBlocking.wait` has no predicate.
`UpdateLoop`, `Pop` and `HandleMessage` are the rest of `Update`. An item is the
number of its push. `pop_front` on an empty deque is undefined, so `Pop` has that
as a guard and `PopPrecondition` says the guard never stops anyone.

**Connection.** Both ends of one link. `Send` and `Disconnect` post; `Handle` is the
application taking a message (the server echoes pings); `Start`, `RunSend`, `RunClose`,
`WriteHandler` and `ReadHandler` are what the context thread runs; `WriteOk`,
`WriteError`, `ReadOk`, `ReadError` and `Reset` are the kernel. Completion and handler
are separate actions, for anything may happen between them. A header and a body each
travel as one token: `async_read` and `async_write` hide how TCP cuts them up. The
message in `m_tempMsg` is kept from one message to the next, as in the code. A body's
units carry the number of the message, so that two bodies are never equal by accident.

**NetServer.** A step is one call of a member of the deque, or of `std::remove`, by either
thread. The accept handler is `Accept` with `OnClientConnect`, `PushBack`, `ConnectBack`
(`back()` and the new id) and `PrintBack` (`back()` again); `AcceptDenied` is its other branch,
`AcceptError` and `AcceptThrows` the two ways it fails, `BackIsNull` what becomes of it when
`back()` is null. The handlers of a connection are reduced to how many sends are posted and
queued and whether a write and how many reads are outstanding. The main thread is `OnPing`,
`MessageClient`, and `MessageAllClients` in one step per entry (`BroadcastVisit`,
`BroadcastVisitsNull`). The removal both end with, `erase(std::remove(begin(), end(), ..), end())`, is
`RemoveRange` (the range of `std::remove`), `RemoveNulls`, `EraseEnd` (the `end()` of `erase`) and
`Erase`; C++ leaves open whether `EraseEnd` comes before or after the other two, and so does
the model. The accept handler may run between any two of them: null may then be at the back,
nulls may stay, and a connected newcomer may be erased. `torn` records that a removal was given
two different ends. A connection is the number of its acceptance.

`m_deqConnections` is accessed by both threads without a lock, which is undefined behaviour. The
model has every interleaving of whole calls, and for a `for` loop under way during a `push_back` that it
may end where it would have ended or run on to the new end. It does not have two calls that
tear each other *inside* the deque, nor an iterator that `push_back` has made useless: what such a
race makes of memory no model says, and `srv_iteration` shows that it happens. The handlers of a
connection that no `shared_ptr` owns any more do not run in the model (`Runs`): in the code they
would use freed memory. A second `ConnectToClient` on one connection would start a second read, which
the model has: what two reads make of one stream may be any message.

**SimpleSocket.** The owner's calls (`SendPacket`, `RecvPacket`, `Update`, `UnInit`),
the clients and the kernel's buffer. `Update` is `Accept`, `AcceptFails`, `UpdateIdle`,
`UpdateReceive` or `UpdateClosed`. Bytes are counted in units that know their packet
and their place in it. `RecvDone`'s loop is given by its result: because nothing is
moved to the front, it takes the same first packet `total \div size` times. `send` may take
any part of what it is given or fail, `recv` may return any part of what is there.
The greeting of `Accept`, which is not a packet, is not recorded.

**NetClient.** The main thread is `SimpleClient`'s loop, one turn of which is `Keys`
(any of the three keys may have gone down), `Send` and `Post` for each message (the test of
`IsConnected` and the post are two steps, for the socket may be closed between them) and
`Receive`; then `Disconnect`, `Stop`, `Join`, `Release`. The context thread takes up what is
due and runs it in a second step, so that `context.stop()` may fall in between; `RunReturns`
is the end of `run()`, by the stop or for lack of work, after which the context stays stopped.
The operations on the socket are `none`, `pending` or complete (`ok`, `error`) with their
handler due. A message is its id and body; the time in a ping is `TimeUnits` units, all with
the number of the ping, so that one that is cut or mixed shows. The server is reduced to what
`OnMessage` and `OnClientConnect` send this client. `MaxConnects = 2` lets the owner connect
again after `Disconnect`, which `client_interface` permits and `SimpleClient` does not do.

**SelectServer.** `program` says which of the two servers runs. `Select` takes the copy,
`Visit` is the head of the `for` loop, and each call it leads to is one action:
`AcceptClient`, `AcceptFails`, `RecvSome`, `RecvEnd`, `RecvError`. `SelectFails` enters the loop
with the whole set, as the code does, after closing `masterSocket`. Between any two of them
clients connect, send (`Turn`) and leave or are reset, and the owner may shut down. The
descriptor `accept` returns is any that is free. `told` is the book an owner keeps that
believes the callbacks: after an `accept` that failed it has a client 65535 that never existed
(`Stranger`), because `HandleNewConnection` reports its -1 like any other number; `overlooked` are the clients that came when the set was full. Bytes are
counted in units, numbered from 1 again when a client has sent `MaxSends` messages and all are
read, so that it may send for ever (`SendNext`); a message is text followed by zeroes, as `Client.cpp` sends it, and
`receiveCallback` gets the text up to the first zero. The code is WinSock code: `select` ignores
its first argument, and a socket inherits from `masterSocket` whether it blocks, so that in
`Server.cpp` a `recv` with nothing to read fails (`WouldBlock`) and in `NewServer` waits.

## 4. The runs

| Run | Question | Result |
|---|---|---|
| `tsq_ends` | two threads push at both ends, the consumer pops at both: lock order, no pop from an empty deque, each item in one place | holds |
| `tsq_fifo` | `push_back` + `pop_front` refines `Channel`; a push that meets a sleeping consumer gets the queue drained | holds |
| `tsq_lost_wakeup` | is every message that arrives handled? | **no** (finding 1) |
| `conn_echo` | both ends with pings, disconnects and resets: one write, unbroken chains, framing, both directions refine `Channel`, everything arrives or the link closes, closes are noticed | holds |
| `conn_stale_body` | is `header.size` the size of the body received? | **no** (finding 2) |
| `srv_broadcast` | two clients come, are refused or gone too early, ping, broadcast, are answered and leave, while the container is nulled, moved and erased call by call: null entries, the newcomer and its id, recipients, order, who is taken out; the dead go, and the server goes back to accepting | holds |
| `srv_direct` | is a client that was reported as disconnected out of the container? | **no** (finding 5) |
| `srv_iteration` | is the container left alone while it is iterated over? | **no** (finding 3) |
| `sock_buffers` | packets in pieces, two clients, failing calls: sent exactly once and in order; received intact if never batched; queued packets go out | holds |
| `sock_repeated` | are the packets handed out distinct? | **no** (finding 4) |
| `client_life` | early and late sends, failing connects, a server that goes: "Server Down" is never said with a connection up, nor while one is on its way, except after a write that came too early; the client ends when the server does, pings come back whole and in order, nothing runs after the join | holds |
| `select_servers` | both programs, clients that come, send and leave while the loop is at work: the set is the connections, every one is reached, no call blocks, how far the owner's book can be trusted, the shared buffer, clients that send for ever starve nobody | holds |

Every property of a passing run has a mutant: a plausible bug, listed in
`PROJECT.json`, with which TLC finds that property violated under the same
configuration.

### Findings

1. **Lost wakeup** (`net_tsqueue.h:74`). Between `empty()` in `wait()` and
   `cvBlocking.wait`, a push may insert and notify. Nobody is waiting yet, and then
   the consumer sleeps on a non-empty queue until the next message. `WakeupDrains`
   holds because it starts from a consumer that already sleeps.
2. **Stale body** (`net_connection.h:408`). A message without a body that follows
   one with a body arrives with the earlier body: `m_tempMsg.body` is not cleared.
   In SimpleServer's protocol that is every `MessageAll` after a ping. The `Channel`
   refinement holds for what the header announces.
3. **Iterators invalidated** (`net_server.h:94`). The accept handler's `push_back`
   runs on the other thread while `MessageAllClients` iterates, although that function
   takes care not to invalidate the container itself.
4. **The first packet twice** (`SimpleSocket.cpp:486`). Two packets in one chunk are
   delivered as the first one twice. `UnbatchedIsIntact` says when the code is right:
   no chunk goes past the end of a packet, and no client leaves inside one.
5. **Reported and not removed** (`net_server.h:139`). `MessageClient` resets its own copy of the
   pointer and then removes the entries equal to it, that is none. The entry stays until the
   next broadcast, which reports the client a second time. SimpleServer never calls
   `MessageClient`; a server that answers through it would.

Seen while modelling, without a run of their own, and not contradicted by a property:

* The removal in `MessageAllClients` (`net_server.h:176-178`) against the accept handler
  (94-100), with every call by itself whole. Between `std::remove` and `erase` null is at the
  back, and `back()` is dereferenced: the process ends (`BackIsNull`). A `push_back` after
  `std::remove` was given its end and before `erase` was given its own takes a client that is connected
  out of the container; in the other order of evaluation null entries stay, and the next
  broadcast calls `OnClientDisconnect(nullptr)`, which `SimpleServer.cpp:35` dereferences. These are
  exactly the exceptions that `BackIsNewcomer`, `OnlyDeadOrLateLeave` and `NoHoles` name.
* `remote_endpoint()` throws through the context thread when a client is gone before
  its accept handler runs (`net_server.h:81`): the one path that does not come to line 118, "Prime the
  asio context with more work". `AcceptThrows` is in `srv_broadcast`, and `KeepsAccepting` excuses
  the process it ends.
* `MessageAllClients` may drop the last owner while handlers with the raw `this` of the
  connection are queued (`net_server.h:167`).
* `SimpleSocket` makes the listening socket non-blocking, not the client's
  (`SimpleSocket.cpp:205`): after the first client has left, `accept` fails at once and
  `Update` returns false. A failing `send` moves `currentSize` back (295). No buffer is
  reset between clients (271), so that the next one gets the rest of a packet.
* `client_interface`: a connect that fails leaves the socket open, so that `IsConnected()`
  stays true, though the comment says "actually connected to a server"
  (`net_client.h:74`); `SimpleClient` then waits for ever. A `Send` before there is a connection
  starts a write that fails and closes the socket, and `SimpleClient` says "Server Down" of a server that
  may be about to answer: the exception in `ServerDownIsTrue`. The context is never restarted, so that a second `Connect` returns true and
  does nothing. `Disconnect` says "gracefully" (60), but the close it posts may be cut off by
  the stop that follows, and "Destroy the connection object" (70), but `release()` does not.
* `NewServer`: the callback for a new connection is called with -1 when `accept` failed (130), so that
  the owner gets a client 65535 that never existed, and no callback is called when a `recv` fails (149), so
  that it keeps a client that is gone. `OwnerKnows` says that the owner can trust its book but for these two,
  as long as no descriptor is open that does not fit into 16 bits; it claims nothing else. A client beyond `FD_SETSIZE` is greeted and never read (97). After a failing `select`
  the loop works on the whole set and may block (164).
* `Server.cpp`: `main` returns when any one client leaves (202, 211).

### Bounds

* `TSQueue`: two pushing threads (a third adds no new pair for a lock cycle), four pushes
  with `nMaxMessages = 2`, so that `Update` returns with messages left, finds the queue
  empty in the middle of its loop, and sleeps more than once.
* `Connection`: two messages from each end. Two is what a second `Send` during a write, a
  deque with a successor and a stale `m_tempMsg` need. Bodies of 0, 1 and 2 units.
* `NetServer`: two clients with one message each, of three kinds: one connection dies or comes while
  the other is visited, moved or erased, at every one of the steps of either thread. One client and one
  message are enough for finding 5.
* `SimpleSocket`: two clients, two packets each way, header of two units so that it can be
  cut, data of 0 or 1, outgoing packets of 1 or 2, one failing `send`. `BufferSize` is 6,
  a whole packet and any chunk; `Receive`'s guard keeps to it, since what the code does
  past the end of its buffer is undefined.
* `NetClient`: two messages of the user, one of the server's own, two connects: a ping that
  waits behind another message at every place, and a second life on the stopped context.
* `SelectServer`: two clients, three descriptors: 1, smaller than `masterSocket`; 7, which is greater and
  what -1 becomes with `Width = 8`; and 9, which is cut to less than `masterSocket`; a set with room for one client
  (`Server`) or two (`NewServer`); a buffer smaller than a message (3 of 6, `NewServer`), as after
  a `recv` that returns part of it, and one larger than two (12, `Server`). A client has at most one message that is not
  read yet, which is several calls of `recv`, and sends the next for as long as it likes.

### Fairness and deadlock

Weak fairness of what the operating system, asio or the program's own endless loop
repeats: each thread in `TSQueue`; each kind of handler and each kernel completion in
`Connection` (a ready handler is run because `m_context.run()` is); the context
thread's handlers and the main thread in `NetServer` (`SimpleServer.cpp:68-79` calls
`Update` for ever); `Update` in `SimpleSocket` (`main.cpp:62`); the loop
of either select server, which never ends by itself; in `NetClient` the main loop
(`SimpleClient.cpp:47`), the context thread, reads and writes that can complete, and the server's
answers. A connect may take for ever. Never fair: an
application's `Send` or `Disconnect`, a push, a spurious wakeup, a reset, a client that
comes, sends or leaves. When a client vanishes during its accept, or `back()` is null, the process ends:
`DeadIsSwept` and `KeepsAccepting` ask for nothing after that.

TLC's own deadlock check is on in the two passing queue runs, where a spurious wakeup
keeps a sleeping consumer from ever counting as stopped: that the mutexes stop nobody is what
`NoLockCycle` says, and that threads get on is `WakeupDrains`. The other systems may stop: a link both ends have closed, a server without clients, a
`SimpleSocket` whose `Update` returned false, a client that has left its loop, a select server
that waits in `select`, or in a `recv` after `select` failed (`NewServer.cpp:164`).

## 5. The proofs

All are checked by TLAPS, for every value of the constants that the module's assumption
admits: any number of clients and messages, any sizes, any value of a bound. Every invariant was first checked
with TLC on the runs' instances. Every invariant a passing run checks is proved; four
theorems have a hypothesis on the constants beyond the assumption:

| Hypothesis | Theorem | Why it is needed, and why the code meets it |
|---|---|---|
| `EchoedHaveBody` | `ReaderKeepsPlace`, `EachWayAChannel` | What the server echoes has a body. `ServerPing`, the one message it echoes, carries a time (`SimpleServer.cpp:47`). A message without one goes back with the body `m_tempMsg` still held (finding 2), and the far end would read that body as a header. |
| `NoDirect` | `ReportedAreRemoved` | No message is answered through `MessageClient`, which reports and does not remove (`net_server.h:139`, finding 5). `SimpleServer` calls `MessageAllClients` and `Send` only. |
| `PacketsFit` | `TypeCorrect` of `SimpleSocket` | A packet is no larger than the buffer `SendPacket` copies it to without a check (`SimpleSocket.cpp:399`). |

The passing run that checks such a property satisfies the hypothesis; `ReportedIsRemoved`, which only
`srv_direct` checks, without `NoDirect`, is violated there, and the theorem says that `MessageClient` is the
only cause.

**`NatSets.tla`: induction.** The library's induction theorems take an operator
as a parameter, which the installed provers cannot instantiate. `SetInduction` is the same
principle with the predicate as a *set* of naturals, derived from the well-foundedness of
`<`; `LeastExists` is its dual; `RecursionExists` gives, for a step that is itself a function, the
function that follows the recursion from a start. They are what it takes to say what the recursive
`Erased` of `NetServer` and `FlattenSeq` of the community modules (`SimpleSocket`) yield
for every sequence, and what a loop over a buffer has found when it stops (`SelectServer`).

**`TSQueueProofs.tla`**

* `TypeCorrect`: `TypeOK` is inductive as it stands (`NextTypeOK`); that `msg` is not 0
  while it is being handled is part of it.
* `MutexesExclude`: `LockInv` says that each mutex is held by exactly the thread whose
  place in the code says so. It is the strengthening that the lock order needs:
  `NoLockCycle` speaks of who is blocked on whom, and is not inductive by itself.
* `LocksNeverCycle`: `NoLockCycle`, from `LockInv`. The one thread that holds
  both mutexes is not blocked on either.
* `PopsFromNonEmpty`: `PopPrecondition`, inductive with `TypeOK`: pushes
  only add, and only the consumer removes.
* `QueueIsChannel`: with `push_back` and `pop_front`, `Spec => Chan!Spec`. The
  inductive invariant `FifoInv` says that item number *i* is handled, in hand or queued
  at the place its number says; from it every step is an `Accept`, a `Deliver` or a
  stutter (`StepSimulation`).
* `NoneLostOrTwice`: `NothingLostOrDuplicated`, for any ends. `Placed` says it without the
  concatenation: as many places as items, and every item in one of the three.

**`ConnectionProofs.tla`**: `TypeCorrect`, `WritesInTurn` (`OneWriteOfTheFront`),
`ChainUnbroken` (`ChainNeverBreaks`) and `ReadsAlways` (`AlwaysReading`), all from one invariant,
`ChainInv`: `Types`, `WriteChain` (at most one write, of a part of the front message, and none only
with an empty deque or a closed socket) and `ReadChain` (a started end that is open has a read).
`WriteChain` is inductive because a handler that ends a write starts the next or closes.

**`ConnectionStreamProofs.tla`**: `ReaderKeepsPlace` (`FramesAligned`) and `EachWayAChannel`
(`LinksAreChannels`, the refinement of `Channel` in each direction). Neither is inductive: a message
is, one after the other, posted, in the deque, in one or two writes, on the wire as one or
two tokens, half read, and received. `LinkInv` relates each of these places to the history of `Send`
by the *number* of the message: `InTransit` for the tasks and the deque, `StreamTo` for the wire
(a labelling of its tokens with places in the stream that starts where the reader is and ends where
the writer is), `HalfRead` for `m_tempMsg`, `Arrived` for what came out. The wire's clause is about
an open socket: after a close what is left of the stream goes nowhere.

**`NetServerProofs.tla`**: `TypeCorrect`, `NoHolesLeft` (`NoHoles`), `NewcomerAtTheBack`
(`BackIsNewcomer`), `IdsAreOwn` (`EachItsOwnId`), `BroadcastIsComplete` (`BroadcastReachesAll`),
`OneOrderForAll` (`ToldInOrder`) from `ServerInv`: `Types`, and `Container`. What `std::remove` and
`erase` make of any sequence is said by `CompactedProperties` (what is kept stands before the nulls, in
front of what is behind its end) and `CutProperties`. The parts of `Container`:

* `Accepting` (where the accept handler is says which connection is the newest, and that nothing can
  have closed the newcomer), `Newcomer` (where it stands: at the back, or at the new end that
  `std::remove` has returned and behind which nothing was pushed) and `Numbering` (whom the ids went to);
* `Iterating`: no connection is in the container twice; the loop's index against its end;
* `Holes` and `Shrinking`: which entries may be null, and how the ends that the removal has evaluated stand
  to each other and to the container, which only `push_back` may have made longer meanwhile;
* `Telling`: during a broadcast those behind the index have it, except its sender, and those
  ahead of the index, the newcomer the accept handler pushes meanwhile included, have only earlier ones.

The three properties about the newcomer and the nulls hold until `torn`, and the invariant
says so part by part: what was false for one removal stays false after it. `BroadcastReachesAll`,
`ToldInOrder` and `OnlyDeadOrLateLeave` need no such condition.
`OnlyDeadOrLateAreRemoved` is the action property `OnlyDeadOrLateLeave`; `ReportedAreRemoved` is
`ReportedIsRemoved`, with the invariant `Unreported`.

**`SimpleSocketProofs.tla`**. Units that follow each other are *stretches*; `UnitsOf`, what `send`
takes and what is left are all stretches, and cutting and joining them is all the arithmetic there is.

* `SentOnceInOrder`: `EachUnitOnce`. `SendTypes` adds what the code never says: while a packet is
  under way it is not complete, and nothing waits unless one is. A submitted packet goes to the end
  of both sides of the equation, a `send` moves units from one side of a concatenation to the other.
* `LoopTakesAll`: `NoWholePacketWaits`. `total - (total \div size) * size < size`
  (`LoopEnds`) is the loop; that it still holds when the first unit's packet is looked up later
  needs that what is held was sent by the peer (`RecvTypes`).
* `TidyIsIntact`: `UnbatchedIsIntact`. It speaks of what was handed over and is far from
  inductive. `IntactInv` adds that what is held and what is in the socket is *one* stream of consecutive
  packets (`Stream`), that no unit held ends a packet, and that the peer's stream ends with a
  packet; then the first unit that ends a packet is the one the loop's arithmetic comes to (`TidyChunk`).
* `TypeCorrect`: with `PacketsFit`.

**`NetClientProofs.tla`**

* `JoinQuiets`: `QuietAfterJoin`, an action property. `ThreadInv` says that only a thread in
  `run()` is inside a handler, and that none is in `run()` after the join.
* `GivesUpRightly`: `ServerDownIsTrue`. `DownInv` says what every way to close the socket
  leaves behind: a closed socket has no connection that is up, and while the program uses it and has written nothing
  too early, the link is down, or there is none and none is coming. That an early write is what
  makes the second half false, and the only thing, is why `early` is recorded.
* `TimesAreOwn`: `OwnTimes`. The keys, the posted tasks, the deque, the way to the server, the
  way back, the queue and the times read are seven segments of one `Pipe`; `Ordered` says that the
  pings' numbers rise along it from the times read to the keys, and every step moves one item from one segment to the next, or drops some.

**`SelectServerProofs.tla`**, for both programs. The bound `MaxSends` is not used.

* `LoopNeverBlocks`: `NeverBlocks` speaks of the descriptors up to
  `maxfd`, which moves, so the invariant says it of the whole copy (`StillReadable`). It is kept
  because a visit to one descriptor reads or closes only the client at it; for that no
  client may be at two places (`OnePlace`), which in turn needs that nobody connects twice.
  `KeepsReadable` states once what may happen to a descriptor that is due.
* `ServerReachesAll`: `LoopReachesAll`. A descriptor that does not fit makes `maxfd`
  fall; the property then excuses itself, and must go on doing so. It does because such a
  descriptor is greater than `maxfd < Width`, hence never visited and never closed.
* `SetIsConnections`: `MembersAreOpen`, with `OnePlace` and that an overlooked client is
  never accepted again (`OverlookedForGood`).
* `OwnerIsRight`: `OwnerKnows`, which is inductive with the above; the stranger is only ever under
  the truncated -1 (`BookInv`), where a client that is accepted replaces it and a failed `accept` puts it back.
* `TextIsTheClients`: `HeardInOrder`. The buffer is zeroes between two turns, so the text up to the
  first zero (`LeastExists`) lies within what this `recv` put there.
* `TypeCorrect`: `TypeInv` puts the others together.

Only model-checked: liveness (`WakeupDrains`, `SentArrives`, `CloseIsNoticed`,
`DeadIsSwept`, `KeepsAccepting`, `WaitingIsSent`, `AllAreServed`,
`ServerLossEndsClient`, `PingIsAnswered`), which speaks of fairness and so of ENABLED, and
which TLAPS cannot prove; and the statements that do not hold in general (the five findings).

## 6. Not modelled

asio and TCP are modelled by how the code uses them and marked external. `Start` and
`Stop` of the server and the destructors (SimpleServer never stops). Timings
and console output. Ids wrap at 2^32 (`net_server.h:98`): out of reach of a
small instance. `InitClient`, `Connect` and `UpdateClient` of `SimpleSocket` are not part
of the server build. `TCP_Socket` wraps single blocking calls and has no caller. `MemDB` is a map
with a default, used by one thread. `SendDone` of `Client.cpp` has no caller. `Network`, `Commander`
and `main.cpp` do nothing with the network in the server build. That `NewServer`'s `SendMessage`
sends the size of a pointer instead of the text is about contents, which the model leaves out;
so are the errors of the calls that only print. The remaining parts are in `PROJECT.json` with their reasons.
