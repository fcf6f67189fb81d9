-------------------------- MODULE NetClientProofs --------------------------
(***************************************************************************)
(* Proofs about NetClient, for any bounds: what Disconnect waits for is    *)
(* enough to destroy the queue and the context after it (JoinQuiets),      *)
(* "Server Down" is said rightly (GivesUpRightly), and no message overtakes*)
(* another on its way from the keys to msg >> timeThen (TimesAreOwn).      *)
(***************************************************************************)
EXTENDS NetClient, SequenceTheorems, TLAPS

\* A thread that is not in run() is inside no handler, and after the join there
\* is none in run().
ThreadInv ==
  /\ thread # "running" => handler = "none"
  /\ main \in {"release", "done"} => thread # "running"

USE DEF program, operations, network, context

\* No thread is started yet.
LEMMA InitThreadInv == Init => ThreadInv
BY DEF Init, ThreadInv

\* The main thread starts one in Connect and waits for it in Join; only a
\* running one takes a handler up.
LEMMA NextThreadInv == ThreadInv /\ [Next]_vars => ThreadInv'
<1> SUFFICES ASSUME ThreadInv, [Next]_vars PROVE ThreadInv'
  OBVIOUS
<1>1. CASE ConnectThrows
  BY <1>1 DEF ConnectThrows, Goto, ThreadInv
<1>2. CASE Connect
  BY <1>2 DEF Connect, Goto, ThreadInv
<1>3. ASSUME NEW ping, NEW all, NEW three, Keys(ping, all, three) PROVE ThreadInv'
  BY <1>3 DEF Keys, Goto, ThreadInv
<1>4. CASE Send \/ Post \/ Disconnect \/ Stop
  BY <1>4 DEF Send, Post, Disconnect, Stop, Goto, ThreadInv
<1>5. CASE Receive
  <2>1. main' \in {"disconnect", "loop"} /\ UNCHANGED <<thread, handler>>
    BY <1>5 DEF Receive, Goto
  <2> QED
    BY <2>1 DEF ThreadInv
<1>6. CASE Join
  BY <1>6 DEF Join, Joined, Goto, ThreadInv
<1>7. CASE Release
  <2>1. main = "release" /\ UNCHANGED <<thread, handler>>
    BY <1>7 DEF Release
  <2> QED
    BY <2>1 DEF ThreadInv
<1>8. ASSUME NEW h, TakeUp(h) PROVE ThreadInv'
  BY <1>8 DEF TakeUp, ThreadInv
<1>9. CASE ConnectHandler \/ RunSend \/ RunClose \/ WriteHandler \/ ReadHandler
  <2>1. handler' = "none" /\ UNCHANGED <<main, thread>>
    BY <1>9 DEF ConnectHandler, RunSend, RunClose, WriteHandler, ReadHandler
  <2> QED
    BY <2>1 DEF ThreadInv
<1>10. CASE RunReturns
  BY <1>10 DEF RunReturns, ThreadInv
<1>11. CASE ConnectDone \/ WriteDone \/ ReadDone \/ ServerAnswers \/ ServerBroadcasts \/ LinkDown
  <2>1. UNCHANGED <<main, thread, handler>>
    BY <1>11 DEF ConnectDone, WriteDone, ReadDone, ServerAnswers, ServerBroadcasts, LinkDown
  <2> QED
    BY <2>1 DEF ThreadInv
<1>12. CASE UNCHANGED vars
  BY <1>12 DEF vars, ThreadInv
<1> QED
  BY <1>1, <1>2, <1>3, <1>4, <1>5, <1>6, <1>7, <1>8, <1>9, <1>10, <1>11, <1>12
  DEF Next, MainStep, ContextStep

\* Once Disconnect has joined the thread nothing touches the socket, the deques
\* or the posted tasks any more, whatever is outstanding and whatever the network
\* and the server still do.
THEOREM JoinQuiets == Spec => QuietAfterJoin
<1> DEFINE Quiet == UNCHANGED <<socket, sendDeq, recvDeq, posted>>
<1>1. ASSUME ThreadInv, [Next]_vars, main \in {"release", "done"} PROVE Quiet
  <2>1. thread # "running" /\ handler = "none"
    BY <1>1 DEF ThreadInv
  <2>2. CASE MainStep
    BY <1>1, <2>2 DEF MainStep, ConnectThrows, Connect, Keys, Send, Post, Receive, Disconnect,
                      Stop, Join, Release
  <2>3. CASE ContextStep
    BY <2>1, <2>3 DEF ContextStep, TakeUp, ConnectHandler, RunSend, RunClose, WriteHandler,
                      ReadHandler, RunReturns
  <2>4. CASE ConnectDone \/ WriteDone \/ ReadDone \/ ServerAnswers \/ ServerBroadcasts \/ LinkDown
    BY <2>4 DEF ConnectDone, WriteDone, ReadDone, ServerAnswers, ServerBroadcasts, LinkDown
  <2>5. CASE UNCHANGED vars
    BY <2>5 DEF vars
  <2> QED
    BY <1>1, <2>2, <2>3, <2>4, <2>5 DEF Next
<1>2. ThreadInv /\ [Next]_vars => [(main \in {"release", "done"}) => Quiet]_vars
  BY <1>1
<1> QED
  BY InitThreadInv, NextThreadInv, <1>2, PTL DEF Spec, QuietAfterJoin

-----------------------------------------------------------------------------
(* The messages, and the deques and streams they pass through.             *)

Pings == {PingMessage(k) : k \in Nat}
Msgs ==
  Pings \cup {AllMessage, [id |-> "ServerAccept", body |-> <<>>],
              [id |-> "ServerMessage", body |-> Push(<<>>, <<0>>)]}
Times == {m.body : m \in Pings}

LEMMA Constants == TimeUnits \in Nat /\ TimeUnits > 0
BY NetClientAssumption DEF NetClientAssumption

\* A ping is told by its id, and carries its number in each unit.
LEMMA PingBody ==
  ASSUME NEW k \in Nat
  PROVE  /\ PingMessage(k).id = "ServerPing"
         /\ PingMessage(k).body = [u \in 1..TimeUnits |-> k]
         /\ PingMessage(k).body[1] = k
         /\ PingMessage(k) = [id |-> "ServerPing", body |-> PingMessage(k).body]
<1> DEFINE f == [u \in 1..TimeUnits |-> k]
<1>1. f \in Seq(Nat)
  BY Constants, SeqDef
<1>2. <<>> \o f = f
  BY <1>1, ConcatEmptySeq
<1>3. PingMessage(k) = [id |-> "ServerPing", body |-> f]
  BY <1>2 DEF PingMessage, Push
<1>4. f[1] = k
  BY Constants
<1> QED BY <1>3, <1>4

\* Reading a time off a ping gives the time that was put on it.
LEMMA PopPing ==
  ASSUME NEW m \in Pings
  PROVE  Pop(m.body, TimeUnits) = m.body /\ m.body \in Times
<1>1. PICK k \in Nat : m = PingMessage(k)
  BY DEF Pings
<1> DEFINE f == [u \in 1..TimeUnits |-> k]
<1>2. f \in Seq(Nat) /\ Len(f) = TimeUnits
  BY Constants, SeqDef
<1>3. SubSeq(f, TimeUnits - TimeUnits + 1, TimeUnits) = f
  <2> DEFINE g == SubSeq(f, 1, TimeUnits)
  <2>1. g \in Seq(Nat) /\ Len(g) = TimeUnits /\ \A i \in 1..TimeUnits : g[i] = f[i]
    <3>1. \A i \in 1..TimeUnits : f[i] \in Nat
      OBVIOUS
    <3> HIDE DEF f
    <3>2. g \in Seq(Nat) /\ Len(g) = (IF 1 <= TimeUnits THEN TimeUnits - 1 + 1 ELSE 0)
            /\ \A i \in 1..(TimeUnits - 1 + 1) : g[i] = f[1 + i - 1]
      BY <3>1, Constants, SubSeqProperties
    <3> QED BY <3>2, Constants
  <2>2. g = f
    <3> HIDE DEF f, g
    <3> QED BY <1>2, <2>1, SeqEqual
  <2>3. TimeUnits - TimeUnits + 1 = 1
    BY Constants
  <2> QED BY <2>2, <2>3
<1>4. m.body = f
  BY <1>1, PingBody
<1> HIDE DEF f
<1>5. Pop(m.body, TimeUnits) = m.body
  BY <1>2, <1>3, <1>4 DEF Pop
<1> QED BY <1>5 DEF Times

LEMMA MessageIds ==
  /\ \A m \in Msgs : m # Close
  /\ \A m \in Msgs : m.id = "ServerPing" => m \in Pings
<1>1. \A m \in Pings : m.id = "ServerPing"
  BY PingBody DEF Pings
<1>2. ASSUME NEW m \in Msgs PROVE m # Close /\ (m.id = "ServerPing" => m \in Pings)
  <2>1. CASE m \in Pings
    BY <1>1, <2>1 DEF Close
  <2>2. CASE m \notin Pings
    BY <2>2 DEF Msgs, Close, AllMessage
  <2> QED BY <2>1, <2>2
<1> QED BY <1>2

Segments ==
  /\ sends \in Nat
  /\ inHand \in Seq(Msgs)
  /\ posted \in Seq(Msgs \cup {Close})
  /\ sendDeq \in Seq(Msgs)
  /\ toServer \in Seq(Msgs)
  /\ toClient \in Seq(Msgs)
  /\ recvDeq \in Seq(Msgs)
  /\ timesRead \in Seq(Times)

\* Whoever is about to take the first message of a deque or stream has one.
InUse ==
  /\ main = "post" => inHand # <<>>
  /\ handler = "task" => posted # <<>>
  /\ writeOp # "none" => sendDeq # <<>>
  /\ readOp = "ok" => toClient # <<>>

SegInv == Segments /\ InUse

LEMMA SegInit == Init => SegInv
<1>1. \A S : <<>> \in Seq(S)
  BY EmptySeq
<1> QED BY <1>1 DEF Init, SegInv, Segments, InUse

\* The first message of a sequence, and the rest.
LEMMA Pull ==
  ASSUME NEW S, NEW s \in Seq(S), s # <<>>
  PROVE  Head(s) \in S /\ Tail(s) \in Seq(S)
BY HeadTailProperties

LEMMA Put ==
  ASSUME NEW S, NEW s \in Seq(S), NEW m \in S
  PROVE  Append(s, m) \in Seq(S) /\ Append(s, m) # <<>>
BY AppendProperties

LEMMA FirstPosted ==
  ASSUME SegInv, posted # <<>>
  PROVE  /\ Head(posted) \in Msgs \cup {Close} /\ Tail(posted) \in Seq(Msgs \cup {Close})
         /\ Head(posted) # Close => Head(posted) \in Msgs
<1>1. Head(posted) \in Msgs \cup {Close} /\ Tail(posted) \in Seq(Msgs \cup {Close})
  BY Pull DEF SegInv, Segments
<1> QED BY <1>1

\* What the keys of one turn put in hand.
LEMMA KeysHand ==
  ASSUME NEW n \in Nat, NEW ping \in BOOLEAN, NEW all \in BOOLEAN, NEW h,
         h = (IF ping THEN <<PingMessage(n + 1)>> ELSE <<>>)
               \o (IF all THEN <<AllMessage>> ELSE <<>>)
  PROVE  /\ h \in Seq(Msgs) /\ Len(h) \in Nat
         /\ h \in {<<>>, <<PingMessage(n + 1)>>, <<AllMessage>>,
                   <<PingMessage(n + 1), AllMessage>>}
         /\ ping => Len(h) >= 1
         /\ ~ ping => h \in {<<>>, <<AllMessage>>}
<1>1. PingMessage(n + 1) \in Msgs /\ AllMessage \in Msgs
  BY DEF Msgs, Pings
<1> DEFINE p == PingMessage(n + 1)
           a == AllMessage
<1> HIDE DEF p, a
<1>2. <<p>> \in Seq(Msgs) /\ <<a>> \in Seq(Msgs) /\ <<>> \in Seq(Msgs)
  BY <1>1 DEF p, a
<1>3. h = (IF ping THEN <<p>> ELSE <<>>) \o (IF all THEN <<a>> ELSE <<>>)
  BY DEF p, a
<1>4. h \in {<<>>, <<p>>, <<a>>, <<p, a>>} /\ (~ ping => h \in {<<>>, <<a>>})
        /\ (ping => h \in {<<p>>, <<p, a>>})
  <2>1. <<p>> \o <<>> = <<p>> /\ <<>> \o <<a>> = <<a>>
    BY <1>2, ConcatEmptySeq
  <2>2. <<>> \o <<>> = <<>>
    BY <1>2, ConcatEmptySeq
  <2>3. <<p>> \o <<a>> = <<p, a>>
    <3>1. Append(<<p>>, a) = <<p>> \o <<a>>
      BY <1>1, <1>2, AppendIsConcat DEF a
    <3>2. <<p, a>> \in Seq(Msgs) /\ Len(<<p, a>>) = 2 /\ Len(<<p>>) = 1
      BY <1>1 DEF p, a
    <3>3. Append(<<p>>, a) \in Seq(Msgs) /\ Len(Append(<<p>>, a)) = 2
            /\ Append(<<p>>, a)[1] = p /\ Append(<<p>>, a)[2] = a
      BY <1>1, <1>2, <3>2, AppendProperties DEF a
    <3>4. \A i \in 1..2 : Append(<<p>>, a)[i] = <<p, a>>[i]
      BY <3>3
    <3>5. Append(<<p>>, a) = <<p, a>>
      BY <3>2, <3>3, <3>4, SeqEqual
    <3> QED BY <3>1, <3>5
  <2> QED BY <1>3, <2>1, <2>2, <2>3
<1>5. h \in Seq(Msgs)
  <2>1. <<p, a>> \in Seq(Msgs)
    BY <1>1 DEF p, a
  <2> QED BY <1>2, <1>4, <2>1
<1>6. ping => Len(h) >= 1
  BY <1>4
<1> QED BY <1>4, <1>5, <1>6, LenProperties DEF p, a

LEMMA SegMain ==
  ASSUME SegInv, MainStep
  PROVE  SegInv'
<1>0. Segments /\ InUse
  BY DEF SegInv
<1>1. CASE ConnectThrows
  BY <1>0, <1>1 DEF SegInv, Segments, InUse, ConnectThrows, Goto
<1>2. CASE Connect
  <2>1. \A S : <<>> \in Seq(S)
    BY EmptySeq
  <2>2. Segments'
    BY <1>0, <1>2, <2>1 DEF Segments, Connect
  <2>3. InUse'
    BY <1>0, <1>2 DEF InUse, Connect, Goto
  <2> QED BY <2>2, <2>3 DEF SegInv
<1>3. ASSUME NEW ping \in BOOLEAN, NEW all \in BOOLEAN, NEW three \in BOOLEAN,
             Keys(ping, all, three)
      PROVE  SegInv'
  <2>1. inHand' \in Seq(Msgs) /\ Len(inHand') \in Nat
    BY <1>0, <1>3, KeysHand DEF Keys, Segments
  <2>2. Segments'
    BY <1>0, <1>3, <2>1 DEF Segments, Keys
  <2>3. InUse'
    BY <1>0, <1>3 DEF InUse, Keys, Goto
  <2> QED BY <2>2, <2>3 DEF SegInv
<1>4. CASE Send
  <2>1. inHand' \in Seq(Msgs)
    BY <1>0, <1>4, Pull DEF Send, Segments
  <2>2. Segments'
    BY <1>0, <1>4, <2>1 DEF Segments, Send
  <2>3. InUse'
    BY <1>0, <1>4 DEF InUse, Send, Goto
  <2> QED BY <2>2, <2>3 DEF SegInv
<1>5. CASE Post
  <2>1. Head(inHand) \in Msgs /\ Tail(inHand) \in Seq(Msgs)
    BY <1>0, <1>5, Pull DEF Post, Segments, InUse
  <2>2. posted' \in Seq(Msgs \cup {Close}) /\ posted' # <<>>
    BY <1>0, <1>5, <2>1, Put DEF Post, Segments
  <2>3. Segments'
    BY <1>0, <1>5, <2>1, <2>2 DEF Segments, Post
  <2>4. InUse'
    BY <1>0, <1>5, <2>2 DEF InUse, Post, Goto
  <2> QED BY <2>3, <2>4 DEF SegInv
<1>6. CASE Receive
  <2>1. recvDeq' \in Seq(Msgs) /\ timesRead' \in Seq(Times)
    <3>1. CASE UNCHANGED <<recvDeq, timesRead>>
      BY <1>0, <3>1 DEF Segments
    <3>2. CASE recvDeq # <<>> /\ HandleFirst
      <4> DEFINE m == Head(recvDeq)
      <4>1. m \in Msgs /\ recvDeq' \in Seq(Msgs)
        BY <1>0, <3>2, Pull DEF HandleFirst, Segments
      <4>2. ASSUME m.id = "ServerPing" PROVE Pop(m.body, TimeUnits) \in Times
        BY <4>1, <4>2, MessageIds, PopPing
      <4>3. timesRead' = IF m.id = "ServerPing" THEN Append(timesRead, Pop(m.body, TimeUnits))
                                                ELSE timesRead
        BY <3>2 DEF HandleFirst
      <4> HIDE DEF m
      <4>4. timesRead' \in Seq(Times)
        BY <1>0, <4>2, <4>3, Put DEF Segments
      <4> QED BY <4>1, <4>4
    <3> QED BY <1>6, <3>1, <3>2 DEF Receive
  <2>2. Segments'
    BY <1>0, <1>6, <2>1 DEF Segments, Receive
  <2>3. InUse'
    BY <1>0, <1>6 DEF InUse, Receive, Goto
  <2> QED BY <2>2, <2>3 DEF SegInv
<1>7. CASE Disconnect
  <2>1. posted' = posted \/ posted' = Append(posted, Close)
    BY <1>7 DEF Disconnect
  <2>2. Append(posted, Close) \in Seq(Msgs \cup {Close}) /\ Append(posted, Close) # <<>>
    BY <1>0, Put DEF Segments
  <2>3. Segments'
    BY <1>0, <1>7, <2>1, <2>2 DEF Segments, Disconnect
  <2>4. InUse'
    BY <1>0, <1>7, <2>1, <2>2 DEF InUse, Disconnect, Goto
  <2> QED BY <2>3, <2>4 DEF SegInv
<1>8. CASE Stop \/ Join \/ Release
  <2>1. main' # "post" /\ UNCHANGED <<inHand, posted, sendDeq, toServer, toClient, recvDeq,
                                     timesRead, sends, handler, writeOp, readOp>>
    BY <1>8 DEF Stop, Join, Release, Goto
  <2> QED BY <1>0, <2>1 DEF SegInv, Segments, InUse
<1> QED BY <1>1, <1>2, <1>3, <1>4, <1>5, <1>6, <1>7, <1>8 DEF MainStep

LEMMA SegContext ==
  ASSUME SegInv, ContextStep
  PROVE  SegInv'
<1>0. Segments /\ InUse
  BY DEF SegInv
<1>1. ASSUME NEW h, TakeUp(h) PROVE SegInv'
  <2>1. handler' = "task" => posted # <<>>
    BY <1>1 DEF TakeUp, Due
  <2> QED BY <1>0, <1>1, <2>1 DEF SegInv, Segments, InUse, TakeUp
<1>2. CASE ConnectHandler
  <2>1. readOp' # "ok" /\ handler' # "task"
          /\ UNCHANGED <<inHand, posted, sendDeq, toServer, toClient, recvDeq, timesRead, sends,
                         main, writeOp>>
    BY <1>2 DEF ConnectHandler
  <2> QED BY <1>0, <2>1 DEF SegInv, Segments, InUse
<1>3. CASE RunSend
  <2>1. Head(posted) \in Msgs /\ Tail(posted) \in Seq(Msgs \cup {Close})
    BY <1>0, <1>3, FirstPosted DEF RunSend, InUse
  <2>2. sendDeq' \in Seq(Msgs) /\ sendDeq' # <<>>
    BY <1>0, <1>3, <2>1, Put DEF RunSend, Enqueued, Segments
  <2>3. Segments'
    BY <1>0, <1>3, <2>1, <2>2 DEF Segments, RunSend
  <2>4. InUse'
    BY <1>0, <1>3, <2>2 DEF InUse, RunSend
  <2> QED BY <2>3, <2>4 DEF SegInv
<1>4. CASE RunClose
  <2>1. Tail(posted) \in Seq(Msgs \cup {Close})
    BY <1>0, <1>4, FirstPosted DEF RunClose, InUse
  <2>2. Segments'
    BY <1>0, <1>4, <2>1 DEF Segments, RunClose
  <2>3. InUse'
    BY <1>0, <1>4 DEF InUse, RunClose
  <2> QED BY <2>2, <2>3 DEF SegInv
<1>5. CASE WriteHandler
  <2>1. sendDeq' \in Seq(Msgs) /\ (writeOp' # "none" => sendDeq' # <<>>)
    <3>1. writeOp # "none"
      BY <1>5 DEF WriteHandler
    <3>2. Tail(sendDeq) \in Seq(Msgs)
      BY <1>0, <3>1, Pull DEF InUse, Segments
    <3> QED BY <1>0, <1>5, <3>1, <3>2 DEF WriteHandler, InUse, Segments
  <2>2. handler' # "task" /\ UNCHANGED <<inHand, posted, toServer, toClient, recvDeq, timesRead,
                                        sends, main, readOp>>
    BY <1>5 DEF WriteHandler
  <2> QED BY <1>0, <2>1, <2>2 DEF SegInv, Segments, InUse
<1>6. CASE ReadHandler
  <2>1. recvDeq' \in Seq(Msgs) /\ toClient' \in Seq(Msgs) /\ readOp' # "ok"
    <3>1. CASE readOp = "ok" /\ recvDeq' = Append(recvDeq, Head(toClient))
                 /\ toClient' = Tail(toClient) /\ NextRead
      <4>1. Head(toClient) \in Msgs /\ Tail(toClient) \in Seq(Msgs)
        BY <1>0, <3>1, Pull DEF InUse, Segments
      <4> QED BY <1>0, <3>1, <4>1, Put DEF NextRead, Segments
    <3>2. CASE readOp' = "none" /\ UNCHANGED <<toClient, recvDeq>>
      BY <1>0, <3>2 DEF Segments
    <3> QED BY <1>6, <3>1, <3>2 DEF ReadHandler
  <2>2. handler' # "task" /\ UNCHANGED <<inHand, posted, sendDeq, toServer, timesRead, sends,
                                        main, writeOp>>
    BY <1>6 DEF ReadHandler
  <2> QED BY <1>0, <2>1, <2>2 DEF SegInv, Segments, InUse
<1>7. CASE RunReturns
  BY <1>0, <1>7 DEF SegInv, Segments, InUse, RunReturns
<1> QED BY <1>1, <1>2, <1>3, <1>4, <1>5, <1>6, <1>7 DEF ContextStep

NetworkStep ==
  ConnectDone \/ WriteDone \/ ReadDone \/ ServerAnswers \/ ServerBroadcasts \/ LinkDown

LEMMA SegNetwork ==
  ASSUME SegInv, NetworkStep
  PROVE  SegInv'
<1>0. Segments /\ InUse
  BY DEF SegInv
<1>1. CASE ConnectDone
  BY <1>0, <1>1 DEF SegInv, Segments, InUse, ConnectDone
<1>2. CASE WriteDone
  <2>1. writeOp # "none"
    BY <1>2 DEF WriteDone
  <2>2. Head(sendDeq) \in Msgs
    BY <1>0, <2>1, Pull DEF InUse, Segments
  <2>3. toServer' \in Seq(Msgs)
    BY <1>0, <1>2, <2>2, Put DEF WriteDone, Segments
  <2> QED BY <1>0, <1>2, <2>1, <2>3 DEF SegInv, Segments, InUse, WriteDone
<1>3. CASE ReadDone
  BY <1>0, <1>3 DEF SegInv, Segments, InUse, ReadDone
<1>4. CASE ServerAnswers
  <2>1. Head(toServer) \in Msgs /\ Tail(toServer) \in Seq(Msgs)
    BY <1>0, <1>4, Pull DEF ServerAnswers, Segments
  <2>2. toClient' \in Seq(Msgs) /\ (toClient' = toClient \/ toClient' # <<>>)
    BY <1>0, <1>4, <2>1, Put DEF ServerAnswers, Segments
  <2> QED BY <1>0, <1>4, <2>1, <2>2 DEF SegInv, Segments, InUse, ServerAnswers
<1>5. CASE ServerBroadcasts
  <2>1. toClient' \in Seq(Msgs) /\ toClient' # <<>>
    BY <1>0, <1>5, Put DEF ServerBroadcasts, Segments, Msgs
  <2> QED BY <1>0, <1>5, <2>1 DEF SegInv, Segments, InUse, ServerBroadcasts
<1>6. CASE LinkDown
  <2>1. toClient' \in Seq(Msgs) /\ (readOp = "ok" => toClient' # <<>>)
    <3>1. CASE toClient' = toClient
      BY <1>0, <3>1 DEF Segments, InUse
    <3>2. CASE readOp = "ok" /\ toClient' = <<Head(toClient)>>
      <4>1. Head(toClient) \in Msgs
        BY <1>0, <3>2, Pull DEF InUse, Segments
      <4> QED BY <3>2, <4>1
    <3>3. CASE readOp # "ok" /\ toClient' = <<>>
      BY <3>3, EmptySeq
    <3> QED BY <1>6, <3>1, <3>2, <3>3 DEF LinkDown
  <2> QED BY <1>0, <1>6, <2>1 DEF SegInv, Segments, InUse, LinkDown
<1> QED BY <1>1, <1>2, <1>3, <1>4, <1>5, <1>6 DEF NetworkStep

LEMMA SegStep ==
  ASSUME SegInv, [Next]_vars
  PROVE  SegInv'
<1>1. CASE UNCHANGED vars
  BY <1>1 DEF vars, SegInv, Segments, InUse
<1> QED BY <1>1, SegMain, SegContext, SegNetwork DEF Next, NetworkStep

-----------------------------------------------------------------------------
(* Where the connection is.                                                *)

HasClose(s) == \E i \in 1..Len(s) : s[i] = Close

\* A handler is inside a stopped context only while Join waits for it, and the
\* socket is not closed before Disconnect.
Running ==
  /\ handler # "none" => ~ stopped \/ main = "join"
  /\ HasClose(posted) => stopped \/ main = "stop"
  /\ main \in {"join", "release", "done"} => stopped

\* A read is under way only once there was a connection; so is a write, unless
\* it was early; what fails thereafter fails because the connection is gone.  A
\* socket that is closed has no connection.
Linked ==
  /\ connectOp = "pending" => link = "none"
  /\ connectOp = "ok" \/ readOp # "none" => link # "none"
  /\ writeOp # "none" => early \/ link # "none"
  /\ writeOp = "error" => early \/ link = "down" \/ socket = "closed"
  /\ readOp = "error" => link = "down" \/ socket = "closed"
  /\ socket = "closed" => link # "up"

Refused == link = "none" /\ connectOp # "pending"

\* While the program uses the connection, a closed socket is the end of it.
ClosedIsDown ==
  connection /\ socket = "closed" /\ ~ early /\ main \in {"loop", "send", "post", "disconnect"}
    => link = "down" \/ Refused

GivesUp ==
  /\ main = "start" => ~ connection
  /\ main = "disconnect" /\ ~ quit /\ connection => socket = "closed"

LinkTypes == socket \in {"open", "closed"} /\ link \in {"none", "up", "down"}
               /\ quit \in BOOLEAN /\ connection \in BOOLEAN /\ early \in BOOLEAN

DownInv == Running /\ Linked /\ ClosedIsDown /\ GivesUp /\ LinkTypes

LEMMA DownInit == Init => DownInv
<1> SUFFICES ASSUME Init PROVE DownInv
  OBVIOUS
<1>1. Len(posted) = 0
  BY DEF Init
<1>2. Running
  BY <1>1 DEF Init, Running, HasClose
<1> QED BY <1>2 DEF Init, DownInv, Linked, ClosedIsDown, GivesUp, LinkTypes

LEMMA RunningStep ==
  ASSUME ThreadInv, SegInv, Running, [Next]_vars
  PROVE  Running'
<1>0. posted \in Seq(Msgs \cup {Close}) /\ Len(posted) \in Nat
  BY LenProperties DEF SegInv, Segments
<1>1. CASE ConnectThrows \/ Connect
  BY <1>1 DEF ConnectThrows, Connect, Goto, Running
<1>2. ASSUME NEW ping, NEW all, NEW three, Keys(ping, all, three) PROVE Running'
  BY <1>2 DEF Keys, Goto, Running
<1>3. CASE Send \/ Receive
  <2>1. main \in {"send"} /\ main' \in {"post", "send", "loop", "disconnect"}
          /\ UNCHANGED <<handler, stopped, posted>>
    BY <1>3 DEF Send, Receive, Goto
  <2> QED BY <2>1 DEF Running
<1>4. CASE Post
  <2>1. Head(inHand) \in Msgs /\ Head(inHand) # Close
    BY <1>4, Pull, MessageIds DEF Post, SegInv, Segments, InUse
  <2>2. posted' = Append(posted, Head(inHand)) /\ main = "post" /\ main' = "send"
          /\ UNCHANGED <<handler, stopped>>
    BY <1>4 DEF Post, Goto
  <2>3. Len(posted') = Len(posted) + 1 /\ posted'[Len(posted) + 1] # Close
          /\ \A i \in 1..Len(posted) : posted'[i] = posted[i]
    BY <1>0, <2>1, <2>2, AppendProperties
  <2>4. \A i \in 1..(Len(posted) + 1) : i \in 1..Len(posted) \/ i = Len(posted) + 1
    BY <1>0
  <2>5. HasClose(posted') => HasClose(posted)
    BY <2>3, <2>4 DEF HasClose
  <2> QED BY <2>2, <2>5 DEF Running
<1>5. CASE Disconnect
  BY <1>5 DEF Disconnect, Goto, Running
<1>6. CASE Stop
  BY <1>6 DEF Stop, Goto, Running
<1>7. CASE Join
  BY <1>7 DEF Join, Joined, Goto, ThreadInv, Running
<1>8. CASE Release
  <2>1. main = "release" /\ UNCHANGED <<handler, stopped, posted>>
    BY <1>8 DEF Release
  <2> QED BY <2>1 DEF Running
<1>9. ASSUME NEW h, TakeUp(h) PROVE Running'
  BY <1>9 DEF TakeUp, Running
<1>10. CASE ConnectHandler \/ WriteHandler \/ ReadHandler
  <2>1. handler' = "none" /\ UNCHANGED <<main, stopped, posted>>
    BY <1>10 DEF ConnectHandler, WriteHandler, ReadHandler
  <2> QED BY <2>1 DEF Running
<1>11. CASE RunSend \/ RunClose
  <2>1. handler' = "none" /\ UNCHANGED <<main, stopped>> /\ posted' = Tail(posted)
          /\ handler = "task"
    BY <1>11 DEF RunSend, RunClose
  <2>2. Len(posted') = Len(posted) - 1 /\ \A i \in 1..Len(posted') : posted'[i] = posted[i + 1]
    BY <1>0, <2>1, HeadTailProperties DEF SegInv, InUse
  <2>3. \A i \in 1..(Len(posted) - 1) : i + 1 \in 1..Len(posted)
    BY <1>0
  <2>4. HasClose(posted') => HasClose(posted)
    BY <2>2, <2>3 DEF HasClose
  <2> QED BY <2>1, <2>4 DEF Running
<1>12. CASE RunReturns
  BY <1>12 DEF RunReturns, Running
<1>13. CASE NetworkStep \/ UNCHANGED vars
  <2>1. UNCHANGED <<main, handler, stopped, posted>>
    BY <1>13 DEF NetworkStep, ConnectDone, WriteDone, ReadDone, ServerAnswers, ServerBroadcasts,
       LinkDown, vars
  <2> QED BY <2>1 DEF Running
<1> QED BY <1>1, <1>2, <1>3, <1>4, <1>5, <1>6, <1>7, <1>8, <1>9, <1>10, <1>11, <1>12, <1>13
           DEF Next, MainStep, ContextStep, NetworkStep

LEMMA LinkStep ==
  ASSUME ThreadInv, SegInv, DownInv, [Next]_vars
  PROVE  (Linked /\ ClosedIsDown /\ GivesUp /\ LinkTypes)'
<1> DEFINE Good == Linked /\ ClosedIsDown /\ GivesUp /\ LinkTypes
<1>0. Running /\ Linked /\ ClosedIsDown /\ GivesUp /\ LinkTypes
  BY DEF DownInv
<1> USE DEF Refused
<1>1. CASE ConnectThrows
  <2>1. main' = "loop" /\ UNCHANGED <<quit, connection, operations, network>>
    BY <1>1 DEF ConnectThrows, Goto
  <2>2. main = "start"
    BY <1>1 DEF ConnectThrows
  <2>3. ~ connection
    BY <1>0, <2>2 DEF GivesUp
  <2> QED BY <1>0, <2>1, <2>3 DEF Linked, ClosedIsDown, GivesUp, LinkTypes
<1>2. CASE Connect
  <2>1. main' = "loop" /\ connection' = TRUE /\ socket' = "open" /\ connectOp' = "pending"
          /\ readOp' = "none" /\ writeOp' = "none" /\ early' = FALSE /\ link' = "none"
          /\ quit' = quit
    BY <1>2 DEF Connect, Goto
  <2> QED BY <1>0, <2>1 DEF Linked, ClosedIsDown, GivesUp, LinkTypes
<1>3. ASSUME NEW ping \in BOOLEAN, NEW all \in BOOLEAN, NEW three \in BOOLEAN,
             Keys(ping, all, three)
      PROVE  Good'
  <2>1. main = "loop" /\ main' = "send" /\ quit' = three
          /\ UNCHANGED <<connection, operations, network>>
    BY <1>3 DEF Keys, Goto
  <2> QED BY <1>0, <2>1 DEF Linked, ClosedIsDown, GivesUp, LinkTypes
<1>4. CASE Send \/ Post
  <2>1. main \in {"send", "post"} /\ main' \in {"send", "post"}
          /\ UNCHANGED <<quit, connection, operations, network>>
    BY <1>4 DEF Send, Post, Goto
  <2> QED BY <1>0, <2>1 DEF Linked, ClosedIsDown, GivesUp, LinkTypes
<1>5. CASE Receive
  <2>1. main = "send" /\ main' \in {"loop", "disconnect"}
          /\ (main' = "disconnect" => quit \/ ~ IsConnected)
          /\ UNCHANGED <<quit, connection, operations, network>>
    BY <1>5 DEF Receive, Goto
  <2> QED BY <1>0, <2>1 DEF Linked, ClosedIsDown, GivesUp, LinkTypes, IsConnected
<1>6. CASE Disconnect \/ Stop \/ Join
  <2>1. main' \in {"stop", "join", "release"} /\ UNCHANGED <<quit, connection, operations, network>>
    BY <1>6 DEF Disconnect, Stop, Join, Goto
  <2> QED BY <1>0, <2>1 DEF Linked, ClosedIsDown, GivesUp, LinkTypes
<1>7. CASE Release
  <2>1. main' \in {"done", "start"} /\ connection' = FALSE /\ UNCHANGED <<quit, operations, network>>
    BY <1>7 DEF Release
  <2> QED BY <1>0, <2>1 DEF Linked, ClosedIsDown, GivesUp, LinkTypes
<1>8. ASSUME NEW h, TakeUp(h) \/ RunReturns PROVE Good'
  <2>1. UNCHANGED <<main, quit, connection, operations, network>>
    BY <1>8 DEF TakeUp, RunReturns
  <2> QED BY <1>0, <2>1 DEF Linked, ClosedIsDown, GivesUp, LinkTypes
<1>9. CASE ConnectHandler
  <2>1. connectOp' = "none" /\ ((connectOp = "ok" /\ readOp' = "pending") \/ readOp' = "none")
          /\ UNCHANGED <<main, quit, connection, socket, writeOp, early, network>>
    BY <1>9 DEF ConnectHandler
  <2> QED BY <1>0, <2>1 DEF Linked, ClosedIsDown, GivesUp, LinkTypes
<1>10. CASE RunSend
  <2>1. (writeOp' = "pending" /\ early' = (early \/ link = "none"))
          \/ UNCHANGED <<writeOp, early>>
    BY <1>10 DEF RunSend
  <2>2. UNCHANGED <<main, quit, connection, socket, connectOp, readOp, network>>
    BY <1>10 DEF RunSend
  <2> QED BY <1>0, <2>1, <2>2 DEF Linked, ClosedIsDown, GivesUp, LinkTypes
<1>11. CASE RunClose
  <2>1. HasClose(posted)
    <3>1. posted # <<>> /\ Head(posted) = Close /\ posted \in Seq(Msgs \cup {Close})
      BY <1>11 DEF RunClose, SegInv, InUse, Segments
    <3>2. 1 \in 1..Len(posted) /\ posted[1] = Close
      BY <3>1, LenProperties, EmptySeq
    <3> QED BY <3>2 DEF HasClose
  <2>2. main \in {"stop", "join"}
    BY <1>0, <1>11, <2>1 DEF RunClose, Running
  <2>3. socket' = "closed" /\ link' = (IF link = "up" THEN "down" ELSE link)
          /\ UNCHANGED <<main, quit, connection, connectOp, readOp, writeOp, early>>
    BY <1>11 DEF RunClose, CloseSocket
  <2> QED BY <1>0, <2>2, <2>3 DEF Linked, ClosedIsDown, GivesUp, LinkTypes
<1>12. CASE WriteHandler
  <2>1. UNCHANGED <<main, quit, connection, connectOp, readOp, early>>
    BY <1>12 DEF WriteHandler
  <2>2. CASE writeOp = "ok" /\ writeOp' \in {"none", "pending"} /\ UNCHANGED <<socket, link>>
    BY <1>0, <2>1, <2>2 DEF Linked, ClosedIsDown, GivesUp, LinkTypes
  <2>3. CASE writeOp = "error" /\ writeOp' = "none" /\ CloseSocket
    BY <1>0, <2>1, <2>3 DEF Linked, ClosedIsDown, GivesUp, LinkTypes, CloseSocket
  <2> QED BY <1>12, <2>2, <2>3 DEF WriteHandler
<1>13. CASE ReadHandler
  <2>1. UNCHANGED <<main, quit, connection, connectOp, writeOp, early>>
    BY <1>13 DEF ReadHandler
  <2>2. CASE readOp = "ok" /\ readOp' = "pending" /\ UNCHANGED <<socket, link>>
    BY <1>0, <2>1, <2>2 DEF Linked, ClosedIsDown, GivesUp, LinkTypes
  <2>3. CASE readOp = "error" /\ readOp' = "none" /\ CloseSocket
    BY <1>0, <2>1, <2>3 DEF Linked, ClosedIsDown, GivesUp, LinkTypes, CloseSocket
  <2> QED BY <1>13, <2>2, <2>3 DEF ReadHandler, NextRead, ReadFailed
<1>14. CASE ConnectDone
  <2>1. connectOp = "pending" /\ UNCHANGED <<main, quit, connection, socket, readOp, writeOp, early>>
          /\ \/ socket = "open" /\ connectOp' = "ok" /\ link' = "up"
             \/ connectOp' = "error" /\ UNCHANGED link
    BY <1>14 DEF ConnectDone
  <2> QED BY <1>0, <2>1 DEF Linked, ClosedIsDown, GivesUp, LinkTypes
<1>15. CASE WriteDone
  <2>1. writeOp = "pending" /\ UNCHANGED <<main, quit, connection, socket, connectOp, readOp, early, link>>
          /\ \/ writeOp' = "ok"
             \/ (socket = "closed" \/ link # "up") /\ writeOp' = "error"
    BY <1>15 DEF WriteDone
  <2> QED BY <1>0, <2>1 DEF Linked, ClosedIsDown, GivesUp, LinkTypes
<1>16. CASE ReadDone
  <2>1. readOp = "pending" /\ UNCHANGED <<main, quit, connection, socket, connectOp, writeOp, early, link>>
          /\ \/ readOp' = "ok"
             \/ (socket = "closed" \/ link = "down") /\ readOp' = "error"
    BY <1>16 DEF ReadDone
  <2> QED BY <1>0, <2>1 DEF Linked, ClosedIsDown, GivesUp, LinkTypes
<1>17. CASE ServerAnswers \/ ServerBroadcasts \/ UNCHANGED vars
  <2>1. UNCHANGED <<main, quit, connection, socket, connectOp, readOp, writeOp, early, link>>
    BY <1>17 DEF ServerAnswers, ServerBroadcasts, vars
  <2> QED BY <1>0, <2>1 DEF Linked, ClosedIsDown, GivesUp, LinkTypes
<1>18. CASE LinkDown
  <2>1. link = "up" /\ link' = "down"
          /\ UNCHANGED <<main, quit, connection, socket, connectOp, readOp, writeOp, early>>
    BY <1>18 DEF LinkDown
  <2> QED BY <1>0, <2>1 DEF Linked, ClosedIsDown, GivesUp, LinkTypes
<1> QED BY <1>1, <1>2, <1>3, <1>4, <1>5, <1>6, <1>7, <1>8, <1>9, <1>10, <1>11, <1>12, <1>13,
           <1>14, <1>15, <1>16, <1>17, <1>18
        DEF Next, MainStep, ContextStep

\* "Server Down" is never said of a connection that is up; of one that is on its
\* way it is said only after a write that was started too early.
THEOREM GivesUpRightly == Spec => []ServerDownIsTrue
<1> DEFINE Inv == ThreadInv /\ SegInv /\ DownInv
<1>1. Init => Inv
  BY InitThreadInv, SegInit, DownInit
<1>2. Inv /\ [Next]_vars => Inv'
  BY NextThreadInv, SegStep, RunningStep, LinkStep DEF DownInv
<1>3. Inv => ServerDownIsTrue
  BY DEF DownInv, Linked, ClosedIsDown, GivesUp, LinkTypes, Refused, ServerDownIsTrue
<1> QED BY <1>1, <1>2, <1>3, PTL DEF Spec

-----------------------------------------------------------------------------
(* The order of the pings, from the keys to the times that are read.       *)

\* The messages that will be written: the one whose write has ended is the
\* server's.
Unsent == IF writeOp = "ok" THEN Tail(sendDeq) ELSE sendDeq

ReadAsPings ==
  [i \in 1..Len(timesRead) |-> [id |-> "ServerPing", body |-> timesRead[i]]]

\* All that the user sent and that is somewhere, from the oldest to the newest.
Pipe == <<ReadAsPings, recvDeq, toClient, toServer, Unsent, posted, inHand>>

Parcels == Msgs \cup {Close}
Pipes == [1..7 -> Seq(Parcels)]

Follows(l, m) == l.id = "ServerPing" /\ m.id = "ServerPing" => l.body[1] < m.body[1]

\* Every ping is of a lower number than those behind it, and the last of them
\* is not above n.
InTurn(P, n) ==
  /\ \A a, b \in 1..7 : \A i \in 1..Len(P[a]), j \in 1..Len(P[b]) :
       a < b \/ (a = b /\ i < j) => Follows(P[a][i], P[b][j])
  /\ \A a \in 1..7 : \A i \in 1..Len(P[a]) :
       P[a][i].id = "ServerPing" => P[a][i].body[1] <= n

\* A message goes from the front of one segment to the end of the one before.
LEMMA Moved ==
  ASSUME NEW P \in Pipes, NEW Q \in Pipes, NEW n, InTurn(P, n), NEW k \in 1..6,
         P[k + 1] # <<>>, Q[k] = Append(P[k], Head(P[k + 1])), Q[k + 1] = Tail(P[k + 1]),
         \A a \in 1..7 : a # k /\ a # k + 1 => Q[a] = P[a]
  PROVE  InTurn(Q, n)
<1> DEFINE last == Len(P[k]) + 1
           sg(a, i) == IF a = k /\ i = last THEN k + 1 ELSE a
           ix(a, i) == IF a = k /\ i = last THEN 1 ELSE IF a = k + 1 THEN i + 1 ELSE i
<1>0. /\ k + 1 \in 1..7 /\ k \in 1..7
      /\ P[k] \in Seq(Parcels) /\ Len(P[k]) \in Nat
      /\ P[k + 1] \in Seq(Parcels) /\ Len(P[k + 1]) \in Nat
  <2>1. k + 1 \in 1..7 /\ k \in 1..7
    OBVIOUS
  <2>2. P[k] \in Seq(Parcels) /\ P[k + 1] \in Seq(Parcels)
    BY <2>1 DEF Pipes
  <2> QED BY <2>1, <2>2, LenProperties
<1> DEFINE A == P[k]
           B == P[k + 1]
<1>1. A \in Seq(Parcels) /\ B \in Seq(Parcels) /\ B # <<>> /\ Len(A) \in Nat /\ Len(B) \in Nat
        /\ Q[k] = Append(A, Head(B)) /\ Q[k + 1] = Tail(B)
  BY <1>0
<1>2. Len(B) >= 1 /\ Head(B) = B[1] /\ Head(B) \in Parcels
  <2> HIDE DEF A, B
  <2>1. Len(B) # 0
    BY <1>1, EmptySeq
  <2>2. Head(B) = B[1] /\ B[1] \in Parcels
    BY <1>1, <2>1, HeadTailProperties, ElementOfSeq
  <2> QED BY <1>1, <2>1, <2>2
<1>3. Len(Q[k]) = last /\ Q[k][last] = P[k + 1][1] /\ \A i \in 1..Len(P[k]) : Q[k][i] = P[k][i]
  <2> HIDE DEF A, B
  <2>1. Len(Append(A, Head(B))) = Len(A) + 1 /\ Append(A, Head(B))[Len(A) + 1] = Head(B)
          /\ \A i \in 1..Len(A) : Append(A, Head(B))[i] = A[i]
    BY <1>1, <1>2, AppendProperties
  <2>2. Len(Q[k]) = Len(A) + 1 /\ Q[k][Len(A) + 1] = B[1] /\ \A i \in 1..Len(A) : Q[k][i] = A[i]
    BY <1>1, <1>2, <2>1
  <2> QED BY <2>2 DEF A, B
<1>4. Len(Q[k + 1]) = Len(P[k + 1]) - 1 /\ \A i \in 1..Len(Q[k + 1]) : Q[k + 1][i] = P[k + 1][i + 1]
  <2> HIDE DEF A, B
  <2>1. Len(Tail(B)) = Len(B) - 1 /\ \A i \in 1..Len(Tail(B)) : Tail(B)[i] = B[i + 1]
    BY <1>1, HeadTailProperties
  <2> QED BY <1>1, <2>1 DEF B
<1> HIDE DEF A, B
<1>5. ASSUME NEW a \in 1..7, NEW i \in 1..Len(Q[a])
      PROVE  sg(a, i) \in 1..7 /\ ix(a, i) \in 1..Len(P[sg(a, i)])
               /\ P[sg(a, i)][ix(a, i)] = Q[a][i] /\ i \in Nat /\ (a = k => i <= last)
  <2>1. CASE a = k /\ i = last
    <3>1. sg(a, i) = k + 1 /\ ix(a, i) = 1 /\ Q[a][i] = P[k + 1][1]
      BY <1>3, <2>1
    <3>2. 1 \in 1..Len(P[k + 1]) /\ i \in Nat /\ i <= last
      BY <1>0, <1>2, <2>1 DEF B
    <3> HIDE DEF sg, ix, last
    <3> QED BY <1>0, <3>1, <3>2
  <2>2. CASE a = k /\ i # last
    <3>1. sg(a, i) = k /\ ix(a, i) = i
      BY <2>2
    <3>2. i \in 1..Len(P[k]) /\ i \in Nat /\ i <= last
      <4>1. i \in 1..(Len(P[k]) + 1) /\ i # Len(P[k]) + 1
        BY <1>3, <2>2
      <4> QED BY <1>0, <4>1
    <3> HIDE DEF sg, ix, last
    <3> QED BY <1>0, <1>3, <2>2, <3>1, <3>2
  <2>3. CASE a = k + 1
    <3>1. a # k
      BY <2>3
    <3>2. sg(a, i) = k + 1 /\ ix(a, i) = i + 1
      BY <2>3, <3>1
    <3>3. i + 1 \in 1..Len(P[k + 1]) /\ i \in Nat /\ Q[a][i] = P[k + 1][i + 1]
      <4>1. i \in 1..(Len(P[k + 1]) - 1)
        BY <1>4, <2>3
      <4>2. Q[k + 1][i] = P[k + 1][i + 1]
        BY <1>4, <4>1
      <4>3. i + 1 \in 1..Len(P[k + 1]) /\ i \in Nat
        BY <1>0, <4>1
      <4>4. Q[a][i] = Q[k + 1][i]
        BY <2>3
      <4> QED BY <4>2, <4>3, <4>4
    <3> HIDE DEF sg, ix, last
    <3> QED BY <1>0, <3>1, <3>2, <3>3
  <2>4. CASE a # k /\ a # k + 1
    <3>1. sg(a, i) = a /\ ix(a, i) = i /\ Q[a] = P[a]
      BY <2>4
    <3> HIDE DEF sg, ix, last
    <3> QED BY <2>4, <3>1
  <2> QED BY <2>1, <2>2, <2>3, <2>4
<1>6. ASSUME NEW a \in 1..7, NEW b \in 1..7, NEW i \in 1..Len(Q[a]), NEW j \in 1..Len(Q[b]),
             a < b \/ (a = b /\ i < j)
      PROVE  sg(a, i) < sg(b, j) \/ (sg(a, i) = sg(b, j) /\ ix(a, i) < ix(b, j))
  <2>1. i \in Nat /\ j \in Nat /\ (a = k => i <= last) /\ (b = k => j <= last)
    BY <1>5
  <2>2. i >= 1 /\ j >= 1
    OBVIOUS
  <2>3. last \in Nat
    BY <1>0
  <2> HIDE DEF last
  <2> QED BY <1>6, <2>1, <2>2, <2>3
<1> HIDE DEF sg, ix
<1>7. ASSUME NEW a \in 1..7, NEW b \in 1..7, NEW i \in 1..Len(Q[a]), NEW j \in 1..Len(Q[b]),
             a < b \/ (a = b /\ i < j)
      PROVE  Follows(Q[a][i], Q[b][j])
  <2>1. sg(a, i) \in 1..7 /\ ix(a, i) \in 1..Len(P[sg(a, i)])
          /\ P[sg(a, i)][ix(a, i)] = Q[a][i]
    BY <1>5
  <2>2. sg(b, j) \in 1..7 /\ ix(b, j) \in 1..Len(P[sg(b, j)])
          /\ P[sg(b, j)][ix(b, j)] = Q[b][j]
    BY <1>5
  <2>3. sg(a, i) < sg(b, j) \/ (sg(a, i) = sg(b, j) /\ ix(a, i) < ix(b, j))
    BY <1>6, <1>7
  <2>4. Follows(P[sg(a, i)][ix(a, i)], P[sg(b, j)][ix(b, j)])
    BY <2>1, <2>2, <2>3 DEF InTurn
  <2> QED BY <2>1, <2>2, <2>4
<1>8. ASSUME NEW a \in 1..7, NEW i \in 1..Len(Q[a]), Q[a][i].id = "ServerPing"
      PROVE  Q[a][i].body[1] <= n
  <2>1. sg(a, i) \in 1..7 /\ ix(a, i) \in 1..Len(P[sg(a, i)])
          /\ P[sg(a, i)][ix(a, i)] = Q[a][i]
    BY <1>5
  <2> QED BY <1>8, <2>1 DEF InTurn
<1> QED BY <1>7, <1>8 DEF InTurn

\* Of each segment there is less: nothing, all but the first, or only the first.
Shortened(Q, P) ==
  \A a \in 1..7 : \/ Q[a] = P[a] \/ Q[a] = <<>>
                  \/ P[a] # <<>> /\ (Q[a] = Tail(P[a]) \/ Q[a] = <<Head(P[a])>>)

LEMMA Lost ==
  ASSUME NEW P \in Pipes, NEW Q \in Pipes, NEW n, InTurn(P, n), Shortened(Q, P)
  PROVE  InTurn(Q, n)
<1> DEFINE d(a) == IF P[a] # <<>> /\ Q[a] = Tail(P[a]) THEN 1 ELSE 0
<1>1. ASSUME NEW a \in 1..7, NEW i \in 1..Len(Q[a])
      PROVE  i + d(a) \in 1..Len(P[a]) /\ P[a][i + d(a)] = Q[a][i] /\ i \in Nat
  <2>1. P[a] \in Seq(Parcels) /\ Q[a] \in Seq(Parcels)
    BY DEF Pipes
  <2>2. Len(P[a]) \in Nat /\ Len(Q[a]) \in Nat
    BY <2>1, LenProperties
  <2>3. CASE P[a] # <<>> /\ Q[a] = Tail(P[a])
    BY <2>1, <2>2, <2>3, HeadTailProperties
  <2>4. CASE ~ (P[a] # <<>> /\ Q[a] = Tail(P[a])) /\ Q[a] = P[a]
    BY <2>2, <2>4
  <2>5. CASE Q[a] = <<>>
    BY <2>5
  <2>6. CASE ~ (P[a] # <<>> /\ Q[a] = Tail(P[a])) /\ P[a] # <<>> /\ Q[a] = <<Head(P[a])>>
    <3>1. Len(Q[a]) = 1 /\ Q[a][1] = P[a][1]
      BY <2>1, <2>6
    <3>2. i = 1
      BY <3>1
    <3>3. 1 \in 1..Len(P[a])
      BY <2>1, <2>2, <2>6, EmptySeq
    <3> QED BY <2>6, <3>1, <3>2, <3>3
  <2> QED BY <2>3, <2>4, <2>5, <2>6 DEF Shortened
<1>2. \A a \in 1..7 : d(a) \in {0, 1}
  OBVIOUS
<1> HIDE DEF d
<1>3. ASSUME NEW a \in 1..7, NEW b \in 1..7, NEW i \in 1..Len(Q[a]), NEW j \in 1..Len(Q[b]),
             a < b \/ (a = b /\ i < j)
      PROVE  Follows(Q[a][i], Q[b][j])
  <2>1. i + d(a) \in 1..Len(P[a]) /\ P[a][i + d(a)] = Q[a][i] /\ i \in Nat
    BY <1>1
  <2>2. j + d(b) \in 1..Len(P[b]) /\ P[b][j + d(b)] = Q[b][j] /\ j \in Nat
    BY <1>1
  <2>3. a < b \/ (a = b /\ i + d(a) < j + d(b))
    <3>1. d(a) \in Nat /\ (a = b => d(a) = d(b))
      BY <1>2
    <3>2. a = b /\ i < j => i + d(a) < j + d(b)
      BY <2>1, <2>2, <3>1
    <3> QED BY <1>3, <3>2
  <2>4. Follows(P[a][i + d(a)], P[b][j + d(b)])
    BY <2>1, <2>2, <2>3 DEF InTurn
  <2> QED BY <2>1, <2>2, <2>4
<1>4. ASSUME NEW a \in 1..7, NEW i \in 1..Len(Q[a]), Q[a][i].id = "ServerPing"
      PROVE  Q[a][i].body[1] <= n
  <2>1. i + d(a) \in 1..Len(P[a]) /\ P[a][i + d(a)] = Q[a][i]
    BY <1>1
  <2> QED BY <1>4, <2>1 DEF InTurn
<1> QED BY <1>3, <1>4 DEF InTurn

\* A message that is no ping comes in anywhere.
LEMMA Inserted ==
  ASSUME NEW P \in Pipes, NEW Q \in Pipes, NEW n, InTurn(P, n), NEW k \in 1..7,
         NEW m \in Parcels, m.id # "ServerPing", Q[k] = Append(P[k], m),
         \A a \in 1..7 : a # k => Q[a] = P[a]
  PROVE  InTurn(Q, n)
<1>1. P[k] \in Seq(Parcels) /\ Len(P[k]) \in Nat
  BY LenProperties DEF Pipes
<1>2. Len(Q[k]) = Len(P[k]) + 1 /\ Q[k][Len(P[k]) + 1] = m
        /\ \A i \in 1..Len(P[k]) : Q[k][i] = P[k][i]
  BY <1>1, AppendProperties
<1>3. ASSUME NEW a \in 1..7, NEW i \in 1..Len(Q[a]), Q[a][i].id = "ServerPing"
      PROVE  i \in 1..Len(P[a]) /\ P[a][i] = Q[a][i]
  <2>1. CASE a = k
    <3>1. i \in 1..(Len(P[k]) + 1) /\ Q[a] = Q[k] /\ P[a] = P[k]
      BY <1>2, <2>1
    <3>2. i # Len(P[k]) + 1
      BY <1>2, <1>3, <3>1
    <3>3. i \in 1..Len(P[k])
      BY <1>1, <3>1, <3>2
    <3> QED BY <1>2, <3>1, <3>3
  <2>2. CASE a # k
    BY <2>2
  <2> QED BY <2>1, <2>2
<1>4. ASSUME NEW a \in 1..7, NEW b \in 1..7, NEW i \in 1..Len(Q[a]), NEW j \in 1..Len(Q[b]),
             a < b \/ (a = b /\ i < j)
      PROVE  Follows(Q[a][i], Q[b][j])
  <2> SUFFICES ASSUME Q[a][i].id = "ServerPing", Q[b][j].id = "ServerPing"
               PROVE  Q[a][i].body[1] < Q[b][j].body[1]
    BY DEF Follows
  <2>1. i \in 1..Len(P[a]) /\ P[a][i] = Q[a][i] /\ j \in 1..Len(P[b]) /\ P[b][j] = Q[b][j]
    BY <1>3
  <2> QED BY <1>4, <2>1 DEF InTurn, Follows
<1>5. ASSUME NEW a \in 1..7, NEW i \in 1..Len(Q[a]), Q[a][i].id = "ServerPing"
      PROVE  Q[a][i].body[1] <= n
  BY <1>3, <1>5 DEF InTurn
<1> QED BY <1>4, <1>5 DEF InTurn

\* The keys put a ping in hand that is later than all the others.
LEMMA Begun ==
  ASSUME NEW P \in Pipes, NEW Q \in Pipes, NEW n \in Nat, NEW n2 \in Nat, InTurn(P, n),
         \A a \in 1..6 : Q[a] = P[a],
         \/ Q[7] \in {<<>>, <<AllMessage>>} /\ n2 >= n
         \/ Q[7] \in {<<PingMessage(n + 1)>>, <<PingMessage(n + 1), AllMessage>>} /\ n2 >= n + 1
  PROVE  InTurn(Q, n2)
<1> DEFINE p == PingMessage(n + 1)
<1>1. p.id = "ServerPing" /\ p.body[1] = n + 1 /\ AllMessage.id # "ServerPing"
  <2>1. n + 1 \in Nat
    OBVIOUS
  <2>2. p.id = "ServerPing" /\ p.body[1] = n + 1
    BY <2>1, PingBody
  <2>3. AllMessage.id # "ServerPing"
    BY DEF AllMessage
  <2> QED BY <2>2, <2>3
<1> DEFINE w == AllMessage
<1>2. Q[7] \in {<<>>, <<w>>, <<p>>, <<p, w>>} /\ n2 >= n
        /\ (Q[7] \in {<<p>>, <<p, w>>} \/ n2 = n2) /\ (Q[7] \in {<<>>, <<w>>} \/ n2 >= n + 1)
  OBVIOUS
<1> HIDE DEF p, w
<1>3. ASSUME NEW j \in 1..Len(Q[7]), Q[7][j].id = "ServerPing"
      PROVE  Q[7][j] = p /\ j = 1 /\ n2 >= n + 1
  <2>1. w.id # "ServerPing"
    BY <1>1 DEF w
  <2>2. CASE Q[7] = <<>>
    BY <2>2
  <2>3. CASE Q[7] = <<w>>
    BY <1>3, <2>1, <2>3
  <2>4. CASE Q[7] = <<p>> /\ n2 >= n + 1
    BY <2>4
  <2>5. CASE Q[7] = <<p, w>> /\ n2 >= n + 1
    <3>1. j = 1 \/ j = 2
      BY <2>5
    <3>2. j # 2
      BY <1>3, <2>1, <2>5
    <3> QED BY <2>5, <3>1, <3>2
  <2> QED BY <1>2, <2>2, <2>3, <2>4, <2>5
<1>4. ASSUME NEW a \in 1..6, NEW i \in 1..Len(Q[a])
      PROVE  i \in 1..Len(P[a]) /\ Q[a][i] = P[a][i]
               /\ (Q[a][i].id = "ServerPing" => Q[a][i].body[1] <= n)
  <2>1. a \in 1..7 /\ Q[a] = P[a]
    OBVIOUS
  <2> QED BY <2>1 DEF InTurn
<1>5. ASSUME NEW k \in Pings PROVE k.body[1] \in Nat
  BY <1>5, PingBody DEF Pings
<1>6. ASSUME NEW a \in 1..7, NEW i \in 1..Len(Q[a]), Q[a][i].id = "ServerPing"
      PROVE  Q[a][i].body[1] \in Nat
  <2>1. Q[a] \in Seq(Parcels)
    BY DEF Pipes
  <2>2. Q[a][i] \in Parcels
    BY <2>1, ElementOfSeq
  <2>3. Q[a][i] \in Pings
    BY <1>6, <2>2, MessageIds DEF Parcels, Close
  <2> QED BY <1>5, <2>3
<1>7. ASSUME NEW a \in 1..7, NEW i \in 1..Len(Q[a]), Q[a][i].id = "ServerPing"
      PROVE  Q[a][i].body[1] <= n2
  <2>1. CASE a = 7
    BY <1>1, <1>3, <1>7, <2>1 DEF p
  <2>2. CASE a # 7
    <3>1. a \in 1..6
      BY <2>2
    <3> DEFINE x == Q[a][i].body[1]
    <3>2. x <= n /\ x \in Nat
      BY <1>4, <1>6, <1>7, <3>1
    <3> HIDE DEF x
    <3>3. x <= n2
      BY <1>2, <3>2
    <3> QED BY <3>3 DEF x
  <2> QED BY <2>1, <2>2
<1>8. ASSUME NEW a \in 1..7, NEW b \in 1..7, NEW i \in 1..Len(Q[a]), NEW j \in 1..Len(Q[b]),
             a < b \/ (a = b /\ i < j), Q[a][i].id = "ServerPing", Q[b][j].id = "ServerPing"
      PROVE  Q[a][i].body[1] < Q[b][j].body[1]
  <2>1. CASE b = 7
    <3>1. Q[b][j].body[1] = n + 1 /\ j = 1
      BY <1>1, <1>3, <1>8, <2>1
    <3>2. a # 7
      <4>1. ASSUME a = 7 PROVE FALSE
        <5>1. i < 1 /\ i = 1
          BY <1>3, <1>8, <2>1, <3>1, <4>1
        <5> QED BY <5>1
      <4> QED BY <4>1
    <3>3. a \in 1..6
      BY <3>2
    <3>4. Q[a][i].body[1] <= n /\ Q[a][i].body[1] \in Nat
      BY <1>4, <1>6, <1>8, <3>3
    <3> DEFINE x == Q[a][i].body[1]
               y == Q[b][j].body[1]
    <3>5. y = n + 1 /\ x <= n /\ x \in Nat
      BY <3>1, <3>4
    <3> HIDE DEF x, y
    <3>6. x < y
      BY <3>5
    <3> QED BY <3>6 DEF x, y
  <2>2. CASE b # 7
    <3>1. a \in 1..6 /\ b \in 1..6 /\ a \in 1..7 /\ b \in 1..7
      BY <1>8, <2>2
    <3>2. i \in 1..Len(P[a]) /\ Q[a][i] = P[a][i] /\ j \in 1..Len(P[b]) /\ Q[b][j] = P[b][j]
      BY <1>4, <3>1
    <3>3. Follows(P[a][i], P[b][j])
      BY <1>8, <3>1, <3>2 DEF InTurn
    <3>4. Follows(Q[a][i], Q[b][j])
      BY <3>2, <3>3
    <3> QED BY <1>8, <3>4 DEF Follows
  <2> QED BY <2>1, <2>2
<1> QED BY <1>7, <1>8 DEF InTurn, Follows

-----------------------------------------------------------------------------
(* The same, of the steps of the model.                                    *)

Ordered == InTurn(Pipe, sends)

LEMMA Widen ==
  ASSUME NEW s \in Seq(Msgs)
  PROVE  s \in Seq(Parcels)
<1>1. s \in [1..Len(s) -> Msgs] /\ Len(s) \in Nat
  BY LenProperties
<1>2. s \in [1..Len(s) -> Parcels]
  BY <1>1 DEF Parcels
<1> QED BY <1>1, <1>2, SeqDef

\* A time that was read stands for the ping it was read from.
LEMMA TimeOfPing ==
  ASSUME NEW t \in Times
  PROVE  [id |-> "ServerPing", body |-> t] \in Pings
<1>1. PICK k \in Nat : t = PingMessage(k).body
  BY DEF Times, Pings
<1> QED BY <1>1, PingBody DEF Pings

LEMMA ReadAsPingsType ==
  ASSUME timesRead \in Seq(Times)
  PROVE  /\ ReadAsPings \in Seq(Msgs) /\ Len(ReadAsPings) = Len(timesRead)
         /\ \A i \in 1..Len(timesRead) :
              ReadAsPings[i] = [id |-> "ServerPing", body |-> timesRead[i]]
<1>1. Len(timesRead) \in Nat /\ \A i \in 1..Len(timesRead) : timesRead[i] \in Times
  BY LenProperties, ElementOfSeq
<1>2. \A i \in 1..Len(timesRead) : [id |-> "ServerPing", body |-> timesRead[i]] \in Msgs
  BY <1>1, TimeOfPing DEF Msgs
<1>3. ReadAsPings \in [1..Len(timesRead) -> Msgs]
  BY <1>2 DEF ReadAsPings
<1>4. ReadAsPings \in Seq(Msgs)
  BY <1>1, <1>3, SeqDef
<1>5. Len(ReadAsPings) = Len(timesRead)
  BY <1>1, <1>3, <1>4, LenProperties
<1> QED BY <1>4, <1>5 DEF ReadAsPings

LEMMA PipeType == SegInv => Pipe \in Pipes
<1> SUFFICES ASSUME SegInv PROVE Pipe \in Pipes
  OBVIOUS
<1>1. Unsent \in Seq(Msgs)
  BY Pull DEF SegInv, Segments, InUse, Unsent
<1>2. ReadAsPings \in Seq(Msgs)
  BY ReadAsPingsType DEF SegInv, Segments
<1>3. /\ ReadAsPings \in Seq(Parcels) /\ recvDeq \in Seq(Parcels) /\ toClient \in Seq(Parcels)
      /\ toServer \in Seq(Parcels) /\ Unsent \in Seq(Parcels) /\ inHand \in Seq(Parcels)
      /\ posted \in Seq(Parcels)
  BY <1>1, <1>2, Widen DEF SegInv, Segments, Parcels
<1> QED BY <1>3 DEF Pipe, Pipes

LEMMA PipeParts ==
  /\ Pipe[1] = ReadAsPings /\ Pipe[2] = recvDeq /\ Pipe[3] = toClient /\ Pipe[4] = toServer
  /\ Pipe[5] = Unsent /\ Pipe[6] = posted /\ Pipe[7] = inHand
BY DEF Pipe

LEMMA OrderedInit == Init => Ordered
<1> SUFFICES ASSUME Init PROVE Ordered
  OBVIOUS
<1>1. timesRead = <<>>
  BY DEF Init
<1>2. Len(ReadAsPings) = 0
  <2>1. timesRead \in Seq(Times)
    BY <1>1, EmptySeq
  <2> QED BY <1>1, <2>1, ReadAsPingsType
<1>3. \A a \in 1..7 : Len(Pipe[a]) = 0
  BY <1>2 DEF Init, Pipe, Unsent
<1>4. \A a \in 1..7 : 1..Len(Pipe[a]) = {}
  BY <1>3
<1> HIDE DEF Pipe
<1> QED BY <1>4 DEF Ordered, InTurn

\* A further time is a further ping.
LEMMA AppendReadAsPings ==
  ASSUME timesRead \in Seq(Times), NEW m \in Pings, timesRead' = Append(timesRead, m.body),
         m.body \in Times
  PROVE  ReadAsPings' = Append(ReadAsPings, m)
<1> DEFINE n == Len(timesRead)
           R == ReadAsPings
<1>1. R \in Seq(Msgs) /\ Len(R) = n /\ n \in Nat
        /\ \A i \in 1..n : R[i] = [id |-> "ServerPing", body |-> timesRead[i]]
  BY ReadAsPingsType, LenProperties
<1>2. Len(timesRead') = n + 1 /\ timesRead'[n + 1] = m.body
        /\ \A i \in 1..n : timesRead'[i] = timesRead[i]
  BY AppendProperties
<1>3. m = [id |-> "ServerPing", body |-> m.body] /\ m \in Msgs
  BY PingBody DEF Pings, Msgs
<1>4. Append(R, m) \in Seq(Msgs) /\ Len(Append(R, m)) = n + 1 /\ Append(R, m)[n + 1] = m
        /\ \A i \in 1..n : Append(R, m)[i] = R[i]
  BY <1>1, <1>3, AppendProperties
<1> DEFINE S == [i \in 1..(n + 1) |-> [id |-> "ServerPing", body |-> timesRead'[i]]]
<1>5. ReadAsPings' = S
  BY <1>2 DEF ReadAsPings
<1> HIDE DEF n, R
<1>6. ASSUME NEW i \in 1..(n + 1) PROVE S[i] = Append(R, m)[i]
  <2>1. CASE i = n + 1
    BY <1>2, <1>3, <1>4, <2>1
  <2>2. CASE i # n + 1
    <3>1. i \in 1..n
      <4>1. n \in Nat /\ i \in 1..(n + 1)
        BY <1>1
      <4> QED BY <2>2, <4>1
    <3> QED BY <1>1, <1>2, <1>4, <3>1
  <2> QED BY <2>1, <2>2
<1>7. Append(R, m) = [i \in 1..(n + 1) |-> Append(R, m)[i]]
  <2>1. DOMAIN Append(R, m) = 1..(n + 1) /\ Append(R, m) \in [1..(n + 1) -> Msgs]
    BY <1>4, LenProperties
  <2> QED BY <2>1
<1>8. S = Append(R, m)
  BY <1>6, <1>7
<1> QED BY <1>5, <1>8 DEF R

LEMMA PipeNext == (SegInv => Pipe \in Pipes)'
BY PipeType, PTL

PipeVars == <<timesRead, recvDeq, toClient, toServer, Unsent, posted, inHand>>

LEMMA OrderedSame == ASSUME Ordered, UNCHANGED <<PipeVars, sends>> PROVE Ordered'
<1>1. Pipe' = Pipe
  BY DEF PipeVars, Pipe, ReadAsPings
<1> QED BY <1>1 DEF Ordered

LEMMA PipeNextParts ==
  /\ Pipe'[1] = ReadAsPings' /\ Pipe'[2] = recvDeq' /\ Pipe'[3] = toClient'
  /\ Pipe'[4] = toServer' /\ Pipe'[5] = Unsent' /\ Pipe'[6] = posted' /\ Pipe'[7] = inHand'
  /\ UNCHANGED timesRead => Pipe'[1] = Pipe[1]
BY DEF Pipe, ReadAsPings

\* All the segments but k and l are as they were.
Kept(k, l) ==
  /\ k = 1 \/ l = 1 \/ UNCHANGED timesRead
  /\ k = 2 \/ l = 2 \/ UNCHANGED recvDeq
  /\ k = 3 \/ l = 3 \/ UNCHANGED toClient
  /\ k = 4 \/ l = 4 \/ UNCHANGED toServer
  /\ k = 5 \/ l = 5 \/ UNCHANGED Unsent
  /\ k = 6 \/ l = 6 \/ UNCHANGED posted
  /\ k = 7 \/ l = 7 \/ UNCHANGED inHand
  /\ UNCHANGED sends

LEMMA KeptParts ==
  ASSUME NEW k \in 1..7, NEW l \in 1..7, Kept(k, l)
  PROVE  /\ \A a \in 1..7 : a # k /\ a # l => Pipe'[a] = Pipe[a]
         /\ UNCHANGED sends
<1> DEFINE P == Pipe
           Q == Pipe'
<1>1. /\ 1 \in {k, l} \/ Q[1] = P[1]
      /\ 2 \in {k, l} \/ Q[2] = P[2]
      /\ 3 \in {k, l} \/ Q[3] = P[3]
      /\ 4 \in {k, l} \/ Q[4] = P[4]
      /\ 5 \in {k, l} \/ Q[5] = P[5]
      /\ 6 \in {k, l} \/ Q[6] = P[6]
      /\ 7 \in {k, l} \/ Q[7] = P[7]
  BY PipeParts, PipeNextParts DEF Kept
<1>2. UNCHANGED sends
  BY DEF Kept
<1> HIDE DEF P, Q
<1>3. ASSUME NEW a \in 1..7, a # k, a # l PROVE Q[a] = P[a]
  <2>1. a = 1 \/ a = 2 \/ a = 3 \/ a = 4 \/ a = 5 \/ a = 6 \/ a = 7
    OBVIOUS
  <2> QED BY <1>1, <1>3, <2>1
<1> QED BY <1>2, <1>3 DEF P, Q

\* A message has moved on.
LEMMA OrderedMoved ==
  ASSUME SegInv, SegInv', Ordered, NEW k \in 1..6, NEW l \in 1..7, l = k + 1, Kept(k, l),
         Pipe[l] # <<>>, Pipe'[k] = Append(Pipe[k], Head(Pipe[l])), Pipe'[l] = Tail(Pipe[l])
  PROVE  Ordered'
<1>1. Pipe \in Pipes /\ Pipe' \in Pipes
  BY PipeType, PipeNext
<1> DEFINE P == Pipe
           Q == Pipe'
<1>2. (\A a \in 1..7 : a # k /\ a # k + 1 => Q[a] = P[a]) /\ UNCHANGED sends
  BY KeptParts
<1>3. P \in Pipes /\ Q \in Pipes /\ InTurn(P, sends) /\ P[k + 1] # <<>>
        /\ Q[k] = Append(P[k], Head(P[k + 1])) /\ Q[k + 1] = Tail(P[k + 1])
  BY <1>1 DEF Ordered
<1> HIDE DEF P, Q
<1>4. InTurn(Q, sends)
  BY <1>2, <1>3, Moved
<1> QED BY <1>2, <1>4 DEF Ordered, P, Q

\* One segment has lost something.
LEMMA OrderedLost ==
  ASSUME SegInv, SegInv', Ordered, NEW k \in 1..7, Kept(k, k),
         Pipe'[k] = Pipe[k] \/ Pipe'[k] = <<>>
           \/ (Pipe[k] # <<>> /\ (Pipe'[k] = Tail(Pipe[k]) \/ Pipe'[k] = <<Head(Pipe[k])>>))
  PROVE  Ordered'
<1>1. Pipe \in Pipes /\ Pipe' \in Pipes
  BY PipeType, PipeNext
<1> DEFINE P == Pipe
           Q == Pipe'
<1>2. (\A a \in 1..7 : a # k => Q[a] = P[a]) /\ UNCHANGED sends
  BY KeptParts
<1>3. P \in Pipes /\ Q \in Pipes /\ InTurn(P, sends)
        /\ (Q[k] = P[k] \/ Q[k] = <<>>
              \/ (P[k] # <<>> /\ (Q[k] = Tail(P[k]) \/ Q[k] = <<Head(P[k])>>)))
  BY <1>1 DEF Ordered
<1> HIDE DEF P, Q
<1>4. Shortened(Q, P)
  BY <1>2, <1>3 DEF Shortened
<1>5. InTurn(Q, sends)
  BY <1>3, <1>4, Lost
<1> QED BY <1>2, <1>5 DEF Ordered, P, Q

\* A message that is no ping has come in.
LEMMA OrderedInserted ==
  ASSUME SegInv, SegInv', Ordered, NEW k \in 1..7, Kept(k, k),
         NEW m \in Parcels, m.id # "ServerPing", Pipe'[k] = Append(Pipe[k], m)
  PROVE  Ordered'
<1>1. Pipe \in Pipes /\ Pipe' \in Pipes
  BY PipeType, PipeNext
<1> DEFINE P == Pipe
           Q == Pipe'
<1>2. (\A a \in 1..7 : a # k => Q[a] = P[a]) /\ UNCHANGED sends
  BY KeptParts
<1>3. P \in Pipes /\ Q \in Pipes /\ InTurn(P, sends) /\ Q[k] = Append(P[k], m)
  BY <1>1 DEF Ordered
<1> HIDE DEF P, Q
<1>4. InTurn(Q, sends)
  BY <1>2, <1>3, Inserted
<1> QED BY <1>2, <1>4 DEF Ordered, P, Q

LEMMA OrderedMain ==
  ASSUME SegInv, SegInv', Ordered, MainStep
  PROVE  Ordered'
<1>0. Pipe \in Pipes /\ Pipe' \in Pipes /\ Segments /\ InUse
  BY PipeType, PipeNext DEF SegInv
<1>1. CASE ConnectThrows \/ Stop \/ Join \/ Release
  <2>1. UNCHANGED <<PipeVars, sends>>
    BY <1>1 DEF ConnectThrows, Stop, Join, Release, PipeVars, Unsent
  <2> QED BY <2>1, OrderedSame
<1>2. CASE Connect
  <2>1. UNCHANGED <<timesRead, recvDeq, posted, inHand, sends>> /\ toClient' = <<>>
          /\ toServer' = <<>> /\ Unsent' = <<>>
    BY <1>2 DEF Connect, Unsent
  <2> DEFINE P == Pipe
             Q == Pipe'
  <2>2. Q[1] = P[1] /\ Q[2] = P[2] /\ Q[3] = <<>> /\ Q[4] = <<>> /\ Q[5] = <<>>
          /\ Q[6] = P[6] /\ Q[7] = P[7]
    BY <2>1, PipeParts, PipeNextParts
  <2>3. P \in Pipes /\ Q \in Pipes /\ InTurn(P, sends)
    BY <1>0 DEF Ordered
  <2> HIDE DEF P, Q
  <2>4. ASSUME NEW a \in 1..7 PROVE Q[a] = P[a] \/ Q[a] = <<>>
    <3>1. a = 1 \/ a = 2 \/ a = 3 \/ a = 4 \/ a = 5 \/ a = 6 \/ a = 7
      OBVIOUS
    <3> QED BY <2>2, <3>1
  <2>5. InTurn(Q, sends)
    BY <2>3, <2>4, Lost DEF Shortened
  <2> QED BY <2>1, <2>5 DEF Ordered, P, Q
<1>3. ASSUME NEW ping \in BOOLEAN, NEW all \in BOOLEAN, NEW three \in BOOLEAN,
             Keys(ping, all, three)
      PROVE  Ordered'
  <2>1. sends \in Nat /\ sends' = sends + Len(inHand')
    BY <1>0, <1>3 DEF Keys, Segments
  <2>2. inHand' = (IF ping THEN <<PingMessage(sends + 1)>> ELSE <<>>)
                    \o (IF all THEN <<AllMessage>> ELSE <<>>)
    BY <1>3 DEF Keys
  <2>3. /\ Len(inHand') \in Nat
        /\ inHand' \in {<<>>, <<PingMessage(sends + 1)>>, <<AllMessage>>,
                        <<PingMessage(sends + 1), AllMessage>>}
        /\ ping => Len(inHand') >= 1
        /\ ~ ping => inHand' \in {<<>>, <<AllMessage>>}
    BY <2>1, <2>2, KeysHand
  <2>4. \/ inHand' \in {<<>>, <<AllMessage>>} /\ sends' >= sends
        \/ inHand' \in {<<PingMessage(sends + 1)>>, <<PingMessage(sends + 1), AllMessage>>}
             /\ sends' >= sends + 1
    <3>1. CASE ping
      <4>1. sends' >= sends + 1 /\ sends' >= sends
        BY <2>1, <2>3, <3>1
      <4> QED BY <2>3, <4>1
    <3>2. CASE ~ ping
      <4>1. sends' >= sends
        BY <2>1, <2>3
      <4> QED BY <2>3, <3>2, <4>1
    <3> QED BY <3>1, <3>2
  <2>5. UNCHANGED <<timesRead, recvDeq, toClient, toServer, Unsent, posted>>
    BY <1>3 DEF Keys, Unsent
  <2>6. sends' \in Nat
    BY <2>1, <2>3
  <2> DEFINE P == Pipe
             Q == Pipe'
             n == sends
             n2 == sends'
  <2>7. Q[1] = P[1] /\ Q[2] = P[2] /\ Q[3] = P[3] /\ Q[4] = P[4] /\ Q[5] = P[5]
          /\ Q[6] = P[6] /\ Q[7] = inHand'
    BY <2>5, PipeParts, PipeNextParts
  <2>8. P \in Pipes /\ Q \in Pipes /\ n \in Nat /\ n2 \in Nat /\ InTurn(P, n)
          /\ \/ Q[7] \in {<<>>, <<AllMessage>>} /\ n2 >= n
             \/ Q[7] \in {<<PingMessage(n + 1)>>, <<PingMessage(n + 1), AllMessage>>}
                  /\ n2 >= n + 1
    BY <1>0, <2>1, <2>4, <2>6, <2>7 DEF Ordered
  <2> HIDE DEF P, Q, n, n2
  <2>9. ASSUME NEW a \in 1..6 PROVE Q[a] = P[a]
    <3>1. a = 1 \/ a = 2 \/ a = 3 \/ a = 4 \/ a = 5 \/ a = 6
      OBVIOUS
    <3> QED BY <2>7, <3>1
  <2>10. InTurn(Q, n2)
    BY <2>8, <2>9, Begun
  <2> QED BY <2>10 DEF Ordered, Q, n2
<1>4. CASE Send
  <2>1. UNCHANGED <<timesRead, recvDeq, toClient, toServer, Unsent, posted, sends>>
          /\ inHand # <<>> /\ (inHand' = inHand \/ inHand' = Tail(inHand))
    BY <1>4 DEF Send, Unsent
  <2>2. Kept(7, 7) /\ (Pipe'[7] = Pipe[7] \/ Pipe'[7] = <<>>
          \/ (Pipe[7] # <<>> /\ (Pipe'[7] = Tail(Pipe[7]) \/ Pipe'[7] = <<Head(Pipe[7])>>)))
    BY <2>1, PipeParts, PipeNextParts DEF Kept
  <2> QED BY <2>2, OrderedLost
<1>5. CASE Post
  <2>1. UNCHANGED <<timesRead, recvDeq, toClient, toServer, Unsent, sends>>
          /\ posted' = Append(posted, Head(inHand)) /\ inHand' = Tail(inHand) /\ inHand # <<>>
    BY <1>0, <1>5 DEF Post, Unsent, InUse
  <2>2. Kept(6, 7) /\ Pipe[7] # <<>> /\ Pipe'[6] = Append(Pipe[6], Head(Pipe[7]))
          /\ Pipe'[7] = Tail(Pipe[7])
    BY <2>1, PipeParts, PipeNextParts DEF Kept
  <2> QED BY <2>2, OrderedMoved
<1>6. CASE Receive
  <2>1. UNCHANGED <<toClient, toServer, Unsent, posted, inHand, sends>>
    BY <1>6 DEF Receive, Unsent
  <2>2. CASE UNCHANGED <<recvDeq, timesRead>>
    BY <2>1, <2>2, OrderedSame DEF PipeVars
  <2>3. CASE recvDeq # <<>> /\ HandleFirst
    <3> DEFINE m == Head(recvDeq)
    <3>1. m \in Msgs /\ recvDeq' = Tail(recvDeq)
      BY <1>0, <2>3, Pull DEF HandleFirst, Segments
    <3>2. CASE m.id = "ServerPing"
      <4>1. m \in Pings /\ timesRead' = Append(timesRead, m.body) /\ m.body \in Times
        BY <2>3, <3>1, <3>2, MessageIds, PopPing DEF HandleFirst
      <4> HIDE DEF m
      <4>2. ReadAsPings' = Append(ReadAsPings, m)
        BY <1>0, <4>1, AppendReadAsPings DEF Segments
      <4>3. Kept(1, 2) /\ Pipe[2] # <<>> /\ Pipe'[1] = Append(Pipe[1], Head(Pipe[2]))
              /\ Pipe'[2] = Tail(Pipe[2])
        BY <2>1, <2>3, <3>1, <4>2, PipeParts, PipeNextParts DEF Kept, m
      <4> QED BY <4>3, OrderedMoved
    <3>3. CASE m.id # "ServerPing"
      <4>1. UNCHANGED timesRead
        BY <2>3, <3>3 DEF HandleFirst
      <4>2. Kept(2, 2) /\ (Pipe'[2] = Pipe[2] \/ Pipe'[2] = <<>>
              \/ (Pipe[2] # <<>> /\ (Pipe'[2] = Tail(Pipe[2]) \/ Pipe'[2] = <<Head(Pipe[2])>>)))
        BY <2>1, <2>3, <3>1, <4>1, PipeParts, PipeNextParts DEF Kept
      <4> QED BY <4>2, OrderedLost
    <3> QED BY <3>2, <3>3
  <2> QED BY <1>6, <2>2, <2>3 DEF Receive
<1>7. CASE Disconnect
  <2>1. UNCHANGED <<timesRead, recvDeq, toClient, toServer, Unsent, inHand, sends>>
          /\ (posted' = Append(posted, Close) \/ posted' = posted)
    BY <1>7 DEF Disconnect, Unsent
  <2>2. CASE posted' = posted
    BY <2>1, <2>2, OrderedSame DEF PipeVars
  <2>3. CASE posted' = Append(posted, Close)
    <3>1. Close \in Parcels /\ Close.id # "ServerPing"
      BY DEF Parcels, Close
    <3>2. Kept(6, 6) /\ Pipe'[6] = Append(Pipe[6], Close)
      BY <2>1, <2>3, PipeParts, PipeNextParts DEF Kept
    <3> QED BY <3>1, <3>2, OrderedInserted
  <2> QED BY <2>1, <2>2, <2>3
<1> QED BY <1>1, <1>2, <1>3, <1>4, <1>5, <1>6, <1>7 DEF MainStep

LEMMA OrderedContext ==
  ASSUME SegInv, SegInv', Ordered, ContextStep
  PROVE  Ordered'
<1>0. Pipe \in Pipes /\ Pipe' \in Pipes /\ Segments /\ InUse
  BY PipeType, PipeNext DEF SegInv
<1>1. CASE (\E h \in {"connect", "task", "write", "read"} : TakeUp(h)) \/ ConnectHandler
             \/ RunReturns
  <2>1. UNCHANGED <<PipeVars, sends>>
    BY <1>1 DEF TakeUp, ConnectHandler, RunReturns, PipeVars, Unsent
  <2> QED BY <2>1, OrderedSame
<1>2. CASE RunSend
  <2> DEFINE m == Head(posted)
  <2>1. UNCHANGED <<timesRead, recvDeq, toClient, toServer, inHand, sends>> /\ posted # <<>>
          /\ posted' = Tail(posted) /\ sendDeq' = Append(sendDeq, m)
    BY <1>0, <1>2 DEF RunSend, Enqueued, InUse
  <2>2. Unsent' = Append(Unsent, m)
    <3>1. CASE sendDeq = <<>>
      <4>1. writeOp = "none" /\ writeOp' = "pending"
        BY <1>0, <1>2, <3>1 DEF RunSend, InUse
      <4> QED BY <2>1, <4>1 DEF Unsent
    <3>2. CASE sendDeq # <<>>
      <4>1. writeOp' = writeOp
        BY <1>2, <3>2 DEF RunSend
      <4>2. m \in Msgs
        BY <1>2, <2>1, FirstPosted DEF RunSend
      <4> HIDE DEF m
      <4>3. Tail(Append(sendDeq, m)) = Append(Tail(sendDeq), m)
        BY <1>0, <3>2, <4>2, HeadTailAppend DEF Segments
      <4> QED BY <2>1, <4>1, <4>3 DEF Unsent
    <3> QED BY <3>1, <3>2
  <2>3. Kept(5, 6) /\ Pipe[6] # <<>> /\ Pipe'[5] = Append(Pipe[5], Head(Pipe[6]))
          /\ Pipe'[6] = Tail(Pipe[6])
    BY <2>1, <2>2, PipeParts, PipeNextParts DEF Kept
  <2> QED BY <2>3, OrderedMoved
<1>3. CASE RunClose
  <2>1. UNCHANGED <<timesRead, recvDeq, toClient, toServer, Unsent, inHand, sends>>
          /\ posted # <<>> /\ posted' = Tail(posted)
    BY <1>0, <1>3 DEF RunClose, Unsent, InUse
  <2>2. Kept(6, 6) /\ (Pipe'[6] = Pipe[6] \/ Pipe'[6] = <<>>
          \/ (Pipe[6] # <<>> /\ (Pipe'[6] = Tail(Pipe[6]) \/ Pipe'[6] = <<Head(Pipe[6])>>)))
    BY <2>1, PipeParts, PipeNextParts DEF Kept
  <2> QED BY <2>2, OrderedLost
<1>4. CASE WriteHandler
  <2>1. UNCHANGED <<timesRead, recvDeq, toClient, toServer, posted, inHand, sends>>
    BY <1>4 DEF WriteHandler
  <2>2. Unsent' = Unsent
    BY <1>4 DEF WriteHandler, Unsent
  <2> QED BY <2>1, <2>2, OrderedSame DEF PipeVars
<1>5. CASE ReadHandler
  <2>1. UNCHANGED <<timesRead, toServer, Unsent, posted, inHand, sends>>
    BY <1>5 DEF ReadHandler, Unsent
  <2>2. CASE UNCHANGED <<toClient, recvDeq>>
    BY <2>1, <2>2, OrderedSame DEF PipeVars
  <2>3. CASE readOp = "ok" /\ recvDeq' = Append(recvDeq, Head(toClient))
               /\ toClient' = Tail(toClient)
    <3>1. Kept(2, 3) /\ Pipe[3] # <<>> /\ Pipe'[2] = Append(Pipe[2], Head(Pipe[3]))
            /\ Pipe'[3] = Tail(Pipe[3])
      BY <1>0, <2>1, <2>3, PipeParts, PipeNextParts DEF Kept, InUse
    <3> QED BY <3>1, OrderedMoved
  <2> QED BY <1>5, <2>2, <2>3 DEF ReadHandler
<1> QED BY <1>1, <1>2, <1>3, <1>4, <1>5 DEF ContextStep

LEMMA OrderedNetwork ==
  ASSUME SegInv, SegInv', Ordered, NetworkStep
  PROVE  Ordered'
<1>0. Pipe \in Pipes /\ Pipe' \in Pipes /\ Segments /\ InUse
  BY PipeType, PipeNext DEF SegInv
<1>1. CASE ConnectDone \/ ReadDone
  <2>1. UNCHANGED <<PipeVars, sends>>
    BY <1>1 DEF ConnectDone, ReadDone, PipeVars, Unsent
  <2> QED BY <2>1, OrderedSame
<1>2. CASE WriteDone
  <2>1. UNCHANGED <<timesRead, recvDeq, toClient, posted, inHand, sends, sendDeq>>
          /\ writeOp = "pending"
    BY <1>2 DEF WriteDone
  <2>2. CASE writeOp' = "error" /\ UNCHANGED toServer
    BY <2>1, <2>2, OrderedSame DEF PipeVars, Unsent
  <2>3. CASE writeOp' = "ok" /\ toServer' = Append(toServer, Head(sendDeq))
    <3>1. Unsent = sendDeq /\ Unsent' = Tail(sendDeq) /\ sendDeq # <<>>
      BY <1>0, <2>1, <2>3 DEF Unsent, InUse
    <3>2. Kept(4, 5) /\ Pipe[5] # <<>> /\ Pipe'[4] = Append(Pipe[4], Head(Pipe[5]))
            /\ Pipe'[5] = Tail(Pipe[5])
      BY <2>1, <2>3, <3>1, PipeParts, PipeNextParts DEF Kept
    <3> QED BY <3>2, OrderedMoved
  <2> QED BY <1>2, <2>2, <2>3 DEF WriteDone
<1>3. CASE ServerAnswers
  <2>1. UNCHANGED <<timesRead, recvDeq, Unsent, posted, inHand, sends>> /\ toServer # <<>>
          /\ toServer' = Tail(toServer)
    BY <1>3 DEF ServerAnswers, Unsent
  <2>2. CASE toClient' = toClient
    <3>1. Kept(4, 4) /\ (Pipe'[4] = Pipe[4] \/ Pipe'[4] = <<>>
            \/ (Pipe[4] # <<>> /\ (Pipe'[4] = Tail(Pipe[4]) \/ Pipe'[4] = <<Head(Pipe[4])>>)))
      BY <2>1, <2>2, PipeParts, PipeNextParts DEF Kept
    <3> QED BY <3>1, OrderedLost
  <2>3. CASE toClient' = Append(toClient, Head(toServer))
    <3>1. Kept(3, 4) /\ Pipe[4] # <<>> /\ Pipe'[3] = Append(Pipe[3], Head(Pipe[4]))
            /\ Pipe'[4] = Tail(Pipe[4])
      BY <2>1, <2>3, PipeParts, PipeNextParts DEF Kept
    <3> QED BY <3>1, OrderedMoved
  <2> QED BY <1>3, <2>2, <2>3 DEF ServerAnswers
<1>4. CASE ServerBroadcasts
  <2>1. UNCHANGED <<timesRead, recvDeq, toServer, Unsent, posted, inHand, sends>>
    BY <1>4 DEF ServerBroadcasts, Unsent
  <2>2. PICK m \in {[id |-> "ServerAccept", body |-> <<>>],
                    [id |-> "ServerMessage", body |-> Push(<<>>, <<0>>)]} :
          toClient' = Append(toClient, m)
    BY <1>4 DEF ServerBroadcasts
  <2>3. m \in Parcels /\ m.id # "ServerPing"
    BY DEF Parcels, Msgs
  <2>4. Kept(3, 3) /\ Pipe'[3] = Append(Pipe[3], m)
    BY <2>1, <2>2, PipeParts, PipeNextParts DEF Kept
  <2> QED BY <2>3, <2>4, OrderedInserted
<1>5. CASE LinkDown
  <2>1. UNCHANGED <<timesRead, recvDeq, toServer, Unsent, posted, inHand, sends>>
    BY <1>5 DEF LinkDown, Unsent
  <2>2. toClient' = toClient \/ toClient' = <<>>
          \/ (toClient # <<>> /\ toClient' = <<Head(toClient)>>)
    BY <1>0, <1>5 DEF LinkDown, InUse
  <2>3. Kept(3, 3) /\ (Pipe'[3] = Pipe[3] \/ Pipe'[3] = <<>>
          \/ (Pipe[3] # <<>> /\ (Pipe'[3] = Tail(Pipe[3]) \/ Pipe'[3] = <<Head(Pipe[3])>>)))
    BY <2>1, <2>2, PipeParts, PipeNextParts DEF Kept
  <2> QED BY <2>3, OrderedLost
<1> QED BY <1>1, <1>2, <1>3, <1>4, <1>5 DEF NetworkStep

\* What msg >> timeThen reads is the time of a ping of this client, whole, and
\* each time of a later one.
THEOREM TimesAreOwn == Spec => []OwnTimes
<1> DEFINE Inv == SegInv /\ Ordered
<1>1. Init => Inv
  BY SegInit, OrderedInit
<1>2. ASSUME Inv, [Next]_vars PROVE Inv'
  <2>1. SegInv'
    BY <1>2, SegStep
  <2>2. CASE UNCHANGED vars
    <3>1. UNCHANGED <<PipeVars, sends>>
      BY <2>2 DEF vars, PipeVars, Unsent
    <3> QED BY <1>2, <2>1, <3>1, OrderedSame
  <2>3. CASE Next
    BY <1>2, <2>1, <2>3, OrderedMain, OrderedContext, OrderedNetwork DEF Next, NetworkStep
  <2> QED BY <1>2, <2>2, <2>3
<1>3. ASSUME Inv PROVE OwnTimes
  <2>1. timesRead \in Seq(Times)
    BY <1>3 DEF SegInv, Segments
  <2>2. DOMAIN timesRead = 1..Len(timesRead) /\ Len(ReadAsPings) = Len(timesRead)
          /\ \A i \in 1..Len(timesRead) :
               ReadAsPings[i] = [id |-> "ServerPing", body |-> timesRead[i]]
    BY <2>1, LenProperties, ReadAsPingsType
  <2>3. ASSUME NEW i \in DOMAIN timesRead
        PROVE  timesRead[i] = [u \in 1..TimeUnits |-> timesRead[i][1]]
    <3>1. timesRead[i] \in Times
      BY <2>1, <2>2, ElementOfSeq
    <3>2. PICK k \in Nat : timesRead[i] = PingMessage(k).body
      BY <3>1 DEF Times, Pings
    <3> QED BY <3>2, PingBody
  <2>4. ASSUME NEW i \in DOMAIN timesRead, NEW j \in DOMAIN timesRead, i < j
        PROVE  timesRead[i][1] < timesRead[j][1]
    <3>1. Follows(Pipe[1][i], Pipe[1][j])
      <4>1. Pipe[1] = ReadAsPings
        BY PipeParts
      <4> QED BY <1>3, <2>2, <2>4, <4>1 DEF Ordered, InTurn
    <3>2. Follows(ReadAsPings[i], ReadAsPings[j])
      BY <3>1, PipeParts
    <3>3. ReadAsPings[i] = [id |-> "ServerPing", body |-> timesRead[i]]
            /\ ReadAsPings[j] = [id |-> "ServerPing", body |-> timesRead[j]]
      BY <2>2
    <3>4. ReadAsPings[i].id = "ServerPing" /\ ReadAsPings[j].id = "ServerPing"
            /\ ReadAsPings[i].body = timesRead[i] /\ ReadAsPings[j].body = timesRead[j]
      BY <3>3
    <3> QED BY <3>2, <3>4 DEF Follows
  <2> QED BY <2>3, <2>4 DEF OwnTimes
<1> QED BY <1>1, <1>2, <1>3, PTL DEF Spec
=============================================================================
