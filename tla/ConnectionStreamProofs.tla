----------------------- MODULE ConnectionStreamProofs -----------------------
(***************************************************************************)
(* Proofs about what a Connection carries: the reader never loses its      *)
(* place in the stream of headers and bodies, and each direction is a      *)
(* Channel.  Between the call of Send and the queue of the other end a     *)
(* message is posted, in the deque, under way in one or two writes, on the *)
(* wire as one or two tokens, and half read; each of these places is       *)
(* related here, by the message's number, to the history of Send.          *)
(***************************************************************************)
EXTENDS ConnectionProofs

\* What the server's OnMessage echoes has a body: ServerPing carries a time
\* point (SimpleServer.cpp:47-54).  A message without one would go back with
\* whatever body m_tempMsg still held.
EchoedHaveBody == \A id \in EchoIds : BodySize[id] > 0

-----------------------------------------------------------------------------
(* The invariant, in terms of plain sequences: p the tasks posted, d the   *)
(* deque, s the messages Send was called with, r the messages received, w  *)
(* what is on the wire.                                                    *)

Extends(s, t) == Len(s) <= Len(t) /\ \A i \in 1..Len(s) : t[i] = s[i]

\* What Send makes.
Made(id, k) == Message(id, [j \in 1..BodySize[id] |-> k])
Fresh == {Made(id, k) : id \in Ids, k \in 1..MaxSends}

\* From Send to the deque.
IsClose(p, i) == p[i].op = "close"
Closing(p) == \E i \in 1..Len(p) : IsClose(p, i)
ClosesBefore(p, i) == IF \E j \in 1..Len(p) : j < i /\ IsClose(p, j) THEN 1 ELSE 0
Sends(p) == Len(p) - (IF Closing(p) THEN 1 ELSE 0)
Written(p, d, s) == Len(s) - Len(d) - Sends(p)

InTransit(p, d, s) ==
  /\ Written(p, d, s) \in Nat
  /\ \A i \in 1..Len(d) : d[i] = s[Written(p, d, s) + i]
  /\ \A i, j \in 1..Len(p) : IsClose(p, i) /\ IsClose(p, j) => i = j
  /\ \A i \in 1..Len(p) : p[i].op = "send" =>
       p[i].msg = s[Written(p, d, s) + Len(d) + i - ClosesBefore(p, i)]

\* From the wire to the queue of the other end; n is the message that comes
\* next.
SameMessage(a, b) == a.id = b.id /\ a.size = b.size /\ (a.size > 0 => a.body = b.body)

Arrived(r, s) == Len(r) <= Len(s) /\ \A i \in 1..Len(r) : SameMessage(r[i], s[i])

HeaderRead(op) == op.what = "body" \/ (op.what = "header" /\ op.res = "ok")
HalfRead(op, msg, s, n) ==
  /\ HeaderRead(op) => n <= Len(s) /\ msg.id = s[n].id /\ msg.size = s[n].size
  /\ op.what = "body" => msg.size > 0
  /\ op.what = "body" /\ op.res = "ok" => msg.body = s[n].body

\* The places in the stream of tokens that the messages s make.
Positions == [num : Nat \ {0}, what : {"header", "body"}]
Place(n, what) == [num |-> n, what |-> what]
After(s, q) ==
  IF q.what = "header" /\ s[q.num].body # <<>> THEN Place(q.num, "body")
                                               ELSE Place(q.num + 1, "header")
TokenAt(s, q) == IF q.what = "header" THEN HeaderToken(s[q.num]) ELSE BodyToken(s[q.num])

\* w holds the tokens of s between two places.
Carries(w, s, from, to) ==
  \E pos \in [1..(Len(w) + 1) -> Positions] :
    /\ pos[1] = from /\ pos[Len(w) + 1] = to
    /\ \A i \in 1..Len(w) : /\ pos[i].num <= Len(s)
                            /\ w[i] = TokenAt(s, pos[i])
                            /\ pos[i + 1] = After(s, pos[i])

\* Where the reader and the writer are.
ReadPlace(op, s, n) ==
  LET q == Place(n, IF op.what = "body" THEN "body" ELSE "header")
  IN IF op.what # "none" /\ op.res = "ok" THEN After(s, q) ELSE q
WritePlace(ops, s, n) ==
  LET q == Place(n, IF ops = <<>> THEN "header" ELSE ops[1].token.what)
  IN IF ops # <<>> /\ ops[1].res = "ok" THEN After(s, q) ELSE q

\* The invariant of the link into end e.
Coming(e) == Len(recvDeq[e]) + 1
FrontNum(e) == Written(posted[e], sendDeq[e], sent[e]) + 1
Chained(e) == writeOps[e] # <<>> \/ sendDeq[e] = <<>>

StreamTo(e) ==
  /\ sock[e] = "closed" => wire[e] = <<>>
  /\ sock[e] = "open" => \E to \in Positions :
       /\ Carries(wire[e], sent[Peer[e]], ReadPlace(readOp[e], sent[Peer[e]], Coming(e)), to)
       /\ Chained(Peer[e]) =>
            to = WritePlace(writeOps[Peer[e]], sent[Peer[e]], FrontNum(Peer[e]))

SentFresh == \A e \in Ends : \A i \in 1..Len(sent[e]) : sent[e][i] \in Fresh
AllInTransit == \A e \in Ends : InTransit(posted[e], sendDeq[e], sent[e])
AllArrived == \A e \in Ends : Arrived(recvDeq[e], sent[Peer[e]])
AllHalfRead ==
  \A e \in Ends : HalfRead(readOp[e], tempMsg[e], sent[Peer[e]], Coming(e))
AllStreams == \A e \in Ends : StreamTo(e)

Links == SentFresh /\ AllInTransit /\ AllArrived /\ AllHalfRead /\ AllStreams
LinkInv == ChainInv /\ Links

USE DEF writing, reading, calls

-----------------------------------------------------------------------------
(* Lemmas about the sequences.                                             *)

\* A task posted by Send.
LEMMA TransitPost ==
  ASSUME NEW p \in Seq(Tasks), NEW d \in Seq(Messages), NEW s \in Seq(Messages),
         NEW m \in Messages, InTransit(p, d, s)
  PROVE  LET q == Append(p, [op |-> "send", msg |-> m])
             t == Append(s, m)
         IN InTransit(q, d, t) /\ Written(q, d, t) = Written(p, d, s)
<1> DEFINE task == [op |-> "send", msg |-> m]
           q == Append(p, task)
           t == Append(s, m)
<1>1. task \in Tasks /\ task.op = "send" /\ task.msg = m
  BY DEF Tasks
<1> HIDE DEF task
<1>2. /\ q \in Seq(Tasks) /\ Len(q) = Len(p) + 1 /\ q[Len(p) + 1] = task
      /\ \A i \in 1..Len(p) : q[i] = p[i]
  BY <1>1, AppendProperties
<1>3. /\ t \in Seq(Messages) /\ Len(t) = Len(s) + 1 /\ t[Len(s) + 1] = m
      /\ \A i \in 1..Len(s) : t[i] = s[i]
  BY AppendProperties
<1>4. Len(p) \in Nat /\ Len(s) \in Nat /\ Len(d) \in Nat
  BY LenProperties
<1> HIDE DEF q, t
<1>5. \A i \in 1..Len(q) : IsClose(q, i) <=> i \in 1..Len(p) /\ IsClose(p, i)
  BY <1>1, <1>2, <1>4 DEF IsClose
<1>6. Closing(q) <=> Closing(p)
  BY <1>2, <1>4, <1>5 DEF Closing
<1>7. Sends(q) = Sends(p) + 1 /\ Sends(p) \in Int
  BY <1>2, <1>4, <1>6 DEF Sends
<1>8. Written(q, d, t) = Written(p, d, s) /\ Written(p, d, s) \in Nat
  BY <1>3, <1>4, <1>7 DEF Written, InTransit
<1>9. \A i \in 1..Len(p) : ClosesBefore(q, i) = ClosesBefore(p, i)
  BY <1>2, <1>4, <1>5 DEF ClosesBefore
<1>10. ClosesBefore(q, Len(q)) = (IF Closing(p) THEN 1 ELSE 0)
  BY <1>2, <1>4, <1>5 DEF ClosesBefore, Closing
<1>11. Written(p, d, s) + Len(d) + Sends(p) = Len(s)
  BY <1>4, <1>7 DEF Written
<1>12. \A i \in 1..Len(d) : d[i] = t[Written(q, d, t) + i]
  <2> TAKE i \in 1..Len(d)
  <2>1. d[i] = s[Written(p, d, s) + i]
    BY DEF InTransit
  <2>2. Written(p, d, s) + i \in 1..Len(s)
    <3>1. Sends(p) >= 0
      BY <1>4 DEF Sends, Closing
    <3> QED BY <1>4, <1>7, <1>8, <1>11, <3>1
  <2> QED BY <1>3, <1>8, <2>1, <2>2
<1>13. \A i, j \in 1..Len(q) : IsClose(q, i) /\ IsClose(q, j) => i = j
  BY <1>5 DEF InTransit
<1>14. ASSUME NEW i \in 1..Len(q), q[i].op = "send"
       PROVE  q[i].msg = t[Written(q, d, t) + Len(d) + i - ClosesBefore(q, i)]
  <2>1. CASE i \in 1..Len(p)
    <3>1. p[i].msg = s[Written(p, d, s) + Len(d) + i - ClosesBefore(p, i)]
      BY <1>2, <1>14, <2>1 DEF InTransit
    <3>2. Written(p, d, s) + Len(d) + i - ClosesBefore(p, i) \in 1..Len(s)
      <4>1. p[i].op = "send"
        BY <1>2, <1>14, <2>1
      <4>2. i - ClosesBefore(p, i) >= 1
        BY <1>4, <2>1 DEF ClosesBefore
      <4>3. i - ClosesBefore(p, i) <= Sends(p)
        <5>1. CASE ~ Closing(p)
          BY <1>4, <2>1, <5>1 DEF Sends, ClosesBefore
        <5>2. CASE Closing(p) /\ ClosesBefore(p, i) = 1
          BY <1>4, <2>1, <5>2 DEF Sends
        <5>3. CASE Closing(p) /\ ClosesBefore(p, i) # 1
          <6>1. PICK j \in 1..Len(p) : IsClose(p, j)
            BY <5>3 DEF Closing
          <6>2. ~ (j < i) /\ ClosesBefore(p, i) = 0
            BY <5>3, <6>1 DEF ClosesBefore
          <6>3. j # i
            BY <6>1, <4>1 DEF IsClose
          <6> QED BY <1>4, <2>1, <5>3, <6>2, <6>3 DEF Sends
        <5> QED BY <5>1, <5>2, <5>3
      <4>4. ClosesBefore(p, i) \in Int
        BY DEF ClosesBefore
      <4> QED BY <1>4, <1>7, <1>8, <1>11, <2>1, <4>2, <4>3, <4>4
    <3> QED BY <1>2, <1>3, <1>8, <1>9, <2>1, <3>1, <3>2
  <2>2. CASE i = Len(q)
    <3>1. Written(q, d, t) + Len(d) + i - ClosesBefore(q, i) = Len(s) + 1
      BY <1>2, <1>4, <1>7, <1>8, <1>10, <1>11, <2>2 DEF Sends
    <3> QED BY <1>1, <1>2, <1>3, <2>2, <3>1
  <2> QED BY <1>2, <1>4, <2>1, <2>2
<1>15. InTransit(q, d, t)
  BY <1>8, <1>12, <1>13, <1>14 DEF InTransit
<1> QED BY <1>8, <1>15 DEF q, t, task

\* A task posted by Disconnect.
LEMMA TransitDisconnect ==
  ASSUME NEW p \in Seq(Tasks), NEW d \in Seq(Messages), NEW s \in Seq(Messages),
         InTransit(p, d, s), ~ Closing(p)
  PROVE  LET q == Append(p, [op |-> "close"])
         IN InTransit(q, d, s) /\ Written(q, d, s) = Written(p, d, s)
<1> DEFINE task == [op |-> "close"]
           q == Append(p, task)
<1>1. task \in Tasks /\ task.op = "close"
  BY DEF Tasks
<1> HIDE DEF task
<1>2. /\ q \in Seq(Tasks) /\ Len(q) = Len(p) + 1 /\ q[Len(p) + 1] = task
      /\ \A i \in 1..Len(p) : q[i] = p[i]
  BY <1>1, AppendProperties
<1>3. Len(p) \in Nat /\ Len(s) \in Nat /\ Len(d) \in Nat
  BY LenProperties
<1> HIDE DEF q
<1>4. \A i \in 1..Len(q) : IsClose(q, i) <=> i = Len(p) + 1
  BY <1>1, <1>2, <1>3 DEF IsClose, Closing
<1>5. Closing(q) /\ Sends(q) = Sends(p)
  BY <1>2, <1>3, <1>4 DEF Sends, Closing
<1>6. Written(q, d, s) = Written(p, d, s)
  BY <1>5 DEF Written
<1>7. \A i \in 1..Len(p) : ClosesBefore(q, i) = 0 /\ ClosesBefore(p, i) = 0
  BY <1>2, <1>3, <1>4 DEF ClosesBefore, Closing
<1>8. \A i \in 1..Len(q) : q[i].op = "send" => i \in 1..Len(p) /\ q[i] = p[i]
  BY <1>1, <1>2, <1>3
<1>9. \A i, j \in 1..Len(q) : IsClose(q, i) /\ IsClose(q, j) => i = j
  BY <1>4
<1>10. InTransit(q, d, s)
  BY <1>6, <1>7, <1>8, <1>9 DEF InTransit
<1> QED BY <1>6, <1>10 DEF q, task

\* The tasks but the first one.
LEMMA TailTasks ==
  ASSUME NEW p \in Seq(Tasks), p # <<>>,
         \A i, j \in 1..Len(p) : IsClose(p, i) /\ IsClose(p, j) => i = j
  PROVE  LET q == Tail(p)
         IN /\ q \in Seq(Tasks) /\ Len(q) = Len(p) - 1 /\ Len(p) \in Nat /\ Len(p) > 0
            /\ \A i \in 1..Len(q) : i + 1 \in 1..Len(p) /\ q[i] = p[i + 1]
            /\ \A i, j \in 1..Len(q) : IsClose(q, i) /\ IsClose(q, j) => i = j
            /\ Head(p).op = "send" => /\ Closing(q) <=> Closing(p)
                                      /\ \A i \in 1..Len(q) :
                                           ClosesBefore(q, i) = ClosesBefore(p, i + 1)
            /\ Head(p).op = "close" => /\ Closing(p) /\ ~ Closing(q)
                                       /\ \A i \in 1..Len(q) : ClosesBefore(q, i) = 0
                                            /\ ClosesBefore(p, i + 1) = 1
            /\ Head(p) = p[1] /\ Head(p) \in Tasks /\ ClosesBefore(p, 1) = 0
<1> DEFINE q == Tail(p)
<1>1. /\ q \in Seq(Tasks) /\ Len(q) = Len(p) - 1
      /\ Head(p) = p[1] /\ Head(p) \in Tasks /\ 1 \in 1..Len(p)
      /\ \A i \in 1..Len(q) : i + 1 \in 1..Len(p) /\ q[i] = p[i + 1]
  BY TailItems
<1>2. Len(p) \in Nat
  BY LenProperties
<1> HIDE DEF q
<1>3. \A i \in 1..Len(q) : IsClose(q, i) <=> IsClose(p, i + 1)
  BY <1>1 DEF IsClose
<1>4. \A i, j \in 1..Len(q) : IsClose(q, i) /\ IsClose(q, j) => i = j
  <2> SUFFICES ASSUME NEW i \in 1..Len(q), NEW j \in 1..Len(q), IsClose(q, i), IsClose(q, j)
               PROVE  i = j
    OBVIOUS
  <2>1. i + 1 = j + 1
    BY <1>1, <1>3
  <2> QED BY <2>1, <1>1, <1>2
<1>5. ClosesBefore(p, 1) = 0
  BY <1>2 DEF ClosesBefore
<1>6. ASSUME Head(p).op = "send"
      PROVE  /\ Closing(q) <=> Closing(p)
             /\ \A i \in 1..Len(q) : ClosesBefore(q, i) = ClosesBefore(p, i + 1)
  <2>1. ~ IsClose(p, 1)
    BY <1>1, <1>6 DEF IsClose
  <2>2. \A j \in 1..Len(p) : IsClose(p, j) => j - 1 \in 1..Len(q) /\ IsClose(q, j - 1)
    <3> SUFFICES ASSUME NEW j \in 1..Len(p), IsClose(p, j)
                 PROVE  j - 1 \in 1..Len(q) /\ IsClose(q, j - 1)
      OBVIOUS
    <3>1. j # 1
      BY <2>1
    <3>2. j - 1 \in 1..Len(q) /\ (j - 1) + 1 = j
      BY <1>1, <1>2, <3>1
    <3> QED BY <1>3, <3>2
  <2>3. Closing(q) <=> Closing(p)
    BY <1>1, <1>3, <2>2 DEF Closing
  <2>4. ASSUME NEW i \in 1..Len(q)
        PROVE  (\E j \in 1..Len(q) : j < i /\ IsClose(q, j))
                 <=> (\E j \in 1..Len(p) : j < i + 1 /\ IsClose(p, j))
    <3>1. ASSUME NEW j \in 1..Len(q), j < i, IsClose(q, j)
          PROVE  j + 1 \in 1..Len(p) /\ j + 1 < i + 1 /\ IsClose(p, j + 1)
      BY <1>1, <1>2, <1>3, <3>1
    <3>2. ASSUME NEW j \in 1..Len(p), j < i + 1, IsClose(p, j)
          PROVE  j - 1 \in 1..Len(q) /\ j - 1 < i /\ IsClose(q, j - 1)
      BY <1>1, <1>2, <2>2, <3>2
    <3> QED BY <3>1, <3>2
  <2> QED BY <2>3, <2>4 DEF ClosesBefore
<1>7. ASSUME Head(p).op = "close"
      PROVE  /\ Closing(p) /\ ~ Closing(q)
             /\ \A i \in 1..Len(q) : ClosesBefore(q, i) = 0 /\ ClosesBefore(p, i + 1) = 1
  <2>1. IsClose(p, 1)
    BY <1>1, <1>7 DEF IsClose
  <2>2. \A i \in 1..Len(q) : ~ IsClose(q, i)
    <3> SUFFICES ASSUME NEW i \in 1..Len(q), IsClose(q, i) PROVE FALSE
      OBVIOUS
    <3>1. i + 1 = 1
      BY <1>1, <1>3, <2>1
    <3> QED BY <3>1, <1>2
  <2>3. Closing(p) /\ ~ Closing(q)
    BY <1>1, <2>1, <2>2 DEF Closing
  <2>4. ASSUME NEW i \in 1..Len(q) PROVE ClosesBefore(q, i) = 0 /\ ClosesBefore(p, i + 1) = 1
    <3>1. 1 < i + 1
      OBVIOUS
    <3> QED BY <1>1, <2>1, <2>2, <3>1 DEF ClosesBefore
  <2> QED BY <2>3, <2>4
<1> QED BY <1>1, <1>2, <1>4, <1>5, <1>6, <1>7 DEF q

\* The task of Send: the message goes to the back of the deque.
LEMMA TransitSend ==
  ASSUME NEW p \in Seq(Tasks), NEW d \in Seq(Messages), NEW s \in Seq(Messages),
         InTransit(p, d, s), p # <<>>, Head(p).op = "send"
  PROVE  LET q == Tail(p)
             f == Append(d, Head(p).msg)
         IN InTransit(q, f, s) /\ Written(q, f, s) = Written(p, d, s)
<1> DEFINE q == Tail(p)
           m == Head(p).msg
           f == Append(d, m)
<1>1. \A i, j \in 1..Len(p) : IsClose(p, i) /\ IsClose(p, j) => i = j
  BY DEF InTransit
<1>2. /\ q \in Seq(Tasks) /\ Len(q) = Len(p) - 1 /\ Len(p) \in Nat /\ Len(p) > 0
      /\ \A i \in 1..Len(q) : i + 1 \in 1..Len(p) /\ q[i] = p[i + 1]
      /\ \A i, j \in 1..Len(q) : IsClose(q, i) /\ IsClose(q, j) => i = j
      /\ Closing(q) <=> Closing(p)
      /\ \A i \in 1..Len(q) : ClosesBefore(q, i) = ClosesBefore(p, i + 1)
      /\ Head(p) = p[1] /\ Head(p) \in Tasks /\ ClosesBefore(p, 1) = 0
  BY <1>1, TailTasks
<1>3. m \in Messages
  BY <1>2 DEF Tasks
<1>4. Len(s) \in Nat /\ Len(d) \in Nat
  BY LenProperties
<1>5. m = s[Written(p, d, s) + Len(d) + 1]
  <2>1. 1 \in 1..Len(p) /\ p[1].op = "send"
    BY <1>2
  <2>2. p[1].msg = s[Written(p, d, s) + Len(d) + 1 - ClosesBefore(p, 1)]
    BY <2>1 DEF InTransit
  <2>3. Written(p, d, s) \in Nat
    BY DEF InTransit
  <2> QED BY <1>2, <1>4, <2>2, <2>3
<1> HIDE DEF q, m
<1>6. /\ f \in Seq(Messages) /\ Len(f) = Len(d) + 1 /\ f[Len(d) + 1] = m
      /\ \A i \in 1..Len(d) : f[i] = d[i]
  BY <1>3, AppendProperties
<1> HIDE DEF f
<1>7. Sends(q) = Sends(p) - 1 /\ Sends(p) \in Int
  BY <1>2 DEF Sends
<1>8. Written(q, f, s) = Written(p, d, s) /\ Written(p, d, s) \in Nat
  BY <1>4, <1>6, <1>7 DEF Written, InTransit
<1>9. \A i \in 1..Len(f) : f[i] = s[Written(q, f, s) + i]
  <2> TAKE i \in 1..Len(f)
  <2>1. CASE i \in 1..Len(d)
    BY <1>6, <1>8, <2>1 DEF InTransit
  <2>2. CASE i = Len(d) + 1
    <3>1. Written(p, d, s) + Len(d) + 1 = Written(q, f, s) + i
      BY <1>4, <1>8, <2>2
    <3> QED BY <1>5, <1>6, <2>2, <3>1
  <2> QED BY <1>4, <1>6, <2>1, <2>2
<1>10. ASSUME NEW i \in 1..Len(q), q[i].op = "send"
       PROVE  q[i].msg = s[Written(q, f, s) + Len(f) + i - ClosesBefore(q, i)]
  <2>1. i + 1 \in 1..Len(p) /\ q[i] = p[i + 1]
    BY <1>2
  <2>2. p[i + 1].msg = s[Written(p, d, s) + Len(d) + (i + 1) - ClosesBefore(p, i + 1)]
    BY <1>10, <2>1 DEF InTransit
  <2>3. ClosesBefore(q, i) = ClosesBefore(p, i + 1) /\ ClosesBefore(q, i) \in Int
    BY <1>2 DEF ClosesBefore
  <2>4. Written(p, d, s) + Len(d) + (i + 1) - ClosesBefore(p, i + 1)
          = Written(q, f, s) + Len(f) + i - ClosesBefore(q, i)
    BY <1>4, <1>6, <1>8, <2>3
  <2> QED BY <2>1, <2>2, <2>4
<1>11. InTransit(q, f, s)
  BY <1>2, <1>8, <1>9, <1>10 DEF InTransit
<1> QED BY <1>8, <1>11 DEF q, f, m

\* The task of Disconnect.
LEMMA TransitClose ==
  ASSUME NEW p \in Seq(Tasks), NEW d \in Seq(Messages), NEW s \in Seq(Messages),
         InTransit(p, d, s), p # <<>>, Head(p).op = "close"
  PROVE  InTransit(Tail(p), d, s) /\ Written(Tail(p), d, s) = Written(p, d, s)
<1> DEFINE q == Tail(p)
<1>1. \A i, j \in 1..Len(p) : IsClose(p, i) /\ IsClose(p, j) => i = j
  BY DEF InTransit
<1>2. /\ q \in Seq(Tasks) /\ Len(q) = Len(p) - 1 /\ Len(p) \in Nat /\ Len(p) > 0
      /\ \A i \in 1..Len(q) : i + 1 \in 1..Len(p) /\ q[i] = p[i + 1]
      /\ \A i, j \in 1..Len(q) : IsClose(q, i) /\ IsClose(q, j) => i = j
      /\ Closing(p) /\ ~ Closing(q)
      /\ \A i \in 1..Len(q) : ClosesBefore(q, i) = 0 /\ ClosesBefore(p, i + 1) = 1
  BY <1>1, TailTasks
<1> HIDE DEF q
<1>3. Len(s) \in Nat /\ Len(d) \in Nat
  BY LenProperties
<1>4. Sends(q) = Sends(p)
  BY <1>2 DEF Sends
<1>5. Written(q, d, s) = Written(p, d, s) /\ Written(p, d, s) \in Nat
  BY <1>4 DEF Written, InTransit
<1>6. ASSUME NEW i \in 1..Len(q), q[i].op = "send"
      PROVE  q[i].msg = s[Written(q, d, s) + Len(d) + i - ClosesBefore(q, i)]
  <2>1. i + 1 \in 1..Len(p) /\ q[i] = p[i + 1]
    BY <1>2
  <2>2. p[i + 1].msg = s[Written(p, d, s) + Len(d) + (i + 1) - ClosesBefore(p, i + 1)]
    BY <1>6, <2>1 DEF InTransit
  <2>3. Written(p, d, s) + Len(d) + (i + 1) - ClosesBefore(p, i + 1)
          = Written(q, d, s) + Len(d) + i - ClosesBefore(q, i)
    BY <1>2, <1>3, <1>5
  <2> QED BY <2>1, <2>2, <2>3
<1>7. InTransit(q, d, s)
  BY <1>2, <1>5, <1>6 DEF InTransit
<1> QED BY <1>5, <1>7 DEF q

\* The message at the front of the deque, and what is left when it is written.
LEMMA TransitFront ==
  ASSUME NEW p \in Seq(Tasks), NEW d \in Seq(Messages), NEW s \in Seq(Messages),
         InTransit(p, d, s), d # <<>>
  PROVE  /\ Written(p, d, s) + 1 \in 1..Len(s) /\ Head(d) = s[Written(p, d, s) + 1]
         /\ InTransit(p, Tail(d), s) /\ Written(p, Tail(d), s) = Written(p, d, s) + 1
<1> DEFINE f == Tail(d)
<1>1. /\ Head(d) = d[1] /\ 1 \in 1..Len(d) /\ f \in Seq(Messages) /\ Len(f) = Len(d) - 1
      /\ \A i \in 1..Len(f) : i + 1 \in 1..Len(d) /\ f[i] = d[i + 1]
  BY TailItems
<1> HIDE DEF f
<1>2. Len(s) \in Nat /\ Len(d) \in Nat /\ Len(p) \in Nat
  BY LenProperties
<1>3. Sends(p) \in Int /\ Sends(p) >= 0
  BY <1>2 DEF Sends, Closing
<1>4. Written(p, d, s) \in Nat
  BY DEF InTransit
<1>5. Written(p, d, s) + 1 \in 1..Len(s)
  BY <1>1, <1>2, <1>3, <1>4 DEF Written
<1>6. Head(d) = s[Written(p, d, s) + 1]
  BY <1>1 DEF InTransit
<1>7. Written(p, f, s) = Written(p, d, s) + 1
  BY <1>1, <1>2, <1>3 DEF Written
<1>8. \A i \in 1..Len(f) : f[i] = s[Written(p, f, s) + i]
  <2> TAKE i \in 1..Len(f)
  <2>1. f[i] = s[Written(p, d, s) + (i + 1)]
    BY <1>1 DEF InTransit
  <2>2. Written(p, d, s) + (i + 1) = Written(p, f, s) + i
    BY <1>4, <1>7
  <2> QED BY <2>1, <2>2
<1>9. \A i \in 1..Len(p) : p[i].op = "send" =>
        p[i].msg = s[Written(p, f, s) + Len(f) + i - ClosesBefore(p, i)]
  <2> SUFFICES ASSUME NEW i \in 1..Len(p), p[i].op = "send"
               PROVE  p[i].msg = s[Written(p, f, s) + Len(f) + i - ClosesBefore(p, i)]
    OBVIOUS
  <2>1. p[i].msg = s[Written(p, d, s) + Len(d) + i - ClosesBefore(p, i)]
    BY DEF InTransit
  <2>2. Written(p, d, s) + Len(d) = Written(p, f, s) + Len(f)
    BY <1>1, <1>2, <1>4, <1>7
  <2> QED BY <2>1, <2>2
<1>10. InTransit(p, f, s)
  BY <1>4, <1>7, <1>8, <1>9 DEF InTransit
<1> QED BY <1>5, <1>6, <1>7, <1>10 DEF f
-----------------------------------------------------------------------------
(* Lemmas about the stream.                                                *)

\* Later calls of Send change nothing of what is on its way.
LEMMA GrownParts ==
  ASSUME NEW s \in Seq(Messages), NEW t \in Seq(Messages), Extends(s, t)
  PROVE  /\ \A r \in Seq(Messages) : Arrived(r, s) => Arrived(r, t)
         /\ \A op, msg : \A n \in Nat \ {0} : HalfRead(op, msg, s, n) => HalfRead(op, msg, t, n)
<1>1. Len(s) \in Nat /\ Len(t) \in Nat /\ \A i \in 1..Len(s) : i \in 1..Len(t) /\ t[i] = s[i]
  BY LenProperties DEF Extends
<1>2. ASSUME NEW r \in Seq(Messages), Arrived(r, s) PROVE Arrived(r, t)
  <2>1. Len(r) \in Nat /\ Len(r) <= Len(s) /\ Len(s) <= Len(t)
    BY <1>2, LenProperties DEF Arrived, Extends
  <2>2. \A i \in 1..Len(r) : t[i] = s[i]
    BY <1>1, <2>1
  <2> QED BY <1>1, <1>2, <2>1, <2>2 DEF Arrived
<1>3. ASSUME NEW op, NEW msg, NEW n \in Nat \ {0}, HalfRead(op, msg, s, n)
      PROVE  HalfRead(op, msg, t, n)
  <2>1. HeaderRead(op) => n \in 1..Len(s)
    BY <1>1, <1>3 DEF HalfRead
  <2>2. HeaderRead(op) => n <= Len(t) /\ t[n] = s[n]
    BY <1>1, <2>1
  <2>3. op.what = "body" => HeaderRead(op)
    BY DEF HeaderRead
  <2> QED BY <1>3, <2>2, <2>3 DEF HalfRead
<1> QED BY <1>2, <1>3

LEMMA AfterType ==
  ASSUME NEW s, NEW q \in Positions
  PROVE  After(s, q) \in Positions
BY DEF After, Positions, Place

LEMMA GrownPlace ==
  ASSUME NEW s \in Seq(Messages), NEW t \in Seq(Messages), Extends(s, t),
         NEW q \in Positions, q.num <= Len(s)
  PROVE  q.num <= Len(t) /\ TokenAt(t, q) = TokenAt(s, q) /\ After(t, q) = After(s, q)
<1>1. Len(s) \in Nat /\ Len(t) \in Nat /\ Len(s) <= Len(t)
  BY LenProperties DEF Extends
<1>2. q.num \in 1..Len(s)
  BY <1>1 DEF Positions
<1>3. t[q.num] = s[q.num]
  BY <1>2 DEF Extends
<1> QED BY <1>1, <1>2, <1>3 DEF TokenAt, After

LEMMA GrownStream ==
  ASSUME NEW s \in Seq(Messages), NEW t \in Seq(Messages), Extends(s, t),
         NEW w \in Seq(Tokens), NEW from, NEW to, Carries(w, s, from, to)
  PROVE  Carries(w, t, from, to)
<1>1. PICK pos \in [1..(Len(w) + 1) -> Positions] :
        /\ pos[1] = from /\ pos[Len(w) + 1] = to
        /\ \A i \in 1..Len(w) : /\ pos[i].num <= Len(s)
                                /\ w[i] = TokenAt(s, pos[i])
                                /\ pos[i + 1] = After(s, pos[i])
  BY DEF Carries
<1>2. Len(w) \in Nat
  BY LenProperties
<1>3. ASSUME NEW i \in 1..Len(w)
      PROVE  /\ pos[i].num <= Len(t)
             /\ w[i] = TokenAt(t, pos[i])
             /\ pos[i + 1] = After(t, pos[i])
  <2>0. i \in 1..(Len(w) + 1)
    BY <1>2
  <2>1. pos[i] \in Positions
    BY <2>0
  <2> QED BY <1>1, <2>1, GrownPlace
<1> QED BY <1>1, <1>3 DEF Carries

\* A write: the token at the writer's place goes on the wire.
LEMMA StreamAppend ==
  ASSUME NEW s \in Seq(Messages), NEW w \in Seq(Tokens), NEW from, NEW to \in Positions,
         Carries(w, s, from, to), to.num <= Len(s), NEW tok \in Tokens, tok = TokenAt(s, to)
  PROVE  Carries(Append(w, tok), s, from, After(s, to))
<1> DEFINE v == Append(w, tok)
<1>1. PICK pos \in [1..(Len(w) + 1) -> Positions] :
        /\ pos[1] = from /\ pos[Len(w) + 1] = to
        /\ \A i \in 1..Len(w) : /\ pos[i].num <= Len(s)
                                /\ w[i] = TokenAt(s, pos[i])
                                /\ pos[i + 1] = After(s, pos[i])
  BY DEF Carries
<1>2. Len(w) \in Nat
  BY LenProperties
<1>3. Len(v) = Len(w) + 1 /\ v[Len(w) + 1] = tok /\ \A i \in 1..Len(w) : v[i] = w[i]
  BY AppendProperties
<1> HIDE DEF v
<1> DEFINE new == [i \in 1..(Len(v) + 1) |->
                     IF i <= Len(w) + 1 THEN pos[i] ELSE After(s, to)]
<1>4. new \in [1..(Len(v) + 1) -> Positions]
  BY <1>2, <1>3, AfterType
<1>5. new[1] = from /\ new[Len(v) + 1] = After(s, to)
  BY <1>1, <1>2, <1>3
<1>6. ASSUME NEW i \in 1..Len(v)
      PROVE  /\ new[i].num <= Len(s)
             /\ v[i] = TokenAt(s, new[i])
             /\ new[i + 1] = After(s, new[i])
  <2>1. CASE i \in 1..Len(w)
    <3>1. new[i] = pos[i] /\ new[i + 1] = pos[i + 1]
      BY <1>2, <1>3, <2>1
    <3> HIDE DEF new
    <3> QED BY <1>1, <1>3, <2>1, <3>1
  <2>2. CASE i = Len(w) + 1
    <3>1. new[i] = to /\ new[i + 1] = After(s, to)
      BY <1>1, <1>2, <1>3, <2>2
    <3> HIDE DEF new
    <3> QED BY <1>3, <2>2, <3>1
  <2> QED BY <1>2, <1>3, <2>1, <2>2
<1> HIDE DEF new
<1>7. Carries(v, s, from, After(s, to))
  BY <1>4, <1>5, <1>6 DEF Carries
<1> QED BY <1>7 DEF v

\* A read: the first token on the wire is the one at the reader's place.
LEMMA StreamTail ==
  ASSUME NEW s \in Seq(Messages), NEW w \in Seq(Tokens), w # <<>>, NEW from, NEW to,
         Carries(w, s, from, to)
  PROVE  /\ from \in Positions /\ from.num <= Len(s) /\ Head(w) = TokenAt(s, from)
         /\ Carries(Tail(w), s, After(s, from), to)
<1> DEFINE v == Tail(w)
<1>1. PICK pos \in [1..(Len(w) + 1) -> Positions] :
        /\ pos[1] = from /\ pos[Len(w) + 1] = to
        /\ \A i \in 1..Len(w) : /\ pos[i].num <= Len(s)
                                /\ w[i] = TokenAt(s, pos[i])
                                /\ pos[i + 1] = After(s, pos[i])
  BY DEF Carries
<1>2. Len(w) \in Nat
  BY LenProperties
<1>3. /\ Head(w) = w[1] /\ 1 \in 1..Len(w) /\ Len(v) = Len(w) - 1
      /\ \A i \in 1..Len(v) : i + 1 \in 1..Len(w) /\ v[i] = w[i + 1]
  BY TailItems
<1> HIDE DEF v
<1>4. from \in Positions /\ from.num <= Len(s) /\ Head(w) = TokenAt(s, from)
      /\ pos[2] = After(s, from)
  <2>1. pos[1] \in Positions
    BY <1>2
  <2>2. pos[1 + 1] = After(s, pos[1]) /\ 1 + 1 = 2
    BY <1>1, <1>3
  <2> QED BY <1>1, <1>3, <2>1, <2>2
<1> DEFINE new == [i \in 1..(Len(v) + 1) |-> pos[i + 1]]
<1>5. new \in [1..(Len(v) + 1) -> Positions]
  BY <1>2, <1>3
<1>6. new[1] = After(s, from) /\ new[Len(v) + 1] = to
  BY <1>1, <1>2, <1>3, <1>4
<1>7. ASSUME NEW i \in 1..Len(v)
      PROVE  /\ new[i].num <= Len(s)
             /\ v[i] = TokenAt(s, new[i])
             /\ new[i + 1] = After(s, new[i])
  <2>1. new[i] = pos[i + 1] /\ new[i + 1] = pos[(i + 1) + 1]
    BY <1>2, <1>3
  <2> HIDE DEF new
  <2> QED BY <1>1, <1>3, <2>1
<1> HIDE DEF new
<1>8. Carries(v, s, After(s, from), to)
  BY <1>5, <1>6, <1>7 DEF Carries
<1> QED BY <1>4, <1>8 DEF v

LEMMA StreamEmpty ==
  ASSUME NEW s, NEW q \in Positions
  PROVE  Carries(<<>>, s, q, q)
<1> DEFINE pos == [i \in 1..1 |-> q]
<1>1. Len(<<>>) = 0 /\ Len(<<>>) + 1 = 1
  OBVIOUS
<1>2. pos \in [1..(Len(<<>>) + 1) -> Positions] /\ pos[1] = q /\ pos[Len(<<>>) + 1] = q
  BY <1>1
<1> HIDE DEF pos
<1> QED BY <1>1, <1>2 DEF Carries

LEMMA PlaceType ==
  ASSUME NEW n \in Nat \ {0}
  PROVE  /\ Place(n, "header") \in Positions /\ Place(n, "body") \in Positions
         /\ Place(n, "header").num = n /\ Place(n, "body").num = n
         /\ Place(n, "header").what = "header" /\ Place(n, "body").what = "body"
         /\ \A s : After(s, Place(n, "body")) = Place(n + 1, "header")
         /\ \A s : After(s, Place(n, "header")) =
                     IF s[n].body # <<>> THEN Place(n, "body") ELSE Place(n + 1, "header")
BY DEF Place, Positions, After

\* The reader's place does not move when Send is called.
LEMMA GrownReadPlace ==
  ASSUME NEW s \in Seq(Messages), NEW t \in Seq(Messages), Extends(s, t),
         NEW op \in Reads, NEW msg, NEW n \in Nat \ {0}, HalfRead(op, msg, s, n)
  PROVE  ReadPlace(op, t, n) = ReadPlace(op, s, n)
<1>1. CASE op.what = "none" \/ op.res # "ok"
  BY <1>1 DEF ReadPlace
<1>2. CASE op.what # "none" /\ op.res = "ok"
  <2>1. op.what \in {"header", "body"}
    BY <1>2 DEF Reads
  <2>2. n <= Len(s)
    BY <1>2, <2>1 DEF HalfRead, HeaderRead
  <2>a. Place(n, "header") \in Positions /\ Place(n, "header").num = n
    BY PlaceType
  <2>3. After(t, Place(n, "header")) = After(s, Place(n, "header"))
    BY <2>2, <2>a, GrownPlace
  <2>4. After(t, Place(n, "body")) = After(s, Place(n, "body"))
    BY <2>2, PlaceType, GrownPlace
  <2> QED BY <1>2, <2>3, <2>4 DEF ReadPlace
<1> QED BY <1>1, <1>2

LEMMA GrownWritePlace ==
  ASSUME NEW s \in Seq(Messages), NEW t \in Seq(Messages), Extends(s, t),
         NEW ops \in Seq(Writes), NEW n \in Nat \ {0}, ops # <<>> => n <= Len(s)
  PROVE  WritePlace(ops, t, n) = WritePlace(ops, s, n)
<1>1. CASE ops = <<>> \/ ops[1].res # "ok"
  BY <1>1 DEF WritePlace
<1>2. CASE ops # <<>> /\ ops[1].res = "ok"
  <2>1. ops[1] \in Writes
    BY <1>2, TailItems
  <2>2. ops[1].token.what \in {"header", "body"}
    BY <2>1 DEF Writes, Tokens
  <2>a. /\ Place(n, "header") \in Positions /\ Place(n, "header").num = n
        /\ Place(n, "body") \in Positions /\ Place(n, "body").num = n
    BY PlaceType
  <2>3. After(t, Place(n, "header")) = After(s, Place(n, "header"))
    BY <1>2, <2>a, GrownPlace
  <2>4. After(t, Place(n, "body")) = After(s, Place(n, "body"))
    BY <1>2, <2>a, GrownPlace
  <2> QED BY <1>2, <2>2, <2>3, <2>4 DEF WritePlace
<1> QED BY <1>1, <1>2

LEMMA PlaceTypes ==
  /\ \A s : \A op \in Reads, n \in Nat \ {0} : ReadPlace(op, s, n) \in Positions
  /\ \A s : \A ops \in Seq(Writes), n \in Nat \ {0} : WritePlace(ops, s, n) \in Positions
<1>1. ASSUME NEW op \in Reads, NEW s, NEW n \in Nat \ {0}
      PROVE  ReadPlace(op, s, n) \in Positions
  BY AfterType, PlaceType DEF ReadPlace
<1>2. ASSUME NEW ops \in Seq(Writes), NEW s, NEW n \in Nat \ {0}
      PROVE  WritePlace(ops, s, n) \in Positions
  <2>1. CASE ops = <<>>
    BY <2>1, PlaceType DEF WritePlace
  <2>2. CASE ops # <<>>
    <3>1. ops[1] \in Writes
      BY <2>2, TailItems
    <3>2. ops[1].token.what \in {"header", "body"}
      BY <3>1 DEF Writes, Tokens
    <3> QED BY <2>2, <3>2, AfterType, PlaceType DEF WritePlace
  <2> QED BY <2>1, <2>2
<1> QED BY <1>1, <1>2
-----------------------------------------------------------------------------
(* The invariant holds initially.                                          *)

LEMMA InitLinks == Init => LinkInv
<1> SUFFICES ASSUME Init PROVE LinkInv
  OBVIOUS
<1>1. ChainInv
  BY InitChainInv
<1>2. Len(<<>>) = 0
  OBVIOUS
<1>3. \A e \in Ends : Peer[e] \in Ends
  BY Constants
<1>4. SentFresh
  BY <1>2 DEF Init, SentFresh
<1>5. AllInTransit
  <2>1. InTransit(<<>>, <<>>, <<>>)
    BY <1>2 DEF InTransit, Written, Sends, Closing
  <2> QED BY <2>1 DEF Init, AllInTransit
<1>6. AllArrived
  BY <1>2, <1>3 DEF Init, AllArrived, Arrived
<1>7. AllHalfRead
  BY <1>3 DEF Init, AllHalfRead, HalfRead, HeaderRead, Idle
<1>8. ASSUME NEW e \in Ends PROVE StreamTo(e)
  <2>1. /\ sock[e] = "open" /\ wire[e] = <<>> /\ readOp[e] = Idle /\ recvDeq[e] = <<>>
        /\ sent[Peer[e]] = <<>> /\ posted[Peer[e]] = <<>> /\ sendDeq[Peer[e]] = <<>>
        /\ writeOps[Peer[e]] = <<>>
    BY <1>3 DEF Init
  <2>2. Coming(e) = 1 /\ FrontNum(Peer[e]) = 1
    BY <1>2, <2>1 DEF Coming, FrontNum, Written, Sends, Closing
  <2>3. ReadPlace(readOp[e], sent[Peer[e]], Coming(e)) = Place(1, "header")
    BY <2>1, <2>2 DEF ReadPlace, Idle
  <2>4. WritePlace(writeOps[Peer[e]], sent[Peer[e]], FrontNum(Peer[e])) = Place(1, "header")
    BY <2>1, <2>2 DEF WritePlace
  <2>5. Place(1, "header") \in Positions
    BY PlaceType
  <2>6. Carries(wire[e], sent[Peer[e]], Place(1, "header"), Place(1, "header"))
    BY <2>1, <2>5, StreamEmpty
  <2> QED BY <2>1, <2>3, <2>4, <2>5, <2>6 DEF StreamTo
<1> QED BY <1>1, <1>4, <1>5, <1>6, <1>7, <1>8 DEF LinkInv, Links, AllStreams
-----------------------------------------------------------------------------
(* Steps that leave a part of a link alone.                                *)

\* The typed parts of the link from w = Peer[x] into x.
LEMMA LinkTypes ==
  ASSUME LinkInv, NEW x \in Ends
  PROVE  /\ Types
         /\ Peer[x] \in Ends /\ Peer[Peer[x]] = x /\ Peer[x] # x
         /\ sent[x] \in Seq(Messages) /\ sent[Peer[x]] \in Seq(Messages)
         /\ writeOps[x] \in Seq(Writes) /\ sendDeq[x] \in Seq(Messages)
         /\ writeOps[Peer[x]] \in Seq(Writes) /\ sendDeq[Peer[x]] \in Seq(Messages)
         /\ posted[x] \in Seq(Tasks)
         /\ readOp[x] \in Reads /\ tempMsg[x] \in Messages /\ wire[x] \in Seq(Tokens)
         /\ recvDeq[x] \in Seq(Messages) /\ sock[x] \in {"open", "closed"}
         /\ Coming(x) \in Nat \ {0} /\ FrontNum(x) \in Nat \ {0} /\ FrontNum(Peer[x]) \in Nat \ {0}
         /\ InTransit(posted[x], sendDeq[x], sent[x])
         /\ Arrived(recvDeq[x], sent[Peer[x]])
         /\ HalfRead(readOp[x], tempMsg[x], sent[Peer[x]], Coming(x))
         /\ StreamTo(x)
<1>1. Types
  BY DEF LinkInv, ChainInv
<1>2. Peer[x] \in Ends /\ Peer[Peer[x]] = x /\ Peer[x] # x
  BY Constants
<1>3. /\ InTransit(posted[x], sendDeq[x], sent[x])
      /\ InTransit(posted[Peer[x]], sendDeq[Peer[x]], sent[Peer[x]])
  BY <1>2 DEF LinkInv, Links, AllInTransit
<1>4. FrontNum(x) \in Nat \ {0} /\ FrontNum(Peer[x]) \in Nat \ {0}
  BY <1>3 DEF FrontNum, InTransit
<1>5. /\ sent[x] \in Seq(Messages) /\ sent[Peer[x]] \in Seq(Messages)
      /\ writeOps[x] \in Seq(Writes) /\ sendDeq[x] \in Seq(Messages)
      /\ writeOps[Peer[x]] \in Seq(Writes) /\ sendDeq[Peer[x]] \in Seq(Messages)
      /\ posted[x] \in Seq(Tasks)
      /\ readOp[x] \in Reads /\ tempMsg[x] \in Messages /\ wire[x] \in Seq(Tokens)
      /\ recvDeq[x] \in Seq(Messages) /\ Len(recvDeq[x]) \in Nat
      /\ sock[x] \in {"open", "closed"}
  BY <1>1, <1>2, EndTypes
<1>6. Coming(x) \in Nat \ {0}
  BY <1>5 DEF Coming
<1>7. /\ Arrived(recvDeq[x], sent[Peer[x]])
      /\ HalfRead(readOp[x], tempMsg[x], sent[Peer[x]], Coming(x))
      /\ StreamTo(x)
  BY DEF LinkInv, Links, AllArrived, AllHalfRead, AllStreams
<1> QED BY <1>1, <1>2, <1>3, <1>4, <1>5, <1>6, <1>7

LEMMA StreamKept ==
  ASSUME LinkInv, Types', NEW x \in Ends,
         Extends(sent[Peer[x]], sent'[Peer[x]]),
         wire'[x] = wire[x], sock'[x] = sock[x],
         ReadPlace(readOp'[x], sent'[Peer[x]], Coming(x)')
           = ReadPlace(readOp[x], sent[Peer[x]], Coming(x)),
         Chained(Peer[x])' =>
           /\ Chained(Peer[x])
           /\ WritePlace(writeOps'[Peer[x]], sent'[Peer[x]], FrontNum(Peer[x])')
                = WritePlace(writeOps[Peer[x]], sent[Peer[x]], FrontNum(Peer[x]))
  PROVE  StreamTo(x)'
<1> DEFINE w == Peer[x]
           s == sent[w]
           from == ReadPlace(readOp[x], s, Coming(x))
           next == WritePlace(writeOps[w], s, FrontNum(w))
<1>1. StreamTo(x) /\ w \in Ends /\ s \in Seq(Messages) /\ wire[x] \in Seq(Tokens)
  BY LinkTypes
<1>2. sent'[w] \in Seq(Messages)
  BY <1>1 DEF Types
<1>3. CASE sock[x] = "open"
  <2>1. PICK to \in Positions : Carries(wire[x], s, from, to) /\ (Chained(w) => to = next)
    BY <1>1, <1>3 DEF StreamTo
  <2>2. Carries(wire[x], sent'[w], from, to)
    BY <1>1, <1>2, <2>1, GrownStream
  <2> QED BY <1>3, <2>1, <2>2 DEF StreamTo
<1>4. CASE sock[x] # "open"
  BY <1>1, <1>4 DEF StreamTo
<1> QED BY <1>3, <1>4

\* A closed end has nothing on the wire.
LEMMA StreamClosed ==
  ASSUME NEW x \in Ends, sock'[x] = "closed", wire'[x] = <<>>
  PROVE  StreamTo(x)'
BY DEF StreamTo

LEMMA ReadPlaceKept ==
  ASSUME LinkInv, Types', NEW x \in Ends, Extends(sent[Peer[x]], sent'[Peer[x]]),
         recvDeq'[x] = recvDeq[x], readOp'[x] = readOp[x]
  PROVE  ReadPlace(readOp'[x], sent'[Peer[x]], Coming(x)')
           = ReadPlace(readOp[x], sent[Peer[x]], Coming(x))
<1>1. Coming(x)' = Coming(x)
  BY DEF Coming
<1>2. sent'[Peer[x]] \in Seq(Messages)
  BY LinkTypes DEF Types
<1> QED BY <1>1, <1>2, LinkTypes, GrownReadPlace

\* The front message is one that Send was called with.
LEMMA FrontSent ==
  ASSUME LinkInv, NEW x \in Ends
  PROVE  /\ sendDeq[x] # <<>> => FrontNum(x) \in 1..Len(sent[x]) /\ Head(sendDeq[x]) = sent[x][FrontNum(x)]
         /\ writeOps[x] # <<>> => sendDeq[x] # <<>>
<1>1. sendDeq[x] # <<>> => FrontNum(x) \in 1..Len(sent[x]) /\ Head(sendDeq[x]) = sent[x][FrontNum(x)]
  BY LinkTypes, TransitFront DEF FrontNum
<1>2. writeOps[x] # <<>> => sendDeq[x] # <<>>
  BY DEF LinkInv, ChainInv, WriteChain
<1> QED BY <1>1, <1>2

LEMMA WritePlaceKept ==
  ASSUME LinkInv, Types', NEW x \in Ends, Extends(sent[x], sent'[x]),
         writeOps'[x] = writeOps[x], FrontNum(x)' = FrontNum(x)
  PROVE  WritePlace(writeOps'[x], sent'[x], FrontNum(x)')
           = WritePlace(writeOps[x], sent[x], FrontNum(x))
<1>1. sent'[x] \in Seq(Messages)
  BY DEF Types
<1>2. writeOps[x] # <<>> => FrontNum(x) <= Len(sent[x])
  BY FrontSent
<1> QED BY <1>1, <1>2, LinkTypes, GrownWritePlace

LEMMA ExtendsItself ==
  ASSUME NEW s \in Seq(Messages)
  PROVE  Extends(s, s)
BY LenProperties DEF Extends

\* The end x receives as before.
LEMMA ArrivedKept ==
  ASSUME LinkInv, Types', NEW x \in Ends, Extends(sent[Peer[x]], sent'[Peer[x]]),
         recvDeq'[x] = recvDeq[x], readOp'[x] = readOp[x], tempMsg'[x] = tempMsg[x]
  PROVE  /\ Arrived(recvDeq'[x], sent'[Peer[x]])
         /\ HalfRead(readOp'[x], tempMsg'[x], sent'[Peer[x]], Coming(x)')
<1>1. Coming(x)' = Coming(x)
  BY DEF Coming
<1>2. sent'[Peer[x]] \in Seq(Messages)
  BY LinkTypes DEF Types
<1> QED BY <1>1, <1>2, LinkTypes, GrownParts

\* Nobody reads.
LEMMA ReadersKept ==
  ASSUME LinkInv, Types', \A x \in Ends : Extends(sent[x], sent'[x]),
         UNCHANGED <<readOp, tempMsg, recvDeq>>
  PROVE  AllArrived' /\ AllHalfRead'
<1>1. ASSUME NEW x \in Ends
      PROVE  /\ Arrived(recvDeq'[x], sent'[Peer[x]])
             /\ HalfRead(readOp'[x], tempMsg'[x], sent'[Peer[x]], Coming(x)')
  BY LinkTypes, ArrivedKept
<1> QED BY <1>1 DEF AllArrived, AllHalfRead

\* Nobody sends, and no message leaves a deque.
LEMMA SendersKept ==
  ASSUME LinkInv, UNCHANGED <<posted, sendDeq, sent>>
  PROVE  /\ SentFresh' /\ AllInTransit'
         /\ \A x \in Ends : FrontNum(x)' = FrontNum(x) /\ Extends(sent[x], sent'[x])
<1>1. SentFresh' /\ AllInTransit'
  BY DEF LinkInv, Links, SentFresh, AllInTransit
<1>2. \A x \in Ends : FrontNum(x)' = FrontNum(x)
  BY DEF FrontNum
<1>3. \A x \in Ends : Extends(sent[x], sent'[x])
  BY LinkTypes, ExtendsItself
<1> QED BY <1>1, <1>2, <1>3

\* Only tasks are posted.
LEMMA LinksKept ==
  ASSUME LinkInv, Types', SentFresh',
         \A x \in Ends : /\ InTransit(posted'[x], sendDeq[x], sent'[x])
                         /\ FrontNum(x)' = FrontNum(x) /\ Extends(sent[x], sent'[x]),
         UNCHANGED <<sock, wire, writing, reading>>
  PROVE  Links'
<1>1. AllInTransit'
  BY DEF AllInTransit
<1>2. AllArrived' /\ AllHalfRead'
  BY ReadersKept
<1>3. ASSUME NEW x \in Ends PROVE StreamTo(x)'
  <2>1. Peer[x] \in Ends
    BY LinkTypes
  <2>2. ReadPlace(readOp'[x], sent'[Peer[x]], Coming(x)')
          = ReadPlace(readOp[x], sent[Peer[x]], Coming(x))
    BY <2>1, ReadPlaceKept
  <2>3. WritePlace(writeOps'[Peer[x]], sent'[Peer[x]], FrontNum(Peer[x])')
          = WritePlace(writeOps[Peer[x]], sent[Peer[x]], FrontNum(Peer[x]))
    BY <2>1, WritePlaceKept
  <2>4. Chained(Peer[x])' = Chained(Peer[x])
    BY DEF Chained
  <2> QED BY <2>1, <2>2, <2>3, <2>4, StreamKept
<1> QED BY <1>1, <1>2, <1>3 DEF Links, AllStreams

\* Send, or OnMessage with an echo.
LEMMA PostLinks ==
  ASSUME LinkInv, Types', NEW e \in Ends, NEW m \in Messages, m \in Fresh, PostSend(e, m),
         UNCHANGED <<sock, wire, writing, reading>>
  PROVE  Links'
<1>a. posted \in [Ends -> Seq(Tasks)] /\ sent \in [Ends -> Seq(Messages)]
  BY DEF LinkInv, ChainInv, Types
<1>1. /\ posted'[e] = Append(posted[e], [op |-> "send", msg |-> m])
      /\ sent'[e] = Append(sent[e], m)
      /\ \A x \in Ends : x # e => posted'[x] = posted[x] /\ sent'[x] = sent[x]
  BY <1>a DEF PostSend
<1>2. /\ InTransit(posted'[e], sendDeq[e], sent'[e])
      /\ Written(posted'[e], sendDeq[e], sent'[e]) = Written(posted[e], sendDeq[e], sent[e])
  BY <1>1, LinkTypes, TransitPost
<1>3. /\ Len(sent'[e]) = Len(sent[e]) + 1 /\ sent'[e][Len(sent[e]) + 1] = m
      /\ \A i \in 1..Len(sent[e]) : sent'[e][i] = sent[e][i]
      /\ Len(sent[e]) \in Nat
  BY <1>1, LinkTypes, AppendProperties, LenProperties
<1>4. ASSUME NEW x \in Ends
      PROVE  /\ InTransit(posted'[x], sendDeq[x], sent'[x])
             /\ FrontNum(x)' = FrontNum(x) /\ Extends(sent[x], sent'[x])
  <2>1. CASE x = e
    <3>1. Extends(sent[e], sent'[e])
      BY <1>3 DEF Extends
    <3> QED BY <1>2, <2>1, <3>1 DEF FrontNum
  <2>2. CASE x # e
    <3>1. Extends(sent[x], sent'[x])
      BY <1>1, <2>2, LinkTypes, ExtendsItself
    <3> QED BY <1>1, <2>2, <3>1, LinkTypes DEF FrontNum
  <2> QED BY <2>1, <2>2
<1>5. SentFresh'
  <2> SUFFICES ASSUME NEW x \in Ends, NEW i \in 1..Len(sent'[x]) PROVE sent'[x][i] \in Fresh
    BY DEF SentFresh, Fresh
  <2>1. \A j \in 1..Len(sent[x]) : sent[x][j] \in Fresh
    BY DEF LinkInv, Links, SentFresh
  <2>2. CASE x = e
    BY <1>3, <2>1, <2>2
  <2>3. CASE x # e
    BY <1>1, <2>1, <2>3
  <2> QED BY <2>2, <2>3
<1> QED BY <1>4, <1>5, LinksKept

\* Send makes fresh messages, whose header tells the size of the body.
LEMMA FreshMessages ==
  /\ \A id \in Ids, k \in 1..MaxSends : Made(id, k) \in Fresh
  /\ \A m \in Fresh : /\ m \in Messages /\ m.id \in Ids
                      /\ m.size = BodySize[m.id] /\ m.size = Len(m.body)
<1>1. ASSUME NEW id \in Ids, NEW k \in 1..MaxSends
      PROVE  /\ Made(id, k) \in Messages /\ Made(id, k).id = id
             /\ Made(id, k).size = BodySize[id] /\ Len(Made(id, k).body) = BodySize[id]
  BY NewMessage DEF Made
<1> QED BY <1>1 DEF Fresh

LEMMA SendLinks ==
  ASSUME LinkInv, Types', NEW e \in Ends, NEW id \in Ids, Send(e, id)
  PROVE  Links'
<1> DEFINE k == Len(sent[e]) + 1
           m == Made(id, k)
<1>1. k \in 1..MaxSends
  <2>1. sent[e] \in Seq(Messages)
    BY LinkTypes
  <2> QED BY <2>1, LenProperties, Constants DEF Send, PostSend
<1>2. m \in Fresh
  BY <1>1, FreshMessages
<1>3. m \in Messages
  BY <1>2, FreshMessages
<1>4. PostSend(e, m) /\ UNCHANGED <<sock, wire, writing, reading>>
  BY DEF Send, Made
<1> HIDE DEF m
<1> QED BY <1>2, <1>3, <1>4, PostLinks

\* What is echoed is what the other end sent.
LEMMA EchoFresh ==
  ASSUME EchoedHaveBody, LinkInv, NEW e \in Ends, taken[e] < Len(recvDeq[e]),
         recvDeq[e][taken[e] + 1].id \in EchoIds
  PROVE  recvDeq[e][taken[e] + 1] \in Messages /\ recvDeq[e][taken[e] + 1] \in Fresh
<1> DEFINE i == taken[e] + 1
           m == recvDeq[e][i]
           o == sent[Peer[e]][i]
<1>1. i \in 1..Len(recvDeq[e]) /\ recvDeq[e] \in Seq(Messages)
  <2>1. Types
    BY LinkTypes
  <2>2. taken[e] \in Nat /\ Len(recvDeq[e]) \in Nat /\ recvDeq[e] \in Seq(Messages)
    BY <2>1, EndTypes
  <2> QED BY <2>2
<1>2. m \in Messages
  BY <1>1, ElementOfSeq
<1>3. i \in 1..Len(sent[Peer[e]]) /\ SameMessage(m, o)
  <2>1. Arrived(recvDeq[e], sent[Peer[e]]) /\ sent[Peer[e]] \in Seq(Messages)
    BY LinkTypes
  <2>2. Len(recvDeq[e]) <= Len(sent[Peer[e]]) /\ Len(recvDeq[e]) \in Nat
           /\ Len(sent[Peer[e]]) \in Nat
    BY <1>1, <2>1, LenProperties DEF Arrived
  <2> QED BY <1>1, <2>1, <2>2 DEF Arrived
<1>4. o \in Fresh
  BY <1>3, LinkTypes DEF LinkInv, Links, SentFresh
<1> HIDE DEF m, i
<1>5. o \in Messages /\ o.size = BodySize[o.id] /\ o.id = m.id
  BY <1>3, <1>4, FreshMessages DEF SameMessage
<1>6. o.size > 0
  BY <1>5 DEF EchoedHaveBody, m, i
<1>7. m = o
  <2>1. m.id = o.id /\ m.size = o.size /\ m.body = o.body
    BY <1>3, <1>5, <1>6 DEF SameMessage
  <2> HIDE DEF o
  <2> QED BY <1>2, <1>5, <2>1 DEF Messages
<1> QED BY <1>2, <1>4, <1>7 DEF m, i

LEMMA HandleLinks ==
  ASSUME EchoedHaveBody, LinkInv, Types', NEW e \in Ends, Handle(e)
  PROVE  Links'
<1> DEFINE m == recvDeq[e][taken[e] + 1]
<1>1. UNCHANGED <<sock, wire, writing, reading>>
  BY DEF Handle
<1>2. CASE e = Echoer /\ m.id \in EchoIds
  <2>1. PostSend(e, m)
    BY <1>2 DEF Handle
  <2>2. m \in Messages /\ m \in Fresh
    BY <1>2, EchoFresh DEF Handle
  <2> HIDE DEF m
  <2> QED BY <1>1, <2>1, <2>2, PostLinks
<1>3. CASE ~ (e = Echoer /\ m.id \in EchoIds)
  <2>1. UNCHANGED <<posted, sent>>
    BY <1>3 DEF Handle
  <2>2. /\ SentFresh' /\ AllInTransit'
        /\ \A x \in Ends : FrontNum(x)' = FrontNum(x) /\ Extends(sent[x], sent'[x])
    BY <1>1, <2>1, SendersKept
  <2> QED BY <1>1, <2>1, <2>2, LinksKept DEF AllInTransit
<1> QED BY <1>2, <1>3

LEMMA DisconnectLinks ==
  ASSUME LinkInv, Types', NEW e \in Ends, Disconnect(e)
  PROVE  Links'
<1>a. posted \in [Ends -> Seq(Tasks)]
  BY DEF LinkInv, ChainInv, Types
<1>1. /\ UNCHANGED <<sock, wire, writing, reading, sent>>
      /\ posted'[e] = Append(posted[e], [op |-> "close"])
      /\ \A x \in Ends : x # e => posted'[x] = posted[x]
  BY <1>a DEF Disconnect
<1>2. ~ Closing(posted[e])
  BY DEF Disconnect, Closing, IsClose
<1>3. /\ InTransit(posted'[e], sendDeq[e], sent[e])
      /\ Written(posted'[e], sendDeq[e], sent[e]) = Written(posted[e], sendDeq[e], sent[e])
  BY <1>1, <1>2, LinkTypes, TransitDisconnect
<1>4. ASSUME NEW x \in Ends
      PROVE  /\ InTransit(posted'[x], sendDeq[x], sent'[x])
             /\ FrontNum(x)' = FrontNum(x) /\ Extends(sent[x], sent'[x])
  <2>1. Extends(sent[x], sent'[x])
    BY <1>1, LinkTypes, ExtendsItself
  <2>2. CASE x = e
    BY <1>1, <1>3, <2>1, <2>2 DEF FrontNum
  <2>3. CASE x # e
    BY <1>1, <2>1, <2>3, LinkTypes DEF FrontNum
  <2> QED BY <2>2, <2>3
<1>5. SentFresh'
  BY <1>1 DEF LinkInv, Links, SentFresh
<1> QED BY <1>1, <1>4, <1>5, LinksKept

\* Steps that change neither the places nor what is on the wire.
LEMMA NothingMoves ==
  ASSUME LinkInv, Types', UNCHANGED <<sock, wire, writing, readOp, tempMsg, recvDeq, posted, sent>>
  PROVE  Links'
<1>1. /\ SentFresh' /\ AllInTransit'
      /\ \A x \in Ends : FrontNum(x)' = FrontNum(x) /\ Extends(sent[x], sent'[x])
  BY SendersKept
<1>2. AllArrived' /\ AllHalfRead'
  BY <1>1, ReadersKept
<1>3. AllStreams'
  BY DEF LinkInv, Links, AllStreams, StreamTo, Coming, FrontNum, Chained
<1> QED BY <1>1, <1>2, <1>3 DEF Links

\* The first ReadHeader.
LEMMA StartLinks ==
  ASSUME LinkInv, Types', NEW e \in Ends, Start(e)
  PROVE  Links'
<1>1. /\ UNCHANGED <<sock, wire, tempMsg, recvDeq, writing, calls>>
      /\ readOp' = [readOp EXCEPT ![e] = ReadOf("header")] /\ ~ started[e]
  BY DEF Start
<1>2. /\ SentFresh' /\ AllInTransit'
      /\ \A x \in Ends : FrontNum(x)' = FrontNum(x) /\ Extends(sent[x], sent'[x])
  BY <1>1, SendersKept
<1>3. /\ readOp'[e] = ReadOf("header") /\ \A x \in Ends : x # e => readOp'[x] = readOp[x]
      /\ readOp[e].what = "none"
  BY <1>1 DEF LinkInv, ChainInv, Types, ReadChain
<1>4. Coming(e)' = Coming(e)
  BY <1>1 DEF Coming
<1>5. HalfRead(readOp'[e], tempMsg'[e], sent'[Peer[e]], Coming(e)')
  BY <1>3 DEF HalfRead, HeaderRead, ReadOf
<1>6. AllArrived' /\ AllHalfRead'
  <2>1. ASSUME NEW x \in Ends
        PROVE  /\ Arrived(recvDeq'[x], sent'[Peer[x]])
               /\ HalfRead(readOp'[x], tempMsg'[x], sent'[Peer[x]], Coming(x)')
    <3>1. CASE x = e
      BY <1>1, <1>5, <3>1, LinkTypes
    <3>2. CASE x # e
      BY <1>1, <1>2, <1>3, <3>2, LinkTypes, ArrivedKept
    <3> QED BY <3>1, <3>2
  <2> QED BY <2>1 DEF AllArrived, AllHalfRead
<1>7. ASSUME NEW x \in Ends PROVE StreamTo(x)'
  <2>1. Peer[x] \in Ends /\ Chained(Peer[x])' = Chained(Peer[x])
    BY <1>1, LinkTypes DEF Chained
  <2>2. ReadPlace(readOp'[x], sent'[Peer[x]], Coming(x)')
          = ReadPlace(readOp[x], sent[Peer[x]], Coming(x))
    <3>1. CASE x = e
      BY <1>1, <1>3, <1>4, <3>1 DEF ReadPlace, ReadOf
    <3>2. CASE x # e
      BY <1>1, <1>2, <1>3, <2>1, <3>2, ReadPlaceKept
    <3> QED BY <3>1, <3>2
  <2>3. WritePlace(writeOps'[Peer[x]], sent'[Peer[x]], FrontNum(Peer[x])')
          = WritePlace(writeOps[Peer[x]], sent[Peer[x]], FrontNum(Peer[x]))
    BY <1>1, <1>2, <2>1
  <2> QED BY <1>1, <1>2, <2>1, <2>2, <2>3, StreamKept
<1> QED BY <1>2, <1>6, <1>7 DEF Links, AllStreams

\* The task of Send: the deque takes the message over.
LEMMA RunSendLinks ==
  ASSUME LinkInv, Types', NEW e \in Ends, RunSend(e)
  PROVE  Links'
<1> DEFINE m == Head(posted[e]).msg
<1>a. /\ posted \in [Ends -> Seq(Tasks)] /\ sendDeq \in [Ends -> Seq(Messages)]
      /\ writeOps \in [Ends -> Seq(Writes)]
  BY DEF LinkInv, ChainInv, Types
<1>1. /\ posted[e] # <<>> /\ Head(posted[e]).op = "send"
      /\ posted'[e] = Tail(posted[e]) /\ sendDeq'[e] = Append(sendDeq[e], m)
      /\ \A x \in Ends : x # e => posted'[x] = posted[x] /\ sendDeq'[x] = sendDeq[x]
                                    /\ writeOps'[x] = writeOps[x]
      /\ UNCHANGED <<sock, broken, wire, taken, sent, reading>>
  BY <1>a DEF RunSend, Queued, StartsWriting, StartWrite
<1>2. writeOps'[e] = IF sendDeq[e] = <<>> THEN Append(writeOps[e], WriteOf(HeaderToken(m)))
                                          ELSE writeOps[e]
  BY <1>a DEF RunSend, StartsWriting, StartWrite
<1>3. /\ InTransit(posted'[e], sendDeq'[e], sent'[e])
      /\ FrontNum(e)' = FrontNum(e)
  <2>1. /\ posted[e] \in Seq(Tasks) /\ sendDeq[e] \in Seq(Messages)
        /\ sent[e] \in Seq(Messages) /\ InTransit(posted[e], sendDeq[e], sent[e])
    BY LinkTypes
  <2>2. /\ InTransit(Tail(posted[e]), Append(sendDeq[e], m), sent[e])
        /\ Written(Tail(posted[e]), Append(sendDeq[e], m), sent[e])
             = Written(posted[e], sendDeq[e], sent[e])
    BY <1>1, <2>1, TransitSend
  <2> QED BY <1>1, <2>2 DEF FrontNum
<1>4. \A x \in Ends : x # e => FrontNum(x)' = FrontNum(x)
  BY <1>1 DEF FrontNum
<1>5. AllInTransit'
  BY <1>1, <1>3, LinkTypes DEF AllInTransit
<1>6. SentFresh' /\ \A x \in Ends : Extends(sent[x], sent'[x])
  BY <1>1, LinkTypes, ExtendsItself DEF LinkInv, Links, SentFresh
<1>7. AllArrived' /\ AllHalfRead'
  BY <1>1, <1>6, ReadersKept
<1>8. /\ Chained(e)' => Chained(e)
      /\ WritePlace(writeOps'[e], sent'[e], FrontNum(e)')
           = WritePlace(writeOps[e], sent[e], FrontNum(e))
  <2>1. CASE sendDeq[e] = <<>>
    <3>1. writeOps[e] = <<>>
      BY <2>1, FrontSent
    <3>2. writeOps'[e] = <<WriteOf(HeaderToken(m))>>
      <4>1. writeOps'[e] = Append(<<>>, WriteOf(HeaderToken(m)))
        BY <1>2, <2>1, <3>1
      <4> QED BY <4>1
    <3>3. /\ writeOps'[e] # <<>> /\ writeOps'[e][1].res = "pending"
          /\ writeOps'[e][1].token.what = "header"
      BY <3>2 DEF WriteOf, HeaderToken
    <3> QED BY <1>3, <2>1, <3>1, <3>3 DEF Chained, WritePlace
  <2>2. CASE sendDeq[e] # <<>>
    <3>1. sendDeq'[e] # <<>>
      <4>1. Head(posted[e]) \in Tasks
        BY <1>1, LinkTypes, TailItems
      <4>2. m \in Messages
        BY <1>1, <4>1 DEF Tasks
      <4>3. sendDeq[e] \in Seq(Messages)
        BY LinkTypes
      <4>4. Append(sendDeq[e], m) # <<>>
        BY <4>2, <4>3, AppendProperties
      <4> QED BY <1>1, <4>4
    <3> QED BY <1>1, <1>2, <1>3, <2>2, <3>1 DEF Chained
  <2> QED BY <2>1, <2>2
<1>9. ASSUME NEW x \in Ends PROVE StreamTo(x)'
  <2>1. Peer[x] \in Ends
    BY LinkTypes
  <2>2. ReadPlace(readOp'[x], sent'[Peer[x]], Coming(x)')
          = ReadPlace(readOp[x], sent[Peer[x]], Coming(x))
    BY <1>1, <1>6, <2>1, ReadPlaceKept
  <2>3. /\ Chained(Peer[x])' => Chained(Peer[x])
        /\ WritePlace(writeOps'[Peer[x]], sent'[Peer[x]], FrontNum(Peer[x])')
             = WritePlace(writeOps[Peer[x]], sent[Peer[x]], FrontNum(Peer[x]))
    <3>1. CASE Peer[x] = e
      BY <1>8, <3>1
    <3>2. CASE Peer[x] # e
      BY <1>1, <1>4, <2>1, <3>2 DEF Chained
    <3> QED BY <3>1, <3>2
  <2>4. wire'[x] = wire[x] /\ sock'[x] = sock[x]
    BY <1>1
  <2> QED BY <1>6, <2>1, <2>2, <2>3, <2>4, StreamKept
<1> QED BY <1>5, <1>6, <1>7, <1>9 DEF Links, AllStreams

\* A socket is closed: its end loses what was on the way to it.
LEMMA CloseEffect ==
  ASSUME Types, NEW e \in Ends, CloseSocket(e)
  PROVE  /\ sock'[e] = "closed" /\ wire'[e] = <<>>
         /\ \A x \in Ends : x # e => sock'[x] = sock[x] /\ wire'[x] = wire[x]
BY DEF CloseSocket, Types

LEMMA RunCloseLinks ==
  ASSUME LinkInv, Types', NEW e \in Ends, RunClose(e)
  PROVE  Links'
<1>a. Types
  BY DEF LinkInv, ChainInv
<1>1. /\ posted[e] # <<>> /\ Head(posted[e]).op = "close"
      /\ posted'[e] = Tail(posted[e])
      /\ \A x \in Ends : x # e => posted'[x] = posted[x]
      /\ CloseSocket(e) /\ UNCHANGED <<broken, taken, sent, writing, reading>>
  BY <1>a DEF RunClose, Types
<1>2. /\ sock'[e] = "closed" /\ wire'[e] = <<>>
      /\ \A x \in Ends : x # e => sock'[x] = sock[x] /\ wire'[x] = wire[x]
  BY <1>a, <1>1, CloseEffect
<1>3. InTransit(posted'[e], sendDeq'[e], sent'[e]) /\ FrontNum(e)' = FrontNum(e)
  BY <1>1, LinkTypes, TransitClose DEF FrontNum
<1>4. \A x \in Ends : FrontNum(x)' = FrontNum(x)
  BY <1>1, <1>3 DEF FrontNum
<1>5. AllInTransit'
  BY <1>1, <1>3, LinkTypes DEF AllInTransit
<1>6. SentFresh' /\ \A x \in Ends : Extends(sent[x], sent'[x])
  BY <1>1, LinkTypes, ExtendsItself DEF LinkInv, Links, SentFresh
<1>7. AllArrived' /\ AllHalfRead'
  BY <1>1, <1>6, ReadersKept
<1>8. ASSUME NEW x \in Ends PROVE StreamTo(x)'
  <2>1. CASE x = e
    BY <1>2, <2>1, StreamClosed
  <2>2. CASE x # e
    <3>1. Peer[x] \in Ends
      BY LinkTypes
    <3>2. ReadPlace(readOp'[x], sent'[Peer[x]], Coming(x)')
            = ReadPlace(readOp[x], sent[Peer[x]], Coming(x))
      BY <1>1, <1>6, <3>1, ReadPlaceKept
    <3>3. WritePlace(writeOps'[Peer[x]], sent'[Peer[x]], FrontNum(Peer[x])')
            = WritePlace(writeOps[Peer[x]], sent[Peer[x]], FrontNum(Peer[x]))
      BY <1>1, <1>4, <3>1
    <3>4. Chained(Peer[x])' = Chained(Peer[x])
      BY <1>1 DEF Chained
    <3> QED BY <1>2, <1>6, <2>2, <3>1, <3>2, <3>3, <3>4, StreamKept
  <2> QED BY <2>1, <2>2
<1> QED BY <1>5, <1>6, <1>7, <1>8 DEF Links, AllStreams

\* The writer moves on by itself, and no byte moves: what is on the wire is
\* what it was, or the end closed.
LEMMA WriterLinks ==
  ASSUME LinkInv, Types', NEW e \in Ends,
         UNCHANGED <<posted, sent, readOp, tempMsg, recvDeq>>,
         \A x \in Ends : x # e => writeOps'[x] = writeOps[x] /\ sendDeq'[x] = sendDeq[x],
         InTransit(posted[e], sendDeq'[e], sent[e]),
         Chained(e)' => /\ Chained(e)
                        /\ WritePlace(writeOps'[e], sent[e], FrontNum(e)')
                             = WritePlace(writeOps[e], sent[e], FrontNum(e)),
         UNCHANGED <<sock, wire>> \/ CloseSocket(e)
  PROVE  Links'
<1>1. SentFresh' /\ \A x \in Ends : Extends(sent[x], sent'[x])
  BY LinkTypes, ExtendsItself DEF LinkInv, Links, SentFresh
<1>2. AllArrived' /\ AllHalfRead'
  BY <1>1, ReadersKept
<1>3. AllInTransit'
  BY LinkTypes DEF AllInTransit
<1>4. ASSUME NEW x \in Ends, x # e \/ UNCHANGED <<sock, wire>> PROVE StreamTo(x)'
  <2>1. Peer[x] \in Ends /\ Types
    BY LinkTypes
  <2>2. ReadPlace(readOp'[x], sent'[Peer[x]], Coming(x)')
          = ReadPlace(readOp[x], sent[Peer[x]], Coming(x))
    BY <1>1, <2>1, ReadPlaceKept
  <2>3. Chained(Peer[x])' =>
          /\ Chained(Peer[x])
          /\ WritePlace(writeOps'[Peer[x]], sent'[Peer[x]], FrontNum(Peer[x])')
               = WritePlace(writeOps[Peer[x]], sent[Peer[x]], FrontNum(Peer[x]))
    <3>1. CASE Peer[x] = e
      BY <3>1
    <3>2. CASE Peer[x] # e
      BY <2>1, <3>2 DEF Chained, FrontNum
    <3> QED BY <3>1, <3>2
  <2>4. wire'[x] = wire[x] /\ sock'[x] = sock[x]
    BY <1>4, <2>1, CloseEffect
  <2> QED BY <1>1, <2>1, <2>2, <2>3, <2>4, StreamKept
<1>5. ASSUME CloseSocket(e) PROVE StreamTo(e)'
  <2>1. sock'[e] = "closed" /\ wire'[e] = <<>>
    BY <1>5, LinkTypes, CloseEffect
  <2> QED BY <2>1, StreamClosed
<1> QED BY <1>1, <1>2, <1>3, <1>4, <1>5 DEF Links, AllStreams

\* WriteHeader goes on to WriteBody.
LEMMA WriteNextPartLinks ==
  ASSUME LinkInv, Types', NEW e \in Ends, NEW i \in DOMAIN writeOps[e],
         WriteHandler(e, i), WriteNextPart(e, i)
  PROVE  Links'
<1> DEFINE s == sent[e]
           n == FrontNum(e)
<1>a. ChainInv /\ Types
  BY DEF LinkInv, ChainInv
<1>1. UNCHANGED <<broken, reading, calls>> /\ UNCHANGED <<sock, wire, sendDeq>>
  BY <1>a, WriteHandlerCases DEF WriteNextPart
<1>2. /\ i = 1 /\ writeOps[e] # <<>> /\ sendDeq[e] # <<>>
      /\ writeOps' = [writeOps EXCEPT ![e] = <<WriteOf(BodyToken(Head(sendDeq[e])))>>]
  BY <1>a, OnlyWrite, WriteHandlerLeaves
<1>3. /\ writeOps'[e] = <<WriteOf(BodyToken(Head(sendDeq[e])))>>
      /\ \A x \in Ends : x # e => writeOps'[x] = writeOps[x]
  BY <1>a, <1>2 DEF Types
<1>4. /\ writeOps'[e] # <<>> /\ writeOps'[e][1].res = "pending"
      /\ writeOps'[e][1].token.what = "body"
  BY <1>3 DEF WriteOf, BodyToken
<1>5. writeOps[e][1].res = "ok" /\ writeOps[e][1].token.what = "header"
        /\ Head(sendDeq[e]).body # <<>>
  BY <1>2 DEF WriteNextPart
<1>6. Head(sendDeq[e]) = s[n] /\ n \in Nat \ {0} /\ n = FrontNum(e)'
  BY <1>1, <1>2, FrontSent, LinkTypes DEF FrontNum
<1>7. WritePlace(writeOps[e], s, n) = Place(n, "body")
  BY <1>2, <1>5, <1>6, PlaceType DEF WritePlace
<1>8. WritePlace(writeOps'[e], s, n) = Place(n, "body")
  BY <1>4 DEF WritePlace
<1>9. Chained(e)
  BY <1>2 DEF Chained
<1>10. InTransit(posted[e], sendDeq'[e], sent[e])
  BY <1>1, LinkTypes
<1> QED BY <1>1, <1>3, <1>6, <1>7, <1>8, <1>9, <1>10, WriterLinks

\* A message is written, and the next one begins.
LEMMA WriteNextMessageLinks ==
  ASSUME LinkInv, Types', NEW e \in Ends, NEW i \in DOMAIN writeOps[e],
         WriteHandler(e, i), WriteNextMessage(e, i)
  PROVE  Links'
<1> DEFINE s == sent[e]
           n == FrontNum(e)
<1>a. ChainInv /\ Types
  BY DEF LinkInv, ChainInv
<1>1. UNCHANGED <<broken, reading, calls>> /\ UNCHANGED <<sock, wire>>
  BY <1>a, WriteHandlerCases DEF WriteNextMessage
<1>2. /\ i = 1 /\ writeOps[e] # <<>> /\ sendDeq[e] # <<>>
      /\ writeOps' = [writeOps EXCEPT ![e] = NextWrite(Tail(sendDeq[e]))]
      /\ sendDeq' = [sendDeq EXCEPT ![e] = Tail(@)]
  BY <1>a, OnlyWrite, WriteHandlerLeaves DEF WriteNextMessage
<1>3. /\ writeOps'[e] = NextWrite(Tail(sendDeq[e])) /\ sendDeq'[e] = Tail(sendDeq[e])
      /\ \A x \in Ends : x # e => writeOps'[x] = writeOps[x] /\ sendDeq'[x] = sendDeq[x]
  BY <1>a, <1>2 DEF Types
<1>4. /\ InTransit(posted[e], sendDeq'[e], s)
      /\ FrontNum(e)' = n + 1
      /\ n \in Nat \ {0} /\ Head(sendDeq[e]) = s[n]
  <2>1. InTransit(posted[e], sendDeq'[e], s)
    BY <1>2, <1>3, LinkTypes, TransitFront
  <2>2. Written(posted[e], sendDeq'[e], s) = Written(posted[e], sendDeq[e], s) + 1
    BY <1>2, <1>3, LinkTypes, TransitFront
  <2>3. FrontNum(e)' = n + 1
    BY <1>1, <2>2 DEF FrontNum
  <2> QED BY <1>2, <2>1, <2>3, LinkTypes, FrontSent
<1>5. WritePlace(writeOps'[e], s, n + 1) = Place(n + 1, "header")
  <2>1. CASE Tail(sendDeq[e]) = <<>>
    BY <1>3, <2>1 DEF WritePlace, NextWrite
  <2>2. CASE Tail(sendDeq[e]) # <<>>
    <3>1. writeOps'[e] = <<WriteOf(HeaderToken(Head(Tail(sendDeq[e]))))>>
      BY <1>3, <2>2 DEF NextWrite
    <3>2. /\ writeOps'[e] # <<>> /\ writeOps'[e][1].res = "pending"
          /\ writeOps'[e][1].token.what = "header"
      BY <3>1 DEF WriteOf, HeaderToken
    <3> QED BY <3>2 DEF WritePlace
  <2> QED BY <2>1, <2>2
<1>6. WritePlace(writeOps[e], s, n) = Place(n + 1, "header")
  <2>1. writeOps[e][1].res = "ok"
    BY <1>2 DEF WriteNextMessage
  <2>2. CASE writeOps[e][1].token = HeaderToken(Head(sendDeq[e]))
    <3>1. writeOps[e][1].token.what = "header"
      BY <2>2 DEF HeaderToken
    <3>2. s[n].body = <<>>
      BY <1>2, <1>4, <3>1 DEF WriteNextMessage
    <3> QED BY <1>2, <1>4, <2>1, <3>1, <3>2, PlaceType DEF WritePlace
  <2>3. CASE writeOps[e][1].token = BodyToken(Head(sendDeq[e]))
    <3>1. writeOps[e][1].token.what = "body"
      BY <2>3 DEF BodyToken
    <3> QED BY <1>2, <1>4, <2>1, <3>1, PlaceType DEF WritePlace
  <2> QED BY <1>a, <2>2, <2>3, OnlyWrite
<1>7. Chained(e)
  BY <1>2 DEF Chained
<1> QED BY <1>1, <1>3, <1>4, <1>5, <1>6, <1>7, WriterLinks

\* A write fails.
LEMMA WriteFailedLinks ==
  ASSUME LinkInv, Types', NEW e \in Ends, NEW i \in DOMAIN writeOps[e],
         WriteHandler(e, i), WriteFailed(e, i)
  PROVE  Links'
<1>a. ChainInv /\ Types
  BY DEF LinkInv, ChainInv
<1>1. UNCHANGED <<broken, reading, calls>> /\ UNCHANGED sendDeq /\ CloseSocket(e)
  BY <1>a, WriteHandlerCases DEF WriteFailed
<1>2. sendDeq[e] # <<>> /\ writeOps' = [writeOps EXCEPT ![e] = <<>>]
  BY <1>a, OnlyWrite, WriteHandlerLeaves
<1>3. writeOps'[e] = <<>> /\ \A x \in Ends : x # e => writeOps'[x] = writeOps[x]
  BY <1>a, <1>2 DEF Types
<1>4. ~ Chained(e)'
  BY <1>1, <1>2, <1>3 DEF Chained
<1>5. InTransit(posted[e], sendDeq'[e], sent[e])
  BY <1>1, LinkTypes
<1> QED BY <1>1, <1>3, <1>4, <1>5, WriterLinks

\* The kernel gives up a write.
LEMMA WriteErrorLinks ==
  ASSUME LinkInv, Types', NEW e \in Ends, NEW i \in DOMAIN writeOps[e], WriteError(e, i)
  PROVE  Links'
<1>a. ChainInv /\ Types
  BY DEF LinkInv, ChainInv
<1>1. /\ UNCHANGED <<sock, wire, broken, sendDeq, reading, calls>>
      /\ Finish(e, i, "error") /\ writeOps[e][i].res = "pending"
  BY DEF WriteError
<1>2. /\ \A x \in Ends : x # e => writeOps'[x] = writeOps[x]
      /\ Len(writeOps'[e]) = Len(writeOps[e])
      /\ writeOps'[e][i].token = writeOps[e][i].token /\ writeOps'[e][i].res = "error"
  BY <1>a, <1>1, FinishTypes DEF Results
<1>3. i = 1 /\ Len(writeOps[e]) = 1 /\ writeOps[e] # <<>> /\ sendDeq[e] # <<>>
  BY <1>a, OnlyWrite
<1>4. writeOps'[e] # <<>> /\ FrontNum(e)' = FrontNum(e)
  BY <1>1, <1>2, <1>3 DEF FrontNum
<1>5. WritePlace(writeOps'[e], sent[e], FrontNum(e)')
        = WritePlace(writeOps[e], sent[e], FrontNum(e))
  BY <1>1, <1>2, <1>3, <1>4 DEF WritePlace
<1>6. Chained(e)
  BY <1>3 DEF Chained
<1>7. InTransit(posted[e], sendDeq'[e], sent[e])
  BY <1>1, LinkTypes
<1> QED BY <1>1, <1>2, <1>5, <1>6, <1>7, WriterLinks

\* The reader moves on by itself: what is on the wire is what it was, or the
\* end closed.
LEMMA ReaderLinks ==
  ASSUME LinkInv, Types', NEW e \in Ends,
         UNCHANGED <<posted, sent, sendDeq, writeOps>>,
         \A x \in Ends : x # e => /\ readOp'[x] = readOp[x] /\ tempMsg'[x] = tempMsg[x]
                                  /\ recvDeq'[x] = recvDeq[x],
         \A x \in Ends : x # e => sock'[x] = sock[x] /\ wire'[x] = wire[x],
         Arrived(recvDeq'[e], sent[Peer[e]]),
         HalfRead(readOp'[e], tempMsg'[e], sent[Peer[e]], Coming(e)'),
         StreamTo(e)'
  PROVE  Links'
<1>1. /\ SentFresh' /\ AllInTransit'
      /\ \A x \in Ends : FrontNum(x)' = FrontNum(x) /\ Extends(sent[x], sent'[x])
  BY SendersKept
<1>2. ASSUME NEW x \in Ends
      PROVE  /\ Arrived(recvDeq'[x], sent'[Peer[x]])
             /\ HalfRead(readOp'[x], tempMsg'[x], sent'[Peer[x]], Coming(x)')
  <2>1. CASE x = e
    BY <2>1
  <2>2. CASE x # e
    BY <1>1, <2>2, LinkTypes, ArrivedKept
  <2> QED BY <2>1, <2>2
<1>3. ASSUME NEW x \in Ends, x # e PROVE StreamTo(x)'
  <2>1. Peer[x] \in Ends
    BY LinkTypes
  <2>2. ReadPlace(readOp'[x], sent'[Peer[x]], Coming(x)')
          = ReadPlace(readOp[x], sent[Peer[x]], Coming(x))
    BY <1>1, <1>3, <2>1, ReadPlaceKept
  <2>3. WritePlace(writeOps'[Peer[x]], sent'[Peer[x]], FrontNum(Peer[x])')
          = WritePlace(writeOps[Peer[x]], sent[Peer[x]], FrontNum(Peer[x]))
    BY <1>1, <2>1
  <2>4. Chained(Peer[x])' = Chained(Peer[x])
    BY DEF Chained
  <2>5. wire'[x] = wire[x] /\ sock'[x] = sock[x]
    BY <1>3
  <2> QED BY <1>1, <2>1, <2>2, <2>3, <2>4, <2>5, StreamKept
<1> QED BY <1>1, <1>2, <1>3 DEF Links, AllStreams, AllArrived, AllHalfRead

\* As long as neither the reader's place nor the wire moves, the stream stays.
LEMMA ReaderStays ==
  ASSUME LinkInv, Types', NEW e \in Ends,
         UNCHANGED <<posted, sent, sendDeq, writeOps>>,
         wire'[e] = wire[e], sock'[e] = sock[e],
         ReadPlace(readOp'[e], sent[Peer[e]], Coming(e)')
           = ReadPlace(readOp[e], sent[Peer[e]], Coming(e))
  PROVE  StreamTo(e)'
<1>1. Peer[e] \in Ends /\ Extends(sent[Peer[e]], sent'[Peer[e]])
  BY LinkTypes, ExtendsItself
<1>2. Chained(Peer[e])' = Chained(Peer[e]) /\ FrontNum(Peer[e])' = FrontNum(Peer[e])
  BY DEF Chained, FrontNum
<1> QED BY <1>1, <1>2, StreamKept

\* ReadHeader goes on to ReadBody.
LEMMA ReadNextPartLinks ==
  ASSUME LinkInv, Types', NEW e \in Ends, ReadHandler(e), ReadNextPart(e)
  PROVE  Links'
<1> DEFINE s == sent[Peer[e]]
           n == Coming(e)
<1>1. UNCHANGED <<started, tempMsg, broken, writing, calls>> /\ UNCHANGED <<sock, wire, recvDeq>>
  BY ReadHandlerCases DEF ReadNextPart
<1>2. /\ readOp[e].res = "ok" /\ readOp[e].what = "header" /\ tempMsg[e].size > 0
      /\ readOp'[e] = ReadOf("body") /\ \A x \in Ends : x # e => readOp'[x] = readOp[x]
  BY DEF ReadNextPart, LinkInv, ChainInv, Types
<1>3. n \in Nat \ {0} /\ n = Coming(e)' /\ HalfRead(readOp[e], tempMsg[e], s, n)
  BY <1>1, LinkTypes DEF Coming
<1>4. n <= Len(s) /\ tempMsg[e].id = s[n].id /\ tempMsg[e].size = s[n].size
  BY <1>2, <1>3 DEF HalfRead, HeaderRead
<1>5. HalfRead(readOp'[e], tempMsg'[e], s, n)
  BY <1>1, <1>2, <1>4 DEF HalfRead, HeaderRead, ReadOf
<1>6. s[n].body # <<>>
  <2>1. n \in 1..Len(s) /\ Peer[e] \in Ends
    BY <1>3, <1>4, LinkTypes, LenProperties
  <2>2. s[n] \in Fresh
    BY <2>1 DEF LinkInv, Links, SentFresh
  <2>3. s[n].size = Len(s[n].body)
    BY <2>2, FreshMessages
  <2> QED BY <1>2, <1>4, <2>3
<1>7. ReadPlace(readOp[e], s, n) = Place(n, "body")
  BY <1>2, <1>3, <1>6, PlaceType DEF ReadPlace
<1>8. ReadPlace(readOp'[e], s, n) = Place(n, "body")
  BY <1>2 DEF ReadPlace, ReadOf
<1>9. StreamTo(e)'
  BY <1>1, <1>3, <1>7, <1>8, ReaderStays
<1>10. Arrived(recvDeq'[e], s)
  BY <1>1, LinkTypes
<1> QED BY <1>1, <1>2, <1>3, <1>5, <1>9, <1>10, ReaderLinks

\* A whole message goes to the queue, and the next header is awaited.
LEMMA ReadWholeLinks ==
  ASSUME LinkInv, Types', NEW e \in Ends, ReadHandler(e), ReadWhole(e)
  PROVE  Links'
<1> DEFINE s == sent[Peer[e]]
           n == Coming(e)
<1>a. recvDeq \in [Ends -> Seq(Messages)] /\ readOp \in [Ends -> Reads]
  BY DEF LinkInv, ChainInv, Types
<1>1. UNCHANGED <<started, tempMsg, broken, writing, calls>> /\ UNCHANGED <<sock, wire>>
  BY ReadHandlerCases DEF ReadWhole
<1>2. /\ readOp[e].what \in {"header", "body"} /\ readOp[e].res = "ok"
      /\ readOp[e].what = "header" => tempMsg[e].size = 0
      /\ readOp'[e] = ReadOf("header") /\ recvDeq'[e] = Append(recvDeq[e], tempMsg[e])
      /\ \A x \in Ends : x # e => readOp'[x] = readOp[x] /\ recvDeq'[x] = recvDeq[x]
  BY <1>a DEF ReadWhole, Reads
<1>3. n \in Nat \ {0} /\ HalfRead(readOp[e], tempMsg[e], s, n) /\ s \in Seq(Messages)
  BY LinkTypes
<1>4. /\ n <= Len(s) /\ tempMsg[e].id = s[n].id /\ tempMsg[e].size = s[n].size
      /\ readOp[e].what = "body" => tempMsg[e].size > 0 /\ tempMsg[e].body = s[n].body
  BY <1>2, <1>3 DEF HalfRead, HeaderRead
<1>5. SameMessage(tempMsg[e], s[n])
  BY <1>2, <1>4 DEF SameMessage
<1>6. /\ Len(recvDeq'[e]) = n /\ recvDeq'[e][n] = tempMsg[e]
      /\ \A i \in 1..Len(recvDeq[e]) : recvDeq'[e][i] = recvDeq[e][i]
      /\ Len(recvDeq[e]) \in Nat /\ n = Len(recvDeq[e]) + 1
  BY <1>2, LinkTypes, AppendProperties, LenProperties DEF Coming
<1>7. Arrived(recvDeq'[e], s)
  <2>1. Arrived(recvDeq[e], s)
    BY LinkTypes
  <2>2. ASSUME NEW i \in 1..n PROVE SameMessage(recvDeq'[e][i], s[i])
    <3>1. CASE i = n
      BY <1>5, <1>6, <3>1
    <3>2. CASE i # n
      <4>1. i \in 1..Len(recvDeq[e])
        BY <1>6, <3>2
      <4> QED BY <1>6, <2>1, <4>1 DEF Arrived
    <3> QED BY <3>1, <3>2
  <2> QED BY <1>4, <1>6, <2>2 DEF Arrived
<1>8. Coming(e)' = n + 1
  BY <1>6 DEF Coming
<1>9. HalfRead(readOp'[e], tempMsg'[e], s, n + 1)
  BY <1>2 DEF HalfRead, HeaderRead, ReadOf
<1>10. ReadPlace(readOp'[e], s, n + 1) = Place(n + 1, "header")
  BY <1>2 DEF ReadPlace, ReadOf
<1>11. ReadPlace(readOp[e], s, n) = Place(n + 1, "header")
  <2>1. CASE readOp[e].what = "body"
    BY <1>2, <1>3, <2>1, PlaceType DEF ReadPlace
  <2>2. CASE readOp[e].what = "header"
    <3>1. s[n].body = <<>>
      <4>1. n \in 1..Len(s) /\ Peer[e] \in Ends
        BY <1>3, <1>4, LinkTypes, LenProperties
      <4>2. s[n] \in Fresh
        BY <4>1 DEF LinkInv, Links, SentFresh
      <4>3. s[n].size = Len(s[n].body) /\ s[n].body \in Seq(1..MaxSends)
        BY <4>2, FreshMessages, Parts
      <4>4. Len(s[n].body) = 0
        BY <1>2, <1>4, <2>2, <4>3
      <4> QED BY <4>3, <4>4, EmptySeq
    <3> QED BY <1>2, <1>3, <2>2, <3>1, PlaceType DEF ReadPlace
  <2> QED BY <1>2, <2>1, <2>2
<1>12. StreamTo(e)'
  BY <1>1, <1>8, <1>10, <1>11, ReaderStays
<1> QED BY <1>1, <1>2, <1>7, <1>8, <1>9, <1>12, ReaderLinks

\* A read fails.
LEMMA ReadClosedLinks ==
  ASSUME LinkInv, Types', NEW e \in Ends, ReadHandler(e), ReadClosed(e)
  PROVE  Links'
<1>a. Types
  BY LinkTypes
<1>1. /\ UNCHANGED <<started, tempMsg, broken, writing, calls>>
      /\ UNCHANGED recvDeq /\ CloseSocket(e)
  BY ReadHandlerCases DEF ReadClosed
<1>2. readOp'[e] = Idle /\ \A x \in Ends : x # e => readOp'[x] = readOp[x]
  BY <1>a DEF ReadClosed, Types
<1>3. /\ sock'[e] = "closed" /\ wire'[e] = <<>>
      /\ \A x \in Ends : x # e => sock'[x] = sock[x] /\ wire'[x] = wire[x]
  BY <1>a, <1>1, CloseEffect
<1>4. StreamTo(e)'
  BY <1>3, StreamClosed
<1>5. HalfRead(readOp'[e], tempMsg'[e], sent[Peer[e]], Coming(e)')
  BY <1>2 DEF HalfRead, HeaderRead, Idle
<1>6. Arrived(recvDeq'[e], sent[Peer[e]])
  BY <1>1, LinkTypes
<1> QED BY <1>1, <1>2, <1>3, <1>4, <1>5, <1>6, ReaderLinks

\* The kernel gives up a read.
LEMMA ReadErrorLinks ==
  ASSUME LinkInv, Types', NEW e \in Ends, ReadError(e)
  PROVE  Links'
<1>1. /\ UNCHANGED <<started, sock, wire, broken, tempMsg, recvDeq, writing, calls>>
      /\ readOp[e].what # "none" /\ readOp[e].res = "pending"
  BY DEF ReadError
<1>2. /\ readOp'[e].what = readOp[e].what /\ readOp'[e].res = "error"
      /\ \A x \in Ends : x # e => readOp'[x] = readOp[x]
  BY DEF ReadError, LinkInv, ChainInv, Types, Reads
<1>3. Coming(e)' = Coming(e)
  BY <1>1 DEF Coming
<1>4. HalfRead(readOp'[e], tempMsg'[e], sent[Peer[e]], Coming(e)')
  BY <1>1, <1>2, <1>3, LinkTypes DEF HalfRead, HeaderRead
<1>5. ReadPlace(readOp'[e], sent[Peer[e]], Coming(e)')
        = ReadPlace(readOp[e], sent[Peer[e]], Coming(e))
  BY <1>1, <1>2, <1>3 DEF ReadPlace
<1>6. StreamTo(e)'
  BY <1>1, <1>5, ReaderStays
<1>7. Arrived(recvDeq'[e], sent[Peer[e]])
  BY <1>1, LinkTypes
<1> QED BY <1>1, <1>2, <1>4, <1>6, <1>7, ReaderLinks

\* The kernel takes the bytes of a write.
LEMMA WriteOkLinks ==
  ASSUME LinkInv, Types', NEW e \in Ends, NEW i \in DOMAIN writeOps[e], WriteOk(e, i)
  PROVE  Links'
<1> DEFINE s == sent[e]
           n == FrontNum(e)
           tok == writeOps[e][1].token
           q == Place(n, tok.what)
<1>a. ChainInv /\ Types /\ Peer[e] \in Ends /\ Peer[Peer[e]] = e
  BY LinkTypes DEF LinkInv
<1>1. /\ UNCHANGED <<sock, broken, sendDeq, reading, calls>>
      /\ Finish(e, i, "ok") /\ writeOps[e][i].res = "pending"
  BY DEF WriteOk
<1>2. /\ \A x \in Ends : x # e => writeOps'[x] = writeOps[x]
      /\ Len(writeOps'[e]) = Len(writeOps[e])
      /\ writeOps'[e][i].token = writeOps[e][i].token /\ writeOps'[e][i].res = "ok"
  BY <1>a, <1>1, FinishTypes DEF Results
<1>3. /\ i = 1 /\ Len(writeOps[e]) = 1 /\ writeOps[e] # <<>> /\ sendDeq[e] # <<>>
      /\ writeOps[e][1] \in Writes
  BY <1>a, OnlyWrite
<1>4. /\ writeOps'[e] # <<>> /\ FrontNum(e)' = n /\ Chained(e)
      /\ n \in 1..Len(s) /\ n \in Nat \ {0} /\ Head(sendDeq[e]) = s[n]
  BY <1>1, <1>2, <1>3, FrontSent, LinkTypes DEF FrontNum, Chained
<1>5. tok \in Tokens /\ tok.what \in {"header", "body"} /\ tok = TokenAt(s, q)
  <2>1. tok \in Tokens
    BY <1>3 DEF Writes
  <2>2. CASE tok = HeaderToken(Head(sendDeq[e]))
    <3>1. tok.what = "header"
      BY <2>2 DEF HeaderToken
    <3> QED BY <1>4, <2>1, <2>2, <3>1, PlaceType DEF TokenAt
  <2>3. CASE tok = BodyToken(Head(sendDeq[e]))
    <3>1. tok.what = "body"
      BY <2>3 DEF BodyToken
    <3> QED BY <1>4, <2>1, <2>3, <3>1, PlaceType DEF TokenAt
  <2> QED BY <1>a, <2>2, <2>3, OnlyWrite
<1>6. q \in Positions /\ q.num <= Len(s)
  <2>1. q \in Positions /\ q.num = n
    BY <1>4, <1>5, PlaceType
  <2>2. Len(s) \in Nat
    BY LinkTypes, LenProperties
  <2> QED BY <1>4, <2>1, <2>2
<1>7. WritePlace(writeOps[e], s, n) = q
  BY <1>1, <1>3 DEF WritePlace
<1>8. WritePlace(writeOps'[e], s, n) = After(s, q)
  BY <1>2, <1>3, <1>4 DEF WritePlace
<1>9. /\ SentFresh' /\ AllInTransit'
      /\ \A x \in Ends : FrontNum(x)' = FrontNum(x) /\ Extends(sent[x], sent'[x])
  BY <1>1, SendersKept
<1>10. AllArrived' /\ AllHalfRead'
  BY <1>1, <1>9, ReadersKept
<1>11. \A x \in Ends : x # Peer[e] => wire'[x] = wire[x] /\ Peer[x] # e
  BY <1>a, Constants DEF WriteOk, Types
<1>12. wire'[Peer[e]] = IF sock[Peer[e]] = "open" THEN Append(wire[Peer[e]], tok)
                                                  ELSE wire[Peer[e]]
  BY <1>a, <1>3 DEF WriteOk, Types
<1> HIDE DEF tok, q
<1>13. ASSUME NEW x \in Ends PROVE StreamTo(x)'
  <2>1. Peer[x] \in Ends
    BY LinkTypes
  <2>2. ReadPlace(readOp'[x], sent'[Peer[x]], Coming(x)')
          = ReadPlace(readOp[x], sent[Peer[x]], Coming(x))
    BY <1>1, <1>9, <2>1, ReadPlaceKept
  <2>3. CASE x # Peer[e]
    <3>1. Peer[x] # e /\ wire'[x] = wire[x] /\ sock'[x] = sock[x]
      BY <1>1, <1>11, <2>3
    <3>2. WritePlace(writeOps'[Peer[x]], sent'[Peer[x]], FrontNum(Peer[x])')
            = WritePlace(writeOps[Peer[x]], sent[Peer[x]], FrontNum(Peer[x]))
      BY <1>2, <1>9, <2>1, <3>1, WritePlaceKept
    <3>3. Chained(Peer[x])' = Chained(Peer[x])
      BY <1>1, <1>2, <2>1, <3>1 DEF Chained
    <3> QED BY <1>9, <2>1, <2>2, <3>1, <3>2, <3>3, StreamKept
  <2>4. CASE x = Peer[e] /\ sock[x] = "open"
    <3> DEFINE from == ReadPlace(readOp[x], s, Coming(x))
    <3>1. Peer[x] = e /\ wire'[x] = Append(wire[x], tok) /\ sock'[x] = "open"
      BY <1>a, <1>1, <1>12, <2>4
    <3>2. PICK to \in Positions :
            Carries(wire[x], s, from, to)
              /\ (Chained(e) => to = WritePlace(writeOps[e], s, FrontNum(e)))
      <4>1. StreamTo(x)
        BY LinkTypes
      <4> QED BY <2>4, <3>1, <4>1 DEF StreamTo
    <3>3. to = q
      BY <1>4, <1>7, <3>2
    <3>4. Carries(wire'[x], s, from, After(s, q))
      BY <1>5, <1>6, <3>1, <3>2, <3>3, LinkTypes, StreamAppend
    <3>5. After(s, q) \in Positions
      BY <1>6, AfterType
    <3>6. sent'[Peer[x]] = s /\ ReadPlace(readOp'[x], s, Coming(x)') = from
      BY <1>1, <2>2, <3>1
    <3>7. WritePlace(writeOps'[Peer[x]], sent'[Peer[x]], FrontNum(Peer[x])') = After(s, q)
      BY <1>4, <1>8, <3>1, <3>6
    <3> HIDE DEF from
    <3> QED BY <3>1, <3>4, <3>5, <3>6, <3>7 DEF StreamTo
  <2>5. CASE x = Peer[e] /\ sock[x] # "open"
    <3>1. sock'[x] = "closed" /\ wire'[x] = wire[x]
      BY <1>1, <1>12, <2>5, LinkTypes
    <3>2. wire[x] = <<>>
      BY <1>1, <3>1, LinkTypes DEF StreamTo
    <3> QED BY <3>1, <3>2, StreamClosed
  <2> QED BY <2>3, <2>4, <2>5
<1> QED BY <1>9, <1>10, <1>13 DEF Links, AllStreams

\* A pending read finds the token of its place at the head of the wire.
LEMMA HeadIsNext ==
  ASSUME LinkInv, NEW e \in Ends, readOp[e].what # "none", readOp[e].res = "pending",
         wire[e] # <<>>
  PROVE  LET s == sent[Peer[e]]
             n == Coming(e)
             q == Place(n, readOp[e].what)
         IN /\ sock[e] = "open" /\ readOp[e].what \in {"header", "body"}
            /\ n \in 1..Len(s) /\ q \in Positions
            /\ ReadPlace(readOp[e], s, n) = q
            /\ Head(wire[e]) = TokenAt(s, q)
            /\ Head(wire[e]) =
                 IF readOp[e].what = "header" THEN HeaderToken(s[n]) ELSE BodyToken(s[n])
<1> DEFINE s == sent[Peer[e]]
           n == Coming(e)
           q == Place(n, readOp[e].what)
<1>1. sock[e] = "open" /\ StreamTo(e)
  BY LinkTypes DEF StreamTo
<1>2. readOp[e].what \in {"header", "body"}
  BY LinkTypes DEF Reads
<1>3. ReadPlace(readOp[e], s, n) = q
  BY <1>2 DEF ReadPlace
<1>4. PICK to \in Positions : Carries(wire[e], s, q, to)
  BY <1>1, <1>3 DEF StreamTo
<1>5. q.num <= Len(s) /\ Head(wire[e]) = TokenAt(s, q)
  BY <1>4, LinkTypes, StreamTail
<1>6. n \in Nat \ {0} /\ Len(s) \in Nat
  BY LinkTypes, LenProperties
<1>7. q \in Positions /\ q.num = n /\ q.what = readOp[e].what
  BY <1>2, <1>6, PlaceType
<1>8. n \in 1..Len(s)
  BY <1>5, <1>6, <1>7
<1>9. Head(wire[e]) = IF readOp[e].what = "header" THEN HeaderToken(s[n]) ELSE BodyToken(s[n])
  BY <1>5, <1>7 DEF TokenAt
<1> QED BY <1>1, <1>2, <1>3, <1>5, <1>7, <1>8, <1>9

LEMMA ReadOkLinks ==
  ASSUME LinkInv, Types', NEW e \in Ends, ReadOk(e)
  PROVE  Links'
<1> DEFINE s == sent[Peer[e]]
           n == Coming(e)
           what == readOp[e].what
           q == Place(n, what)
           tok == Head(wire[e])
<1>a. /\ readOp \in [Ends -> Reads] /\ tempMsg \in [Ends -> Messages]
      /\ wire \in [Ends -> Seq(Tokens)]
  BY DEF LinkInv, ChainInv, Types
<1>1. /\ UNCHANGED <<started, sock, broken, recvDeq, writing, calls>>
      /\ what # "none" /\ readOp[e].res = "pending" /\ wire[e] # <<>> /\ sock[e] = "open"
  BY DEF ReadOk
<1>2. /\ what \in {"header", "body"} /\ n \in 1..Len(s) /\ q \in Positions
      /\ ReadPlace(readOp[e], s, n) = q /\ tok = TokenAt(s, q)
      /\ tok = IF what = "header" THEN HeaderToken(s[n]) ELSE BodyToken(s[n])
  BY <1>1, HeadIsNext
<1>3. /\ readOp'[e].what = what /\ readOp'[e].res = "ok" /\ wire'[e] = Tail(wire[e])
      /\ tempMsg'[e] = IF tok.what = "header"
                       THEN [tempMsg[e] EXCEPT !.id = tok.id, !.size = tok.size]
                       ELSE [tempMsg[e] EXCEPT !.body = tok.data]
      /\ \A x \in Ends : x # e => /\ readOp'[x] = readOp[x] /\ tempMsg'[x] = tempMsg[x]
                                  /\ wire'[x] = wire[x]
  <2>1. readOp'[e] = [readOp[e] EXCEPT !.res = "ok"] /\ readOp[e] \in Reads
    BY <1>a DEF ReadOk
  <2>2. readOp'[e].what = what /\ readOp'[e].res = "ok"
    BY <2>1 DEF Reads
  <2> QED BY <1>a, <2>2 DEF ReadOk
<1>4. Coming(e)' = n /\ n \in Nat \ {0} /\ HalfRead(readOp[e], tempMsg[e], s, n)
  BY <1>1, LinkTypes DEF Coming
<1>5. HalfRead(readOp'[e], tempMsg'[e], s, n)
  <2>1. CASE what = "header"
    <3>1. tok.what = "header" /\ tok.id = s[n].id /\ tok.size = s[n].size
      BY <1>2, <2>1 DEF HeaderToken
    <3>2. tempMsg'[e].id = s[n].id /\ tempMsg'[e].size = s[n].size
      BY <1>a, <1>3, <3>1 DEF Messages
    <3> QED BY <1>2, <1>3, <2>1, <3>2 DEF HalfRead, HeaderRead
  <2>2. CASE what = "body"
    <3>1. tok.what = "body" /\ tok.data = s[n].body
      BY <1>2, <2>2 DEF BodyToken
    <3>2. /\ tempMsg'[e].body = s[n].body /\ tempMsg'[e].id = tempMsg[e].id
          /\ tempMsg'[e].size = tempMsg[e].size
      BY <1>a, <1>3, <3>1 DEF Messages
    <3> QED BY <1>2, <1>3, <1>4, <2>2, <3>2 DEF HalfRead, HeaderRead
  <2> QED BY <1>2, <2>1, <2>2
<1>6. ReadPlace(readOp'[e], s, n) = After(s, q)
  BY <1>2, <1>3 DEF ReadPlace
<1>7. StreamTo(e)'
  <2>1. PICK to \in Positions :
          Carries(wire[e], s, q, to)
            /\ (Chained(Peer[e]) =>
                  to = WritePlace(writeOps[Peer[e]], s, FrontNum(Peer[e])))
    BY <1>1, <1>2, LinkTypes DEF StreamTo
  <2>2. Carries(wire'[e], s, After(s, q), to)
    BY <1>1, <1>3, <2>1, LinkTypes, StreamTail
  <2>3. Chained(Peer[e])' = Chained(Peer[e]) /\ FrontNum(Peer[e])' = FrontNum(Peer[e])
    BY <1>1 DEF Chained, FrontNum
  <2>4. sock'[e] = "open" /\ sent'[Peer[e]] = s /\ writeOps'[Peer[e]] = writeOps[Peer[e]]
    BY <1>1
  <2> HIDE DEF q, s
  <2> QED BY <1>4, <1>6, <2>1, <2>2, <2>3, <2>4 DEF StreamTo
<1>8. Arrived(recvDeq'[e], s)
  BY <1>1, LinkTypes
<1>9. \A x \in Ends : x # e => sock'[x] = sock[x] /\ recvDeq'[x] = recvDeq[x]
  BY <1>1
<1>10. UNCHANGED <<posted, sent, sendDeq, writeOps>>
  BY <1>1
<1>11. HalfRead(readOp'[e], tempMsg'[e], s, Coming(e)')
  BY <1>4, <1>5
<1> HIDE DEF n, what, q, tok
<1> QED BY <1>3, <1>7, <1>8, <1>9, <1>10, <1>11, ReaderLinks
-----------------------------------------------------------------------------
(* The invariant, and what follows from it.                                *)

LEMMA NextLinkInv ==
  ASSUME EchoedHaveBody, LinkInv, [Next]_vars
  PROVE  LinkInv'
<1>a. ChainInv /\ Types
  BY DEF LinkInv, ChainInv
<1>b. ChainInv' /\ Types'
  <2>1. ChainInv'
    BY <1>a, NextChainInv
  <2> QED BY <2>1 DEF ChainInv
<1> SUFFICES Links'
  BY <1>b DEF LinkInv
<1>1. CASE UNCHANGED vars
  BY <1>b, <1>1, NothingMoves DEF vars
<1>2. ASSUME NEW e \in Ends, NEW id \in Ids, Send(e, id) PROVE Links'
  BY <1>b, <1>2, SendLinks
<1>3. ASSUME NEW e \in Ends, Disconnect(e) \/ Handle(e) PROVE Links'
  BY <1>b, <1>3, DisconnectLinks, HandleLinks
<1>4. ASSUME NEW e \in Ends, Start(e) \/ RunSend(e) \/ RunClose(e) PROVE Links'
  BY <1>b, <1>4, StartLinks, RunSendLinks, RunCloseLinks
<1>5. ASSUME NEW e \in Ends, ReadHandler(e) PROVE Links'
  BY <1>b, <1>5, ReadHandlerCases, ReadNextPartLinks, ReadWholeLinks, ReadClosedLinks
<1>6. ASSUME NEW e \in Ends, NEW i \in DOMAIN writeOps[e], WriteHandler(e, i) PROVE Links'
  BY <1>a, <1>b, <1>6, WriteHandlerCases, WriteNextPartLinks, WriteNextMessageLinks,
     WriteFailedLinks
<1>7. ASSUME NEW e \in Ends, NEW i \in DOMAIN writeOps[e], WriteOk(e, i) \/ WriteError(e, i)
      PROVE  Links'
  BY <1>b, <1>7, WriteOkLinks, WriteErrorLinks
<1>8. ASSUME NEW e \in Ends, ReadOk(e) \/ ReadError(e) PROVE Links'
  BY <1>b, <1>8, ReadOkLinks, ReadErrorLinks
<1>9. CASE Reset
  BY <1>b, <1>9, NothingMoves DEF Reset
<1> QED BY <1>1, <1>2, <1>3, <1>4, <1>5, <1>6, <1>7, <1>8, <1>9
        DEF Next, Context, KernelWrite, KernelRead

LEMMA LinkAlways ==
  ASSUME EchoedHaveBody
  PROVE  Spec => []LinkInv
<1>1. LinkInv /\ [Next]_vars => LinkInv'
  BY NextLinkInv
<1> QED BY <1>1, InitLinks, PTL DEF Spec

\* A pending read meets its own kind of token at the head of the wire, and a
\* body of the length its header announced (net_connection.h:390-437).
THEOREM ReaderKeepsPlace ==
  ASSUME EchoedHaveBody
  PROVE  Spec => []FramesAligned
<1>1. LinkInv => FramesAligned
  <2> SUFFICES ASSUME LinkInv, NEW e \in Ends, readOp[e].what # "none",
                      readOp[e].res = "pending", wire[e] # <<>>
               PROVE  /\ Head(wire[e]).what = readOp[e].what
                      /\ readOp[e].what = "body" =>
                           Len(Head(wire[e]).data) = tempMsg[e].size
    BY DEF FramesAligned
  <2> DEFINE s == sent[Peer[e]]
             n == Coming(e)
  <2>1. /\ readOp[e].what \in {"header", "body"} /\ n \in 1..Len(s)
        /\ Head(wire[e]) =
             IF readOp[e].what = "header" THEN HeaderToken(s[n]) ELSE BodyToken(s[n])
    BY HeadIsNext
  <2>2. CASE readOp[e].what = "header"
    BY <2>1, <2>2 DEF HeaderToken
  <2>3. CASE readOp[e].what = "body"
    <3>1. Head(wire[e]).what = "body" /\ Head(wire[e]).data = s[n].body
      BY <2>1, <2>3 DEF BodyToken
    <3>2. tempMsg[e].size = s[n].size
      BY <2>3, LinkTypes DEF HalfRead, HeaderRead
    <3>3. s[n] \in Fresh /\ Peer[e] \in Ends
      BY <2>1, LinkTypes DEF LinkInv, Links, SentFresh
    <3>4. s[n].size = Len(s[n].body)
      BY <3>3, FreshMessages
    <3> QED BY <2>3, <3>1, <3>2, <3>4
  <2> QED BY <2>1, <2>2, <2>3
<1> QED BY <1>1, LinkAlways, PTL
-----------------------------------------------------------------------------
(* Each direction is a Channel.                                            *)

\* What a header announces of a message that Send made, and of the message
\* that arrives for it.
LEMMA AnnouncedParts ==
  /\ \A m \in Fresh : Payload(m) \in Items
  /\ \A r \in Messages, m \in Fresh : SameMessage(r, m) => Payload(r) = Payload(m)
<1>1. ASSUME NEW id \in Ids, NEW k \in 1..MaxSends
      PROVE  Payload(Made(id, k)) \in Items
  <2> DEFINE body == [j \in 1..BodySize[id] |-> k]
             m == Made(id, k)
  <2>0. m \in Messages /\ m.id = id /\ m.size = BodySize[id] /\ Len(m.body) = BodySize[id]
    BY NewMessage DEF Made
  <2>1. m.id = id /\ m.body = body /\ m.size = Len(m.body) /\ m \in Messages
    BY <2>0 DEF Made, Message
  <2>2. m.body \in Seq(1..MaxSends)
    BY <2>1, Parts
  <2>3. SubSeq(m.body, 1, m.size) = body
    BY <2>1, <2>2, SubSeqFull
  <2>4. Payload(m) = [id |-> id, data |-> body]
    BY <2>1, <2>3 DEF Payload
  <2> DEFINE Item(i, j) == [id |-> i, data |-> [u \in 1..BodySize[i] |-> j]]
  <2>5. Items = {Item(i, j) : i \in Ids, j \in 1..MaxSends}
    BY DEF Items
  <2>6. Payload(m) = Item(id, k)
    BY <2>4
  <2>7. Item(id, k) \in {Item(i, j) : i \in Ids, j \in 1..MaxSends}
    <3> HIDE DEF Item
    <3> QED OBVIOUS
  <2> HIDE DEF Item, m
  <2>8. Payload(m) \in Items
    BY <2>5, <2>6, <2>7
  <2> QED BY <2>8 DEF m
<1>2. ASSUME NEW r \in Messages, NEW m \in Fresh, SameMessage(r, m)
      PROVE  Payload(r) = Payload(m)
  <2>1. r.id = m.id /\ r.size = m.size /\ r.size \in Nat
    BY <1>2, Parts DEF SameMessage
  <2>2. CASE r.size = 0
    <3>1. SubSeq(r.body, 1, 0) = <<>> /\ SubSeq(m.body, 1, 0) = <<>>
      BY SubSeqEmpty
    <3> QED BY <2>1, <2>2, <3>1 DEF Payload
  <2>3. CASE r.size > 0
    <3>1. r.body = m.body
      BY <1>2, <2>3 DEF SameMessage
    <3> QED BY <2>1, <3>1 DEF Payload
  <2> QED BY <2>1, <2>2, <2>3
<1> QED BY <1>1, <1>2 DEF Fresh

\* The payloads of a sequence of messages, and of one that grows.
LEMMA PayloadsGrow ==
  ASSUME NEW s \in Seq(Messages), NEW m \in Messages
  PROVE  /\ Len(Payloads(s)) = Len(s) /\ Payloads(s) \in Seq({Payload(x) : x \in Messages})
         /\ \A i \in 1..Len(s) : Payloads(s)[i] = Payload(s[i])
         /\ Payloads(Append(s, m)) = Append(Payloads(s), Payload(m))
<1> DEFINE S == {Payload(x) : x \in Messages}
           t == Append(s, m)
<1>1. ASSUME NEW q \in Seq(Messages)
      PROVE  /\ Payloads(q) \in Seq(S) /\ Len(Payloads(q)) = Len(q)
             /\ \A i \in 1..Len(q) : Payloads(q)[i] = Payload(q[i])
  <2>1. DOMAIN q = 1..Len(q) /\ Len(q) \in Nat /\ \A i \in 1..Len(q) : q[i] \in Messages
    BY LenProperties, ElementOfSeq
  <2>2. Payloads(q) \in [1..Len(q) -> S]
    BY <2>1 DEF Payloads
  <2> HIDE DEF S
  <2>3. Payloads(q) \in Seq(S) /\ Len(Payloads(q)) = Len(q)
    BY <2>1, <2>2, FunctionIsSeq
  <2> QED BY <2>1, <2>3 DEF Payloads
<1>2. /\ t \in Seq(Messages) /\ Len(t) = Len(s) + 1 /\ t[Len(s) + 1] = m
      /\ \A i \in 1..Len(s) : t[i] = s[i]
  BY AppendProperties
<1>3. Payload(m) \in S /\ Len(s) \in Nat
  BY LenProperties
<1> HIDE DEF S, t
<1>4. /\ Append(Payloads(s), Payload(m)) \in Seq(S)
      /\ Len(Append(Payloads(s), Payload(m))) = Len(s) + 1
      /\ Append(Payloads(s), Payload(m))[Len(s) + 1] = Payload(m)
      /\ \A i \in 1..Len(s) : Append(Payloads(s), Payload(m))[i] = Payload(s[i])
  BY <1>1, <1>3, AppendProperties
<1>5. Payloads(t) \in Seq(S) /\ Len(Payloads(t)) = Len(s) + 1
  BY <1>1, <1>2
<1>6. \A i \in 1..Len(s) + 1 : Payloads(t)[i] = Append(Payloads(s), Payload(m))[i]
  <2> TAKE i \in 1..Len(s) + 1
  <2>1. Payloads(t)[i] = Payload(t[i])
    BY <1>1, <1>2
  <2>2. i \in 1..Len(s) \/ i = Len(s) + 1
    BY <1>3
  <2> QED BY <1>2, <1>4, <2>1, <2>2
<1>7. Payloads(t) = Append(Payloads(s), Payload(m))
  BY <1>4, <1>5, <1>6, SeqEqual
<1> QED BY <1>1, <1>7 DEF S, t

\* A step adds a message to what an end sent, or to what its peer received,
\* or to neither.
LEMMA StepKinds ==
  ASSUME EchoedHaveBody, LinkInv, LinkInv', [Next]_vars, NEW e \in Ends
  PROVE  \/ UNCHANGED <<sent[e], recvDeq[Peer[e]]>>
         \/ /\ \E m \in Messages : sent'[e] = Append(sent[e], m)
            /\ UNCHANGED recvDeq[Peer[e]]
         \/ /\ \E m \in Messages : recvDeq'[Peer[e]] = Append(recvDeq[Peer[e]], m)
            /\ UNCHANGED sent[e]
<1>a. Types
  BY DEF LinkInv, ChainInv
<1>b. /\ sent \in [Ends -> Seq(Messages)] /\ recvDeq \in [Ends -> Seq(Messages)]
      /\ tempMsg \in [Ends -> Messages] /\ Peer[e] \in Ends
  BY <1>a, Constants DEF Types
<1>1. ASSUME NEW x \in Ends, NEW m \in Messages, PostSend(x, m), UNCHANGED recvDeq
      PROVE  \/ UNCHANGED <<sent[e], recvDeq[Peer[e]]>>
             \/ /\ \E k \in Messages : sent'[e] = Append(sent[e], k)
                /\ UNCHANGED recvDeq[Peer[e]]
  BY <1>b, <1>1 DEF PostSend
<1>2. ASSUME NEW x \in Ends, NEW id \in Ids, Send(x, id)
      PROVE  \E m \in Messages : PostSend(x, m) /\ UNCHANGED recvDeq
  <2> DEFINE k == Len(sent[x]) + 1
             m == Made(id, k)
  <2>1. k \in 1..MaxSends
    BY <1>2, <1>a, EndTypes, Constants DEF Send, PostSend
  <2>2. m \in Messages
    BY <2>1, FreshMessages
  <2>3. PostSend(x, m) /\ UNCHANGED recvDeq
    BY <1>2 DEF Send, Made
  <2> QED BY <2>2, <2>3
<1>3. ASSUME NEW x \in Ends, Handle(x)
      PROVE  \/ UNCHANGED <<sent, recvDeq>>
             \/ \E m \in Messages : PostSend(x, m) /\ UNCHANGED recvDeq
  <2> DEFINE m == recvDeq[x][taken[x] + 1]
  <2>1. taken[x] + 1 \in 1..Len(recvDeq[x]) /\ recvDeq[x] \in Seq(Messages)
    BY <1>3, <1>a, EndTypes DEF Handle
  <2>2. m \in Messages
    BY <2>1, ElementOfSeq
  <2>3. UNCHANGED recvDeq /\ (PostSend(x, m) \/ UNCHANGED sent)
    BY <1>3 DEF Handle
  <2> HIDE DEF m
  <2> QED BY <2>2, <2>3
<1>4. ASSUME NEW x \in Ends, ReadHandler(x)
      PROVE  \/ UNCHANGED <<sent[e], recvDeq[Peer[e]]>>
             \/ /\ \E m \in Messages : recvDeq'[Peer[e]] = Append(recvDeq[Peer[e]], m)
                /\ UNCHANGED sent[e]
  <2>1. UNCHANGED sent
    BY <1>4, ReadHandlerCases
  <2>2. UNCHANGED recvDeq \/ recvDeq' = [recvDeq EXCEPT ![x] = Append(@, tempMsg[x])]
    BY <1>4, ReadHandlerCases DEF ReadNextPart, ReadWhole, ReadClosed
  <2> QED BY <1>b, <2>1, <2>2
<1>5. ASSUME NEW x \in Ends, NEW i \in DOMAIN writeOps[x], WriteHandler(x, i)
      PROVE  UNCHANGED <<sent, recvDeq>>
  BY <1>a, <1>5, WriteHandlerCases
<1>6. ASSUME NEW x \in Ends,
             \/ Disconnect(x) \/ Start(x) \/ RunSend(x) \/ RunClose(x)
             \/ KernelWrite(x) \/ KernelRead(x)
      PROVE  UNCHANGED <<sent, recvDeq>>
  BY <1>6 DEF Disconnect, Start, RunSend, RunClose, KernelWrite, KernelRead, WriteOk,
              WriteError, ReadOk, ReadError
<1>7. CASE Reset \/ UNCHANGED vars
  BY <1>7 DEF Reset, vars
<1> QED BY <1>1, <1>2, <1>3, <1>4, <1>5, <1>6, <1>7 DEF Next, Context

\* In terms of payloads: an item is accepted, the next one is delivered, or
\* neither.
LEMMA LinkStep ==
  ASSUME EchoedHaveBody, LinkInv, LinkInv', [Next]_vars, NEW e \in Ends
  PROVE  LET a == Payloads(sent[e])
             d == Payloads(recvDeq[Peer[e]])
         IN \/ UNCHANGED <<a, d>>
            \/ (\E m \in Items : a' = Append(a, m)) /\ UNCHANGED d
            \/ /\ Len(d) < Len(a) /\ d' = Append(d, a[Len(d) + 1])
               /\ UNCHANGED a
<1> DEFINE p == Peer[e]
           s == sent[e]
           r == recvDeq[p]
<1>1. /\ p \in Ends /\ Peer[p] = e /\ s \in Seq(Messages) /\ r \in Seq(Messages)
      /\ Len(s) \in Nat /\ Len(r) \in Nat
  BY LinkTypes, LenProperties
<1>2. CASE UNCHANGED <<s, r>>
  <2>1. Payloads(s') = Payloads(s) /\ Payloads(r') = Payloads(r)
    BY <1>2
  <2> QED BY <2>1
<1>3. ASSUME NEW m \in Messages, s' = Append(s, m), r' = r
      PROVE  /\ \E k \in Items : Payloads(s') = Append(Payloads(s), k)
             /\ Payloads(r') = Payloads(r)
  <2>1. Len(s') = Len(s) + 1 /\ s'[Len(s) + 1] = m
    BY <1>1, <1>3, AppendProperties
  <2>2. m \in Fresh
    <3>1. \A i \in 1..Len(s') : s'[i] \in Fresh
      BY DEF LinkInv, Links, SentFresh
    <3>2. Len(s) + 1 \in 1..Len(s')
      BY <1>1, <2>1
    <3> QED BY <2>1, <3>1, <3>2
  <2>3. Payload(m) \in Items
    BY <2>2, AnnouncedParts
  <2>4. Payloads(s') = Append(Payloads(s), Payload(m))
    BY <1>1, <1>3, PayloadsGrow
  <2> QED BY <1>3, <2>3, <2>4
<1>4. ASSUME NEW m \in Messages, r' = Append(r, m), s' = s
      PROVE  /\ Len(Payloads(r)) < Len(Payloads(s))
             /\ Payloads(r') = Append(Payloads(r), Payloads(s)[Len(Payloads(r)) + 1])
             /\ Payloads(s') = Payloads(s)
  <2> DEFINE n == Len(r) + 1
  <2>1. Len(r') = n /\ r'[n] = m
    BY <1>1, <1>4, AppendProperties
  <2>2. Arrived(r', s)
    <3>1. \A x \in Ends : Arrived(recvDeq'[x], sent'[Peer[x]])
      BY DEF LinkInv, Links, AllArrived
    <3> QED BY <1>1, <1>4, <3>1
  <2>3. n \in 1..Len(s) /\ SameMessage(m, s[n])
    BY <1>1, <2>1, <2>2 DEF Arrived
  <2>4. s[n] \in Fresh
    BY <2>3 DEF LinkInv, Links, SentFresh
  <2>5. Payload(m) = Payload(s[n])
    BY <2>3, <2>4, AnnouncedParts
  <2>6. Len(Payloads(r)) = Len(r) /\ Payloads(r') = Append(Payloads(r), Payload(m))
    BY <1>1, <1>4, PayloadsGrow
  <2>7. Len(Payloads(s)) = Len(s) /\ Payloads(s)[n] = Payload(s[n])
    BY <1>1, <2>3, <2>4, FreshMessages, PayloadsGrow
  <2> QED BY <1>1, <1>4, <2>3, <2>5, <2>6, <2>7
<1>5. \/ UNCHANGED <<s, r>>
      \/ \E m \in Messages : s' = Append(s, m) /\ r' = r
      \/ \E m \in Messages : r' = Append(r, m) /\ s' = s
  BY StepKinds
<1> HIDE DEF s, r
<1>6. \/ Payloads(s') = Payloads(s) /\ Payloads(r') = Payloads(r)
      \/ /\ \E k \in Items : Payloads(s') = Append(Payloads(s), k)
         /\ Payloads(r') = Payloads(r)
      \/ /\ Len(Payloads(r)) < Len(Payloads(s))
         /\ Payloads(r') = Append(Payloads(r), Payloads(s)[Len(Payloads(r)) + 1])
         /\ Payloads(s') = Payloads(s)
  BY <1>2, <1>3, <1>4, <1>5
<1> QED BY <1>6 DEF s, r, p

\* What Send was called with at one end is what the other end's m_recvDeq is
\* given, in that order, each message once, for any messages and programs of
\* the two ends, whatever the kernel and the network do: a connection
\* implements a Channel in each direction (net_connection.h:313-471).
THEOREM EachWayAChannel ==
  ASSUME EchoedHaveBody
  PROVE  Spec => LinksAreChannels
<1> USE Constants DEF Server, Client
<1>1. Init => FromServer!Init /\ FromClient!Init
  <2> SUFFICES ASSUME Init PROVE FromServer!Init /\ FromClient!Init
    OBVIOUS
  <2>1. Payloads(<<>>) = <<>>
    BY DEF Payloads
  <2>2. \A e \in Ends : sent[e] = <<>> /\ recvDeq[e] = <<>>
    BY DEF Init
  <2> QED BY <2>1, <2>2 DEF FromServer!Init, FromClient!Init
<1>2. LinkInv /\ LinkInv' /\ [Next]_vars => [FromServer!Next]_(FromServer!chanVars)
  BY LinkStep DEF FromServer!Next, FromServer!chanVars, FromServer!Accept, FromServer!Deliver
<1>3. LinkInv /\ LinkInv' /\ [Next]_vars => [FromClient!Next]_(FromClient!chanVars)
  BY LinkStep DEF FromClient!Next, FromClient!chanVars, FromClient!Accept, FromClient!Deliver
<1> QED BY <1>1, <1>2, <1>3, LinkAlways, PTL
        DEF Spec, LinksAreChannels, FromServer!Spec, FromClient!Spec
=============================================================================
