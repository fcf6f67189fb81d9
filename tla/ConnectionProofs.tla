-------------------------- MODULE ConnectionProofs --------------------------
(***************************************************************************)
(* Proofs about one Connection, for any messages, bounds and programs: its *)
(* types, that at most one write is under way and writes the message at    *)
(* the front, that the chain of writes is never broken while the socket is *)
(* open, and that an open connection always has a read outstanding.        *)
(***************************************************************************)
EXTENDS Connection, SequenceTheorems, TLAPS

Tasks == [op : {"send"}, msg : Messages] \cup [op : {"close"}]
Writes == [token : Tokens, res : Results]
Reads == [what : {"none", "header", "body"}, res : Results]

\* TypeOK, with posted and taken typed as functions.
Types ==
  /\ started \in [Ends -> BOOLEAN]
  /\ sock \in [Ends -> {"open", "closed"}]
  /\ posted \in [Ends -> Seq(Tasks)]
  /\ sendDeq \in [Ends -> Seq(Messages)]
  /\ writeOps \in [Ends -> Seq(Writes)]
  /\ readOp \in [Ends -> Reads]
  /\ tempMsg \in [Ends -> Messages]
  /\ recvDeq \in [Ends -> Seq(Messages)]
  /\ taken \in [Ends -> Nat]
  /\ \A e \in Ends : taken[e] <= Len(recvDeq[e])
  /\ wire \in [Ends -> Seq(Tokens)]
  /\ broken \in BOOLEAN
  /\ sent \in [Ends -> Seq(Messages)]

USE DEF writing, reading, calls

-----------------------------------------------------------------------------
(* What the operators yield.                                               *)

LEMMA Constants ==
  /\ Peer \in [Ends -> Ends]
  /\ \A e \in Ends : Peer[e] \in Ends /\ Peer[e] # e /\ Peer[Peer[e]] = e
  /\ FirstId \in Ids
  /\ BodySize \in [Ids -> Nat]
  /\ MaxSends \in Nat
  /\ Echoer \in Ends
  /\ \A e \in Ends : MaySend[e] \subseteq Ids
BY ConnectionAssumption DEF ConnectionAssumption

\* The tokens of a message, the operations that write them, and the message
\* as it is constructed.
LEMMA Parts ==
  /\ \A m \in Messages :
       /\ HeaderToken(m) \in Tokens /\ BodyToken(m) \in Tokens
       /\ HeaderToken(m).what = "header" /\ BodyToken(m).what = "body"
       /\ m.id \in Ids /\ m.size \in Nat /\ m.body \in Seq(1..MaxSends)
  /\ \A t \in Tokens : WriteOf(t) \in Writes /\ WriteOf(t).token = t
                         /\ WriteOf(t).res = "pending"
  /\ NoMessage \in Messages
  /\ Idle \in Reads /\ ReadOf("header") \in Reads /\ ReadOf("body") \in Reads
<1>1. \A m \in Messages :
        /\ HeaderToken(m) \in Tokens /\ BodyToken(m) \in Tokens
        /\ HeaderToken(m).what = "header" /\ BodyToken(m).what = "body"
        /\ m.id \in Ids /\ m.size \in Nat /\ m.body \in Seq(1..MaxSends)
  BY DEF Messages, Tokens, HeaderToken, BodyToken
<1>2. \A t \in Tokens : WriteOf(t) \in Writes /\ WriteOf(t).token = t
                          /\ WriteOf(t).res = "pending"
  BY DEF WriteOf, Writes, Results
<1>3. NoMessage \in Messages
  <2>1. <<>> \in Seq(1..MaxSends) /\ Len(<<>>) = 0
    BY EmptySeq
  <2> QED BY <2>1, Constants DEF NoMessage, Message, Messages
<1>4. Idle \in Reads /\ ReadOf("header") \in Reads /\ ReadOf("body") \in Reads
  BY DEF Idle, ReadOf, Reads, Results
<1> QED BY <1>1, <1>2, <1>3, <1>4

\* A function on an interval from 1 is a sequence of that length.
LEMMA FunctionIsSeq ==
  ASSUME NEW S, NEW n \in Nat, NEW f \in [1..n -> S]
  PROVE  f \in Seq(S) /\ Len(f) = n
<1>1. f \in Seq(S)
  BY SeqDef
<1>2. Len(f) \in Nat /\ DOMAIN f = 1..Len(f)
  BY <1>1, LenProperties
<1>3. 1..Len(f) = 1..n
  BY <1>2
<1>4. \A m \in Nat : 1..m = 1..n => m = n
  OBVIOUS
<1> QED BY <1>1, <1>2, <1>3, <1>4

\* What Send makes of a type: every unit of the body carries its number.
LEMMA NewMessage ==
  ASSUME NEW id \in Ids, NEW k \in 1..MaxSends
  PROVE  LET m == Message(id, [j \in 1..BodySize[id] |-> k])
         IN /\ m \in Messages /\ m.id = id /\ m.size = BodySize[id]
            /\ m.body = [j \in 1..BodySize[id] |-> k] /\ Len(m.body) = BodySize[id]
<1> DEFINE body == [j \in 1..BodySize[id] |-> k]
<1>1. BodySize[id] \in Nat
  BY Constants
<1>2. body \in [1..BodySize[id] -> 1..MaxSends]
  OBVIOUS
<1>3. body \in Seq(1..MaxSends) /\ Len(body) = BodySize[id]
  BY <1>1, <1>2, FunctionIsSeq
<1> QED BY <1>1, <1>3 DEF Message, Messages

\* The elements of what is left of a sequence.
LEMMA TailItems ==
  ASSUME NEW S, NEW s \in Seq(S), s # <<>>
  PROVE  /\ Head(s) \in S /\ Head(s) = s[1] /\ 1 \in 1..Len(s)
         /\ Tail(s) \in Seq(S) /\ Len(Tail(s)) = Len(s) - 1
         /\ \A i \in 1..Len(Tail(s)) : i + 1 \in 1..Len(s) /\ Tail(s)[i] = s[i + 1]
BY HeadTailProperties

LEMMA RemoveAtType ==
  ASSUME NEW S, NEW s \in Seq(S), NEW i \in 1..Len(s)
  PROVE  RemoveAt(s, i) \in Seq(S)
<1>1. \A j \in 1..Len(s) : s[j] \in S
  BY ElementOfSeq
<1>2. SubSeq(s, 1, i - 1) \in Seq(S)
  BY <1>1, SubSeqProperties
<1>3. SubSeq(s, i + 1, Len(s)) \in Seq(S)
  BY <1>1, SubSeqProperties
<1> QED BY <1>2, <1>3, ConcatProperties DEF RemoveAt

LEMMA RemoveOnly ==
  ASSUME NEW S, NEW s \in Seq(S), Len(s) = 1
  PROVE  RemoveAt(s, 1) = <<>>
<1>1. SubSeq(s, 1, 0) = <<>> /\ SubSeq(s, 2, 1) = <<>>
  BY SubSeqEmpty
<1>2. RemoveAt(s, 1) = <<>> \o <<>>
  BY <1>1 DEF RemoveAt
<1>3. <<>> \in Seq(S)
  BY EmptySeq
<1> QED BY <1>2, <1>3, ConcatEmptySeq

LEMMA NextWriteType ==
  ASSUME NEW s \in Seq(Messages)
  PROVE  NextWrite(s) \in Seq(Writes)
<1>1. CASE s = <<>>
  BY <1>1, EmptySeq DEF NextWrite
<1>2. CASE s # <<>>
  <2>1. WriteOf(HeaderToken(Head(s))) \in Writes
    BY <1>2, TailItems, Parts
  <2> QED BY <1>2, <2>1 DEF NextWrite
<1> QED BY <1>1, <1>2
-----------------------------------------------------------------------------
(* Type correctness.                                                       *)

LEMMA InitTypes == Init => Types
<1> SUFFICES ASSUME Init PROVE Types
  OBVIOUS
<1>1. \A S : <<>> \in Seq(S) /\ Len(<<>>) = 0
  BY EmptySeq
<1>2. writeOps \in [Ends -> Seq(Writes)] /\ sendDeq \in [Ends -> Seq(Messages)]
  BY <1>1 DEF Init
<1>3. posted \in [Ends -> Seq(Tasks)] /\ sent \in [Ends -> Seq(Messages)]
  BY <1>1 DEF Init
<1>4. recvDeq \in [Ends -> Seq(Messages)] /\ wire \in [Ends -> Seq(Tokens)]
  BY <1>1 DEF Init
<1>5. readOp \in [Ends -> Reads] /\ tempMsg \in [Ends -> Messages]
  BY Parts DEF Init
<1>6. taken \in [Ends -> Nat] /\ \A e \in Ends : taken[e] <= Len(recvDeq[e])
  BY <1>1 DEF Init
<1>7. started \in [Ends -> BOOLEAN] /\ sock \in [Ends -> {"open", "closed"}] /\ broken \in BOOLEAN
  BY DEF Init
<1> QED BY <1>2, <1>3, <1>4, <1>5, <1>6, <1>7 DEF Types

\* The typed parts of one end.
LEMMA EndTypes ==
  ASSUME Types, NEW e \in Ends
  PROVE  /\ started[e] \in BOOLEAN /\ sock[e] \in {"open", "closed"}
         /\ posted[e] \in Seq(Tasks) /\ sendDeq[e] \in Seq(Messages)
         /\ writeOps[e] \in Seq(Writes) /\ DOMAIN writeOps[e] = 1..Len(writeOps[e])
         /\ readOp[e] \in Reads /\ readOp[e].what \in {"none", "header", "body"}
         /\ readOp[e].res \in Results
         /\ tempMsg[e] \in Messages /\ recvDeq[e] \in Seq(Messages)
         /\ taken[e] \in Nat /\ taken[e] <= Len(recvDeq[e])
         /\ wire[e] \in Seq(Tokens) /\ sent[e] \in Seq(Messages)
         /\ Len(posted[e]) \in Nat /\ Len(sendDeq[e]) \in Nat /\ Len(writeOps[e]) \in Nat
         /\ Len(recvDeq[e]) \in Nat /\ Len(wire[e]) \in Nat /\ Len(sent[e]) \in Nat
BY LenProperties DEF Types, Reads

\* A call of Send with a message.
LEMMA PostSendTypes ==
  ASSUME Types, NEW e \in Ends, NEW m \in Messages, PostSend(e, m)
  PROVE  posted' \in [Ends -> Seq(Tasks)] /\ sent' \in [Ends -> Seq(Messages)]
<1>1. [op |-> "send", msg |-> m] \in Tasks
  BY DEF Tasks
<1>2. posted[e] \in Seq(Tasks) /\ sent[e] \in Seq(Messages)
  BY EndTypes
<1>3. Append(posted[e], [op |-> "send", msg |-> m]) \in Seq(Tasks)
  BY <1>1, <1>2, AppendProperties
<1>4. Append(sent[e], m) \in Seq(Messages)
  BY <1>2, AppendProperties
<1> QED BY <1>3, <1>4 DEF PostSend, Types

LEMMA SendTypes ==
  ASSUME Types, NEW e \in Ends, NEW id \in Ids, Send(e, id)
  PROVE  Types'
<1>1. Len(sent[e]) + 1 \in 1..MaxSends
  BY EndTypes, Constants DEF Send, PostSend
<1> DEFINE m == Message(id, [j \in 1..BodySize[id] |-> Len(sent[e]) + 1])
<1>2. m \in Messages
  BY <1>1, NewMessage
<1>3. PostSend(e, m)
  BY DEF Send
<1> HIDE DEF m
<1>4. posted' \in [Ends -> Seq(Tasks)] /\ sent' \in [Ends -> Seq(Messages)]
  BY <1>2, <1>3, PostSendTypes
<1> QED BY <1>4 DEF Send, Types

LEMMA DisconnectTypes ==
  ASSUME Types, NEW e \in Ends, Disconnect(e)
  PROVE  Types'
<1>1. [op |-> "close"] \in Tasks
  BY DEF Tasks
<1>2. Append(posted[e], [op |-> "close"]) \in Seq(Tasks)
  BY <1>1, EndTypes, AppendProperties
<1> QED BY <1>2 DEF Disconnect, Types

LEMMA HandleTypes ==
  ASSUME Types, NEW e \in Ends, Handle(e)
  PROVE  Types'
<1> DEFINE m == recvDeq[e][taken[e] + 1]
<1>1. taken[e] + 1 \in 1..Len(recvDeq[e])
  BY EndTypes DEF Handle
<1>2. m \in Messages
  BY <1>1, EndTypes, ElementOfSeq
<1>3. PostSend(e, m) \/ UNCHANGED <<posted, sent>>
  BY DEF Handle
<1> HIDE DEF m
<1>4. posted' \in [Ends -> Seq(Tasks)] /\ sent' \in [Ends -> Seq(Messages)]
  BY <1>2, <1>3, PostSendTypes DEF Types
<1>5. taken' = [taken EXCEPT ![e] = @ + 1] /\ taken[e] < Len(recvDeq[e])
  BY DEF Handle
<1>6. taken' \in [Ends -> Nat] /\ \A x \in Ends : taken'[x] <= Len(recvDeq[x])
  BY <1>5, EndTypes DEF Types
<1> QED BY <1>4, <1>6 DEF Handle, Types

LEMMA StartTypes ==
  ASSUME Types, NEW e \in Ends, Start(e)
  PROVE  Types'
BY Parts DEF Start, Types

LEMMA RunSendTypes ==
  ASSUME Types, NEW e \in Ends, RunSend(e)
  PROVE  Types'
<1> DEFINE m == Head(posted[e]).msg
<1>1. posted[e] \in Seq(Tasks) /\ posted[e] # <<>> /\ Head(posted[e]).op = "send"
  BY EndTypes DEF RunSend
<1>2. Head(posted[e]) \in Tasks /\ Tail(posted[e]) \in Seq(Tasks)
  BY <1>1, TailItems
<1>3. m \in Messages
  BY <1>1, <1>2 DEF Tasks
<1>4. posted' \in [Ends -> Seq(Tasks)]
  BY <1>2 DEF RunSend, Types
<1>5. Append(sendDeq[e], m) \in Seq(Messages)
  BY <1>3, EndTypes, AppendProperties
<1>6. sendDeq' \in [Ends -> Seq(Messages)]
  BY <1>5 DEF RunSend, Types, Queued
<1>7. Append(writeOps[e], WriteOf(HeaderToken(m))) \in Seq(Writes)
  BY <1>3, Parts, EndTypes, AppendProperties
<1>8. writeOps' \in [Ends -> Seq(Writes)]
  BY <1>7 DEF RunSend, StartWrite, Types
<1> QED BY <1>4, <1>6, <1>8 DEF RunSend, Types

LEMMA CloseTypes ==
  ASSUME Types, NEW e \in Ends, CloseSocket(e)
  PROVE  sock' \in [Ends -> {"open", "closed"}] /\ wire' \in [Ends -> Seq(Tokens)]
<1>1. <<>> \in Seq(Tokens)
  BY EmptySeq
<1> QED BY <1>1 DEF CloseSocket, Types

LEMMA RunCloseTypes ==
  ASSUME Types, NEW e \in Ends, RunClose(e)
  PROVE  Types'
<1>1. Tail(posted[e]) \in Seq(Tasks)
  BY EndTypes, TailItems DEF RunClose
<1>2. posted' \in [Ends -> Seq(Tasks)]
  BY <1>1 DEF RunClose, Types
<1>3. sock' \in [Ends -> {"open", "closed"}] /\ wire' \in [Ends -> Seq(Tokens)]
  BY CloseTypes DEF RunClose
<1> QED BY <1>2, <1>3 DEF RunClose, Types

\* The three outcomes of a write's handler, one by one.
WriteNextPart(e, i) ==
  /\ writeOps[e][i].res = "ok" /\ writeOps[e][i].token.what = "header"
  /\ Head(sendDeq[e]).body # <<>>
  /\ writeOps' = [writeOps EXCEPT ![e] =
       RemoveAt(@, i) \o <<WriteOf(BodyToken(Head(sendDeq[e])))>>]
  /\ UNCHANGED <<sock, wire, sendDeq>>

WriteNextMessage(e, i) ==
  /\ writeOps[e][i].res = "ok"
  /\ writeOps[e][i].token.what = "header" => Head(sendDeq[e]).body = <<>>
  /\ sendDeq' = [sendDeq EXCEPT ![e] = Tail(@)]
  /\ writeOps' = [writeOps EXCEPT ![e] = RemoveAt(@, i) \o NextWrite(Tail(sendDeq[e]))]
  /\ UNCHANGED <<sock, wire>>

WriteFailed(e, i) ==
  /\ writeOps[e][i].res = "error"
  /\ writeOps' = [writeOps EXCEPT ![e] = RemoveAt(@, i) \o <<>>]
  /\ CloseSocket(e)
  /\ UNCHANGED sendDeq

LEMMA WriteHandlerCases ==
  ASSUME Types, NEW e \in Ends, NEW i \in DOMAIN writeOps[e], WriteHandler(e, i)
  PROVE  /\ WriteNextPart(e, i) \/ WriteNextMessage(e, i) \/ WriteFailed(e, i)
         /\ UNCHANGED <<broken, reading, calls>>
BY DEF WriteHandler, WriteNextPart, WriteNextMessage, WriteFailed, Types

\* What a handler of a write takes for granted: there is a message in front.
LEMMA WriteHandlerTypes ==
  ASSUME Types, NEW e \in Ends, NEW i \in DOMAIN writeOps[e], WriteHandler(e, i),
         sendDeq[e] # <<>>
  PROVE  Types'
<1>1. RemoveAt(writeOps[e], i) \in Seq(Writes)
  BY EndTypes, RemoveAtType
<1>2. Head(sendDeq[e]) \in Messages /\ Tail(sendDeq[e]) \in Seq(Messages)
  BY EndTypes, TailItems
<1>3. <<WriteOf(BodyToken(Head(sendDeq[e])))>> \in Seq(Writes)
  BY <1>2, Parts
<1>4. NextWrite(Tail(sendDeq[e])) \in Seq(Writes) /\ <<>> \in Seq(Writes)
  BY <1>2, NextWriteType, EmptySeq
<1>5. /\ RemoveAt(writeOps[e], i) \o <<WriteOf(BodyToken(Head(sendDeq[e])))>> \in Seq(Writes)
      /\ RemoveAt(writeOps[e], i) \o NextWrite(Tail(sendDeq[e])) \in Seq(Writes)
      /\ RemoveAt(writeOps[e], i) \o <<>> \in Seq(Writes)
  BY <1>1, <1>3, <1>4, ConcatProperties
<1>6. CASE WriteNextPart(e, i)
  BY <1>5, <1>6, WriteHandlerCases DEF WriteNextPart, Types
<1>7. CASE WriteNextMessage(e, i)
  BY <1>2, <1>5, <1>7, WriteHandlerCases DEF WriteNextMessage, Types
<1>8. CASE WriteFailed(e, i)
  <2>1. sock' \in [Ends -> {"open", "closed"}] /\ wire' \in [Ends -> Seq(Tokens)]
    BY <1>8, CloseTypes DEF WriteFailed
  <2> QED BY <2>1, <1>5, <1>8, WriteHandlerCases DEF WriteFailed, Types
<1> QED BY <1>6, <1>7, <1>8, WriteHandlerCases

\* And the outcomes of a read's handler.
ReadNextPart(e) ==
  /\ readOp[e].res = "ok" /\ readOp[e].what = "header" /\ tempMsg[e].size > 0
  /\ readOp' = [readOp EXCEPT ![e] = ReadOf("body")]
  /\ UNCHANGED <<sock, wire, recvDeq>>

ReadWhole(e) ==
  /\ readOp[e].what # "none" /\ readOp[e].res = "ok"
  /\ readOp[e].what = "header" => tempMsg[e].size = 0
  /\ recvDeq' = [recvDeq EXCEPT ![e] = Append(@, tempMsg[e])]
  /\ readOp' = [readOp EXCEPT ![e] = ReadOf("header")]
  /\ UNCHANGED <<sock, wire>>

ReadClosed(e) ==
  /\ readOp[e].res = "error"
  /\ readOp' = [readOp EXCEPT ![e] = Idle]
  /\ CloseSocket(e)
  /\ UNCHANGED recvDeq

LEMMA ReadHandlerCases ==
  ASSUME NEW e \in Ends, ReadHandler(e)
  PROVE  /\ readOp[e].what # "none"
         /\ ReadNextPart(e) \/ ReadWhole(e) \/ ReadClosed(e)
         /\ UNCHANGED <<started, tempMsg, broken, writing, calls>>
BY DEF ReadHandler, ReadNextPart, ReadWhole, ReadClosed, ReadFailed, AddToIncoming

LEMMA ReadHandlerTypes ==
  ASSUME Types, NEW e \in Ends, ReadHandler(e)
  PROVE  Types'
<1>1. CASE ReadNextPart(e)
  BY <1>1, Parts, ReadHandlerCases DEF ReadNextPart, Types
<1>2. CASE ReadWhole(e)
  <2>1. /\ Append(recvDeq[e], tempMsg[e]) \in Seq(Messages)
        /\ Len(Append(recvDeq[e], tempMsg[e])) = Len(recvDeq[e]) + 1
    BY EndTypes, AppendProperties
  <2>2. recvDeq' \in [Ends -> Seq(Messages)]
    BY <1>2, <2>1 DEF ReadWhole, Types
  <2>3. \A x \in Ends : taken[x] <= Len(recvDeq'[x])
    <3> TAKE x \in Ends
    <3>1. taken[x] \in Nat /\ Len(recvDeq[x]) \in Nat /\ taken[x] <= Len(recvDeq[x])
      BY EndTypes
    <3> QED BY <1>2, <2>1, <3>1 DEF ReadWhole, Types
  <2>4. readOp' \in [Ends -> Reads]
    BY <1>2, Parts DEF ReadWhole, Types
  <2> QED BY <1>2, <2>2, <2>3, <2>4, ReadHandlerCases DEF ReadWhole, Types
<1>3. CASE ReadClosed(e)
  <2>1. sock' \in [Ends -> {"open", "closed"}] /\ wire' \in [Ends -> Seq(Tokens)]
    BY <1>3, CloseTypes DEF ReadClosed
  <2> QED BY <2>1, <1>3, Parts, ReadHandlerCases DEF ReadClosed, Types
<1> QED BY <1>1, <1>2, <1>3, ReadHandlerCases

\* The kernel ends a write.
LEMMA FinishTypes ==
  ASSUME Types, NEW e \in Ends, NEW i \in DOMAIN writeOps[e], NEW res \in Results,
         Finish(e, i, res)
  PROVE  /\ writeOps' \in [Ends -> Seq(Writes)]
         /\ \A x \in Ends : x # e => writeOps'[x] = writeOps[x]
         /\ Len(writeOps'[e]) = Len(writeOps[e])
         /\ writeOps'[e][i].token = writeOps[e][i].token /\ writeOps'[e][i].res = res
<1> DEFINE op == [writeOps[e][i] EXCEPT !.res = res]
<1>1. writeOps[e] \in Seq(Writes) /\ i \in 1..Len(writeOps[e])
  BY EndTypes
<1>2. writeOps[e][i] \in Writes
  BY <1>1, ElementOfSeq
<1>3. op \in Writes /\ op.token = writeOps[e][i].token /\ op.res = res
  BY <1>2 DEF Writes
<1>4. writeOps' = [writeOps EXCEPT ![e] = [writeOps[e] EXCEPT ![i] = op]]
  BY DEF Finish
<1> HIDE DEF op
<1>5. /\ [writeOps[e] EXCEPT ![i] = op] \in Seq(Writes)
      /\ Len([writeOps[e] EXCEPT ![i] = op]) = Len(writeOps[e])
      /\ [writeOps[e] EXCEPT ![i] = op][i] = op
  BY <1>1, <1>3, ExceptSeq
<1>6. writeOps \in [Ends -> Seq(Writes)]
  BY DEF Types
<1>7. writeOps'[e] = [writeOps[e] EXCEPT ![i] = op]
  BY <1>4, <1>6
<1> QED BY <1>3, <1>4, <1>5, <1>6, <1>7

LEMMA WriteOkTypes ==
  ASSUME Types, NEW e \in Ends, NEW i \in DOMAIN writeOps[e], WriteOk(e, i)
  PROVE  Types'
<1>1. writeOps' \in [Ends -> Seq(Writes)]
  BY FinishTypes DEF WriteOk, Results
<1>2. writeOps[e][i].token \in Tokens
  <2>1. writeOps[e][i] \in Writes
    BY EndTypes, ElementOfSeq
  <2> QED BY <2>1 DEF Writes
<1>3. Append(wire[Peer[e]], writeOps[e][i].token) \in Seq(Tokens)
  BY <1>2, EndTypes, Constants, AppendProperties
<1>4. wire' \in [Ends -> Seq(Tokens)]
  BY <1>3, Constants DEF WriteOk, Types
<1> QED BY <1>1, <1>4 DEF WriteOk, Types

LEMMA WriteErrorTypes ==
  ASSUME Types, NEW e \in Ends, NEW i \in DOMAIN writeOps[e], WriteError(e, i)
  PROVE  Types'
<1>1. writeOps' \in [Ends -> Seq(Writes)]
  BY FinishTypes DEF WriteError, Results
<1> QED BY <1>1 DEF WriteError, Types

LEMMA ReadOkTypes ==
  ASSUME Types, NEW e \in Ends, ReadOk(e)
  PROVE  Types'
<1> DEFINE token == Head(wire[e])
           filled == IF token.what = "header"
                     THEN [tempMsg[e] EXCEPT !.id = token.id, !.size = token.size]
                     ELSE [tempMsg[e] EXCEPT !.body = token.data]
<1>1. token \in Tokens /\ Tail(wire[e]) \in Seq(Tokens)
  BY EndTypes, TailItems DEF ReadOk
<1>2. tempMsg[e] \in Messages /\ readOp[e] \in Reads
  BY EndTypes
<1>3. filled \in Messages
  <2>1. CASE token.what = "header"
    <3>1. token.id \in Ids /\ token.size \in Nat
      BY <1>1, <2>1 DEF Tokens
    <3> QED BY <1>2, <2>1, <3>1 DEF Messages
  <2>2. CASE token.what # "header"
    <3>1. token.data \in Seq(1..MaxSends)
      BY <1>1, <2>2 DEF Tokens
    <3> QED BY <1>2, <2>2, <3>1 DEF Messages
  <2> QED BY <2>1, <2>2
<1>4. tempMsg' = [tempMsg EXCEPT ![e] = filled]
  BY DEF ReadOk
<1>5. tempMsg' \in [Ends -> Messages]
  BY <1>3, <1>4 DEF Types
<1>6. readOp' \in [Ends -> Reads]
  <2>1. [readOp[e] EXCEPT !.res = "ok"] \in Reads
    BY <1>2 DEF Reads, Results
  <2> QED BY <2>1 DEF ReadOk, Types
<1>7. wire' \in [Ends -> Seq(Tokens)]
  BY <1>1 DEF ReadOk, Types
<1> QED BY <1>5, <1>6, <1>7 DEF ReadOk, Types

LEMMA ReadErrorTypes ==
  ASSUME Types, NEW e \in Ends, ReadError(e)
  PROVE  Types'
<1>1. [readOp[e] EXCEPT !.res = "error"] \in Reads
  BY EndTypes DEF Reads, Results
<1>2. readOp' \in [Ends -> Reads]
  BY <1>1 DEF ReadError, Types
<1> QED BY <1>2 DEF ReadError, Types

-----------------------------------------------------------------------------
(* The chain of writes and the chain of reads.                             *)

\* At most one write is under way, and it writes a part of the message at the
\* front; where none is, nothing is queued or the socket is closed.
WriteChain ==
  \A e \in Ends :
    /\ Len(writeOps[e]) <= 1
    /\ writeOps[e] = <<>> => sendDeq[e] = <<>> \/ sock[e] = "closed"
    /\ writeOps[e] # <<>> =>
         /\ sendDeq[e] # <<>>
         /\ \/ writeOps[e][1].token = HeaderToken(Head(sendDeq[e]))
            \/ /\ writeOps[e][1].token = BodyToken(Head(sendDeq[e]))
               /\ Head(sendDeq[e]).body # <<>>

\* A read is outstanding from the start on, and none before.
ReadChain ==
  \A e \in Ends :
    /\ ~ started[e] => readOp[e].what = "none"
    /\ started[e] /\ sock[e] = "open" => readOp[e].what # "none"

ChainInv == Types /\ WriteChain /\ ReadChain

LEMMA InitChainInv == Init => ChainInv
<1> SUFFICES ASSUME Init PROVE ChainInv
  OBVIOUS
<1>1. WriteChain
  BY EmptySeq DEF Init, WriteChain
<1>2. ReadChain
  BY DEF Init, ReadChain, Idle
<1> QED BY <1>1, <1>2, InitTypes DEF ChainInv

\* A step at one end, seen from the other ends.
LEMMA WriteChainAt ==
  ASSUME WriteChain, NEW e \in Ends,
         \A x \in Ends : x # e => /\ writeOps'[x] = writeOps[x]
                                  /\ sendDeq'[x] = sendDeq[x]
                                  /\ sock'[x] = sock[x] \/ sock'[x] = "closed",
         Len(writeOps'[e]) <= 1,
         writeOps'[e] = <<>> => sendDeq'[e] = <<>> \/ sock'[e] = "closed",
         writeOps'[e] # <<>> =>
           /\ sendDeq'[e] # <<>>
           /\ \/ writeOps'[e][1].token = HeaderToken(Head(sendDeq'[e]))
              \/ /\ writeOps'[e][1].token = BodyToken(Head(sendDeq'[e]))
                 /\ Head(sendDeq'[e]).body # <<>>
  PROVE  WriteChain'
<1> SUFFICES ASSUME NEW x \in Ends
             PROVE  /\ Len(writeOps'[x]) <= 1
                    /\ writeOps'[x] = <<>> => sendDeq'[x] = <<>> \/ sock'[x] = "closed"
                    /\ writeOps'[x] # <<>> =>
                         /\ sendDeq'[x] # <<>>
                         /\ \/ writeOps'[x][1].token = HeaderToken(Head(sendDeq'[x]))
                            \/ /\ writeOps'[x][1].token = BodyToken(Head(sendDeq'[x]))
                               /\ Head(sendDeq'[x]).body # <<>>
  BY DEF WriteChain, HeaderToken, BodyToken
<1>1. CASE x = e
  BY <1>1
<1>2. CASE x # e
  BY <1>2 DEF WriteChain
<1> QED BY <1>1, <1>2

\* Steps that touch neither the deque nor a write.
LEMMA WriteChainKept ==
  ASSUME WriteChain, UNCHANGED writing,
         \A x \in Ends : sock'[x] = sock[x] \/ sock'[x] = "closed"
  PROVE  WriteChain'
BY DEF WriteChain, HeaderToken, BodyToken

LEMMA ReadChainKept ==
  ASSUME ReadChain, UNCHANGED started,
         \A x \in Ends : readOp'[x].what = readOp[x].what,
         \A x \in Ends : sock'[x] = sock[x] \/ sock'[x] = "closed"
  PROVE  ReadChain'
<1> SUFFICES ASSUME NEW x \in Ends
             PROVE  /\ ~ started'[x] => readOp'[x].what = "none"
                    /\ started'[x] /\ sock'[x] = "open" => readOp'[x].what # "none"
  BY DEF ReadChain
<1>1. readOp'[x].what = readOp[x].what /\ started'[x] = started[x]
  OBVIOUS
<1>2. sock'[x] = "open" => sock[x] = "open"
  OBVIOUS
<1> QED BY <1>1, <1>2 DEF ReadChain

LEMMA CloseFalls ==
  ASSUME Types, NEW e \in Ends, CloseSocket(e)
  PROVE  /\ \A x \in Ends : sock'[x] = sock[x] \/ sock'[x] = "closed"
         /\ sock'[e] = "closed"
         /\ \A x \in Ends : x # e => sock'[x] = sock[x]
BY DEF CloseSocket, Types

LEMMA RunSendChain ==
  ASSUME ChainInv, NEW e \in Ends, RunSend(e)
  PROVE  WriteChain'
<1> DEFINE m == Head(posted[e]).msg
<1>1. Types /\ WriteChain
  BY DEF ChainInv
<1>2. /\ sendDeq[e] \in Seq(Messages) /\ writeOps[e] \in Seq(Writes)
      /\ posted[e] \in Seq(Tasks)
  BY <1>1, EndTypes
<1>3. m \in Messages
  <2>1. Head(posted[e]) \in Tasks /\ Head(posted[e]).op = "send"
    BY <1>2, TailItems DEF RunSend
  <2> QED BY <2>1 DEF Tasks
<1>4. /\ sendDeq' = [sendDeq EXCEPT ![e] = Append(@, m)]
      /\ IF sendDeq[e] = <<>>
         THEN writeOps' = [writeOps EXCEPT ![e] = Append(@, WriteOf(HeaderToken(m)))]
         ELSE UNCHANGED writeOps
      /\ UNCHANGED sock
  BY DEF RunSend, Queued, StartsWriting, StartWrite
<1> HIDE DEF m
<1>5. sendDeq'[e] = Append(sendDeq[e], m)
  BY <1>1, <1>4 DEF Types
<1>6. sendDeq'[e] # <<>>
  BY <1>2, <1>3, <1>5, AppendProperties
<1>7. Head(sendDeq'[e]) = IF sendDeq[e] = <<>> THEN m ELSE Head(sendDeq[e])
  BY <1>2, <1>5, HeadTailAppend
<1>8. CASE sendDeq[e] = <<>>
  <2>1. writeOps[e] = <<>>
    BY <1>1, <1>8 DEF WriteChain
  <2>2. writeOps'[e] = <<WriteOf(HeaderToken(m))>>
    <3>1. writeOps'[e] = Append(<<>>, WriteOf(HeaderToken(m)))
      BY <1>1, <1>4, <1>8, <2>1 DEF Types
    <3> QED BY <3>1
  <2>3. /\ Len(writeOps'[e]) <= 1 /\ writeOps'[e] # <<>>
        /\ writeOps'[e][1].token = HeaderToken(Head(sendDeq'[e]))
    BY <1>7, <1>8, <2>2 DEF WriteOf
  <2>4. \A x \in Ends : x # e => writeOps'[x] = writeOps[x] /\ sendDeq'[x] = sendDeq[x]
    BY <1>1, <1>4 DEF Types
  <2> QED BY <1>1, <1>4, <1>6, <2>3, <2>4, WriteChainAt
<1>9. CASE sendDeq[e] # <<>>
  <2>1. writeOps' = writeOps /\ Head(sendDeq'[e]) = Head(sendDeq[e])
    BY <1>4, <1>7, <1>9
  <2>2. \A x \in Ends : x # e => sendDeq'[x] = sendDeq[x]
    BY <1>1, <1>4 DEF Types
  <2> QED BY <1>1, <1>4, <1>6, <1>9, <2>1, <2>2, WriteChainAt DEF WriteChain
<1> QED BY <1>8, <1>9

\* The one write under way.
LEMMA OnlyWrite ==
  ASSUME ChainInv, NEW e \in Ends, NEW i \in DOMAIN writeOps[e]
  PROVE  /\ i = 1 /\ Len(writeOps[e]) = 1 /\ writeOps[e] # <<>> /\ sendDeq[e] # <<>>
         /\ writeOps[e][1] \in Writes /\ writeOps[e] = <<writeOps[e][1]>>
         /\ RemoveAt(writeOps[e], i) = <<>>
         /\ Head(sendDeq[e]) \in Messages /\ Tail(sendDeq[e]) \in Seq(Messages)
         /\ \/ writeOps[e][1].token = HeaderToken(Head(sendDeq[e]))
            \/ /\ writeOps[e][1].token = BodyToken(Head(sendDeq[e]))
               /\ Head(sendDeq[e]).body # <<>>
<1>1. Types /\ WriteChain
  BY DEF ChainInv
<1>2. writeOps[e] \in Seq(Writes) /\ i \in 1..Len(writeOps[e]) /\ Len(writeOps[e]) \in Nat
  BY <1>1, EndTypes
<1>3. Len(writeOps[e]) <= 1
  BY <1>1 DEF WriteChain
<1>4. i = 1 /\ Len(writeOps[e]) = 1
  <2>1. \A n \in Nat : i \in 1..n /\ n <= 1 => i = 1 /\ n = 1
    OBVIOUS
  <2> QED BY <1>2, <1>3, <2>1
<1>5. writeOps[e] # <<>>
  BY <1>4
<1>6. sendDeq[e] # <<>>
  BY <1>1, <1>5 DEF WriteChain
<1>7. writeOps[e][1] \in Writes
  BY <1>2, <1>4, ElementOfSeq
<1>8. writeOps[e] = <<writeOps[e][1]>>
  BY <1>2, <1>4, <1>7, SeqEqual
<1>9. RemoveAt(writeOps[e], i) = <<>>
  BY <1>2, <1>4, RemoveOnly
<1>10. Head(sendDeq[e]) \in Messages /\ Tail(sendDeq[e]) \in Seq(Messages)
  BY <1>1, <1>6, EndTypes, TailItems
<1> QED BY <1>1, <1>4, <1>5, <1>6, <1>7, <1>8, <1>9, <1>10 DEF WriteChain

\* What the three outcomes leave under way.
LEMMA WriteHandlerLeaves ==
  ASSUME ChainInv, NEW e \in Ends, NEW i \in DOMAIN writeOps[e], WriteHandler(e, i)
  PROVE  /\ WriteNextPart(e, i) =>
              writeOps' = [writeOps EXCEPT ![e] = <<WriteOf(BodyToken(Head(sendDeq[e])))>>]
         /\ WriteNextMessage(e, i) =>
              writeOps' = [writeOps EXCEPT ![e] = NextWrite(Tail(sendDeq[e]))]
         /\ WriteFailed(e, i) =>
              writeOps' = [writeOps EXCEPT ![e] = <<>>]
<1> DEFINE first == <<WriteOf(BodyToken(Head(sendDeq[e])))>>
           second == NextWrite(Tail(sendDeq[e]))
<1>1. RemoveAt(writeOps[e], i) = <<>>
  BY OnlyWrite
<1>2. first \in Seq(Writes) /\ second \in Seq(Writes) /\ <<>> \in Seq(Writes)
  <2>1. Head(sendDeq[e]) \in Messages /\ Tail(sendDeq[e]) \in Seq(Messages)
    BY OnlyWrite
  <2>2. WriteOf(BodyToken(Head(sendDeq[e]))) \in Writes
    BY <2>1, Parts
  <2>3. first \in Seq(Writes)
    BY <2>2
  <2>4. second \in Seq(Writes)
    BY <2>1, NextWriteType
  <2> QED BY <2>3, <2>4, EmptySeq
<1>3. <<>> \o first = first /\ <<>> \o second = second /\ <<>> \o <<>> = <<>>
  BY <1>2, ConcatEmptySeq
<1> QED BY <1>1, <1>3 DEF WriteNextPart, WriteNextMessage, WriteFailed

LEMMA WriteHandlerChain ==
  ASSUME ChainInv, NEW e \in Ends, NEW i \in DOMAIN writeOps[e], WriteHandler(e, i)
  PROVE  WriteChain'
<1>1. Types /\ WriteChain
  BY DEF ChainInv
<1>2. writeOps \in [Ends -> Seq(Writes)] /\ sendDeq \in [Ends -> Seq(Messages)]
  BY <1>1 DEF Types
<1>3. CASE WriteNextPart(e, i)
  <2>1. /\ writeOps' = [writeOps EXCEPT ![e] = <<WriteOf(BodyToken(Head(sendDeq[e])))>>]
        /\ sendDeq' = sendDeq /\ sock' = sock /\ Head(sendDeq[e]).body # <<>>
    BY <1>3, WriteHandlerLeaves DEF WriteNextPart
  <2>2. writeOps'[e] = <<WriteOf(BodyToken(Head(sendDeq[e])))>>
    BY <1>2, <2>1
  <2>3. /\ Len(writeOps'[e]) <= 1 /\ writeOps'[e] # <<>>
        /\ writeOps'[e][1].token = BodyToken(Head(sendDeq[e]))
    BY <2>2 DEF WriteOf
  <2>4. \A x \in Ends : x # e => writeOps'[x] = writeOps[x]
    BY <1>2, <2>1
  <2>5. sendDeq[e] # <<>>
    BY OnlyWrite
  <2> QED BY <1>1, <2>1, <2>3, <2>4, <2>5, WriteChainAt
<1>4. CASE WriteNextMessage(e, i)
  <2>1. /\ writeOps' = [writeOps EXCEPT ![e] = NextWrite(Tail(sendDeq[e]))]
        /\ sendDeq' = [sendDeq EXCEPT ![e] = Tail(@)] /\ sock' = sock
    BY <1>4, WriteHandlerLeaves DEF WriteNextMessage
  <2>2. writeOps'[e] = NextWrite(Tail(sendDeq[e])) /\ sendDeq'[e] = Tail(sendDeq[e])
    BY <1>2, <2>1
  <2>3. \A x \in Ends : x # e => writeOps'[x] = writeOps[x] /\ sendDeq'[x] = sendDeq[x]
    BY <1>2, <2>1
  <2>4. CASE Tail(sendDeq[e]) = <<>>
    <3>1. writeOps'[e] = <<>> /\ sendDeq'[e] = <<>>
      BY <2>2, <2>4 DEF NextWrite
    <3> QED BY <1>1, <2>1, <2>3, <3>1, WriteChainAt
  <2>5. CASE Tail(sendDeq[e]) # <<>>
    <3>1. writeOps'[e] = <<WriteOf(HeaderToken(Head(sendDeq'[e])))>>
      BY <2>2, <2>5 DEF NextWrite
    <3>2. /\ Len(writeOps'[e]) <= 1 /\ writeOps'[e] # <<>>
          /\ writeOps'[e][1].token = HeaderToken(Head(sendDeq'[e]))
      BY <3>1 DEF WriteOf
    <3> QED BY <1>1, <2>1, <2>2, <2>3, <2>5, <3>2, WriteChainAt
  <2> QED BY <2>4, <2>5
<1>5. CASE WriteFailed(e, i)
  <2>1. /\ writeOps' = [writeOps EXCEPT ![e] = <<>>]
        /\ sendDeq' = sendDeq /\ CloseSocket(e)
    BY <1>5, WriteHandlerLeaves DEF WriteFailed
  <2>2. writeOps'[e] = <<>> /\ \A x \in Ends : x # e => writeOps'[x] = writeOps[x]
    BY <1>2, <2>1
  <2>3. sock'[e] = "closed" /\ \A x \in Ends : x # e => sock'[x] = sock[x]
    BY <1>1, <2>1, CloseFalls
  <2> QED BY <1>1, <2>1, <2>2, <2>3, WriteChainAt
<1> QED BY <1>1, <1>3, <1>4, <1>5, WriteHandlerCases

LEMMA FinishChain ==
  ASSUME ChainInv, NEW e \in Ends, NEW i \in DOMAIN writeOps[e], NEW res \in Results,
         Finish(e, i, res), UNCHANGED <<sock, sendDeq>>
  PROVE  WriteChain'
<1>1. Types /\ WriteChain
  BY DEF ChainInv
<1>2. /\ \A x \in Ends : x # e => writeOps'[x] = writeOps[x]
      /\ Len(writeOps'[e]) = Len(writeOps[e])
      /\ writeOps'[e][i].token = writeOps[e][i].token
  BY <1>1, FinishTypes
<1>3. i = 1 /\ Len(writeOps[e]) = 1 /\ sendDeq[e] # <<>>
  BY OnlyWrite
<1>4. writeOps'[e] # <<>>
  BY <1>2, <1>3
<1>5. \/ writeOps'[e][1].token = HeaderToken(Head(sendDeq[e]))
      \/ /\ writeOps'[e][1].token = BodyToken(Head(sendDeq[e]))
         /\ Head(sendDeq[e]).body # <<>>
  BY <1>2, <1>3, OnlyWrite
<1>6. Len(writeOps'[e]) <= 1
  BY <1>2, <1>3
<1> QED BY <1>1, <1>2, <1>3, <1>4, <1>5, <1>6, WriteChainAt

LEMMA StartChain ==
  ASSUME ChainInv, NEW e \in Ends, Start(e)
  PROVE  ReadChain'
BY DEF ChainInv, Types, Start, ReadChain, ReadOf

LEMMA ReadHandlerChain ==
  ASSUME ChainInv, NEW e \in Ends, ReadHandler(e)
  PROVE  ReadChain'
<1>1. Types /\ ReadChain
  BY DEF ChainInv
<1>2. readOp[e].what # "none" /\ UNCHANGED started
  BY ReadHandlerCases
<1>3. started[e]
  BY <1>1, <1>2 DEF ReadChain
<1>4. CASE ReadNextPart(e) \/ ReadWhole(e)
  <2>1. readOp' = [readOp EXCEPT ![e] = ReadOf("body")]
         \/ readOp' = [readOp EXCEPT ![e] = ReadOf("header")]
    BY <1>4 DEF ReadNextPart, ReadWhole
  <2>2. UNCHANGED sock
    BY <1>4 DEF ReadNextPart, ReadWhole
  <2>3. readOp'[e].what # "none" /\ \A x \in Ends : x # e => readOp'[x] = readOp[x]
    BY <1>1, <2>1 DEF Types, ReadOf
  <2> QED BY <1>1, <1>2, <1>3, <2>2, <2>3 DEF ReadChain
<1>5. CASE ReadClosed(e)
  <2>1. sock'[e] = "closed" /\ \A x \in Ends : x # e => sock'[x] = sock[x]
    BY <1>1, <1>5, CloseFalls DEF ReadClosed
  <2>2. \A x \in Ends : x # e => readOp'[x] = readOp[x]
    BY <1>1, <1>5 DEF ReadClosed, Types
  <2> QED BY <1>1, <1>2, <1>3, <2>1, <2>2 DEF ReadChain
<1> QED BY <1>4, <1>5, ReadHandlerCases

LEMMA NextChainInv == ChainInv /\ [Next]_vars => ChainInv'
<1> SUFFICES ASSUME ChainInv, [Next]_vars PROVE ChainInv'
  OBVIOUS
<1>a. Types /\ WriteChain /\ ReadChain
  BY DEF ChainInv
<1>1. CASE UNCHANGED vars
  <2>1. Types'
    BY <1>a, <1>1 DEF vars, Types
  <2>2. WriteChain'
    BY <1>a, <1>1, WriteChainKept DEF vars
  <2>3. ReadChain'
    BY <1>a, <1>1, ReadChainKept DEF vars
  <2> QED BY <2>1, <2>2, <2>3 DEF ChainInv
<1>2. ASSUME NEW e \in Ends, NEW id \in Ids, Send(e, id) PROVE ChainInv'
  BY <1>a, <1>2, SendTypes, WriteChainKept, ReadChainKept DEF Send, ChainInv
<1>3. ASSUME NEW e \in Ends, Disconnect(e) PROVE ChainInv'
  BY <1>a, <1>3, DisconnectTypes, WriteChainKept, ReadChainKept DEF Disconnect, ChainInv
<1>4. ASSUME NEW e \in Ends, Handle(e) PROVE ChainInv'
  BY <1>a, <1>4, HandleTypes, WriteChainKept, ReadChainKept DEF Handle, ChainInv
<1>5. ASSUME NEW e \in Ends, Start(e) PROVE ChainInv'
  BY <1>a, <1>5, StartTypes, WriteChainKept, StartChain DEF Start, ChainInv
<1>6. ASSUME NEW e \in Ends, RunSend(e) PROVE ChainInv'
  BY <1>a, <1>6, RunSendTypes, RunSendChain, ReadChainKept DEF RunSend, ChainInv
<1>7. ASSUME NEW e \in Ends, RunClose(e) PROVE ChainInv'
  BY <1>a, <1>7, RunCloseTypes, CloseFalls, WriteChainKept, ReadChainKept
     DEF RunClose, ChainInv
<1>8. ASSUME NEW e \in Ends, ReadHandler(e) PROVE ChainInv'
  <2>1. \A x \in Ends : sock'[x] = sock[x] \/ sock'[x] = "closed"
    BY <1>a, <1>8, ReadHandlerCases, CloseFalls DEF ReadNextPart, ReadWhole, ReadClosed
  <2>2. WriteChain'
    BY <1>a, <1>8, <2>1, ReadHandlerCases, WriteChainKept
  <2> QED BY <1>a, <1>8, <2>2, ReadHandlerTypes, ReadHandlerChain DEF ChainInv
<1>9. ASSUME NEW e \in Ends, NEW i \in DOMAIN writeOps[e], WriteHandler(e, i) PROVE ChainInv'
  <2>1. UNCHANGED <<started, readOp>>
    BY <1>a, <1>9, WriteHandlerCases
  <2>2. \A x \in Ends : sock'[x] = sock[x] \/ sock'[x] = "closed"
    BY <1>a, <1>9, WriteHandlerCases, CloseFalls
       DEF WriteNextPart, WriteNextMessage, WriteFailed
  <2>3. ReadChain'
    BY <1>a, <2>1, <2>2, ReadChainKept
  <2>4. Types'
    BY <1>a, <1>9, OnlyWrite, WriteHandlerTypes
  <2> QED BY <1>9, <2>3, <2>4, WriteHandlerChain DEF ChainInv
<1>10. ASSUME NEW e \in Ends, NEW i \in DOMAIN writeOps[e], WriteOk(e, i) PROVE ChainInv'
  <2>1. WriteChain'
    BY <1>10, FinishChain DEF WriteOk, Results
  <2>2. ReadChain'
    BY <1>a, <1>10, ReadChainKept DEF WriteOk
  <2> QED BY <1>a, <1>10, <2>1, <2>2, WriteOkTypes DEF ChainInv
<1>11. ASSUME NEW e \in Ends, NEW i \in DOMAIN writeOps[e], WriteError(e, i) PROVE ChainInv'
  <2>1. WriteChain'
    BY <1>11, FinishChain DEF WriteError, Results
  <2>2. ReadChain'
    BY <1>a, <1>11, ReadChainKept DEF WriteError
  <2> QED BY <1>a, <1>11, <2>1, <2>2, WriteErrorTypes DEF ChainInv
<1>12. ASSUME NEW e \in Ends, ReadOk(e) PROVE ChainInv'
  <2>1. \A x \in Ends : readOp'[x].what = readOp[x].what
    BY <1>a, <1>12 DEF ReadOk, Types, Reads
  <2> QED BY <1>a, <1>12, <2>1, ReadOkTypes, WriteChainKept, ReadChainKept
          DEF ReadOk, ChainInv
<1>13. ASSUME NEW e \in Ends, ReadError(e) PROVE ChainInv'
  <2>1. \A x \in Ends : readOp'[x].what = readOp[x].what
    BY <1>a, <1>13 DEF ReadError, Types, Reads
  <2> QED BY <1>a, <1>13, <2>1, ReadErrorTypes, WriteChainKept, ReadChainKept
          DEF ReadError, ChainInv
<1>14. ASSUME Reset PROVE ChainInv'
  <2>1. Types'
    BY <1>a, <1>14 DEF Reset, Types
  <2> QED BY <1>a, <1>14, <2>1, WriteChainKept, ReadChainKept DEF Reset, ChainInv
<1> QED BY <1>1, <1>2, <1>3, <1>4, <1>5, <1>6, <1>7, <1>8, <1>9, <1>10, <1>11, <1>12,
           <1>13, <1>14 DEF Next, Context, KernelWrite, KernelRead

\* What every later proof starts from.
LEMMA ChainAlways == Spec => []ChainInv
BY InitChainInv, NextChainInv, PTL DEF Spec
-----------------------------------------------------------------------------
\* Every variable of a connection keeps its type at both ends, whatever the
\* programs, the kernel and the network do.
THEOREM TypeCorrect == Spec => []TypeOK
<1>1. ChainInv => TypeOK
  <2> SUFFICES ASSUME ChainInv PROVE TypeOK
    OBVIOUS
  <2>1. Types
    BY DEF ChainInv
  <2>2. ASSUME NEW e \in Ends, NEW i \in DOMAIN posted[e] PROVE posted[e][i] \in Tasks
    BY <2>1, <2>2, EndTypes, LenProperties, ElementOfSeq
  <2>3. \A e \in Ends : taken[e] \in 0..Len(recvDeq[e])
    BY <2>1, EndTypes
  <2> QED BY <2>1, <2>2, <2>3 DEF Types, TypeOK, Tasks, Writes, Reads
<1> QED BY <1>1, ChainAlways, PTL

\* asio's rule for async_write is kept: never two at a time on one socket, and
\* the one under way writes a part of the message at the front of m_sendDeq
\* (net_connection.h:313-387).
THEOREM WritesInTurn == Spec => []OneWriteOfTheFront
<1>1. ChainInv => OneWriteOfTheFront
  BY DEF ChainInv, WriteChain, OneWriteOfTheFront
<1> QED BY <1>1, ChainAlways, PTL

\* A queued message is always on its way out, unless the socket is closed
\* (net_connection.h:320-325, 345-356, 372-381).
THEOREM ChainUnbroken == Spec => []ChainNeverBreaks
<1>1. ChainInv => ChainNeverBreaks
  BY DEF ChainInv, WriteChain, ChainNeverBreaks
<1> QED BY <1>1, ChainAlways, PTL

\* From its start on an open connection has a read outstanding
\* (net_connection.h:390-437).
THEOREM ReadsAlways == Spec => []AlwaysReading
<1>1. ChainInv => AlwaysReading
  BY DEF ChainInv, ReadChain, AlwaysReading
<1> QED BY <1>1, ChainAlways, PTL
=============================================================================
