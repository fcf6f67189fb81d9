--------------------------- MODULE TSQueueProofs ---------------------------
(***************************************************************************)
(* Proofs about TSQueue, for any number of pushing threads, any bound on   *)
(* the pushes and either mode of Update.                                   *)
(***************************************************************************)
EXTENDS TSQueue, SequenceTheorems, TLAPS

\* Who holds which mutex follows from where the threads are.
LockInv ==
  /\ \A t \in Threads : muxQueue = t <=> pc[t] \in {"pushed", "notify"}
  /\ \A t \in Threads : muxBlocking = t <=> pc[t] \in {"notify", "cvwait", "release"}

\* A sequence over 1..n is one over 1..n+1: the type of the items grows.
LEMMA SeqGrows ==
  ASSUME NEW n \in Nat, NEW s \in Seq(1..n)
  PROVE  s \in Seq(1..n + 1)
<1>1. \A i \in 1..Len(s) : s[i] \in 1..n + 1
  OBVIOUS
<1>2. s = [i \in 1..Len(s) |-> s[i]]
  OBVIOUS
<1> QED
  BY <1>1, <1>2

\* What an insertion at either end does to the deque.
LEMMA InsertedProperties ==
  ASSUME NEW S, NEW q \in Seq(S), NEW v \in S, NEW end
  PROVE  /\ Inserted(q, end, v) \in Seq(S)
         /\ Len(Inserted(q, end, v)) = Len(q) + 1
         /\ end = "back" =>
              \A i \in 1..Len(q) + 1 :
                Inserted(q, end, v)[i] = IF i <= Len(q) THEN q[i] ELSE v
<1>1. CASE end = "back"
  BY <1>1 DEF Inserted
<1>2. CASE end # "back"
  <2>1. <<v>> \in Seq(S) /\ Len(<<v>>) = 1
    OBVIOUS
  <2> QED
    BY <1>2, <2>1, ConcatProperties DEF Inserted
<1> QED
  BY <1>1, <1>2

\* What the removal of the last item leaves.
LEMMA FrontProperties ==
  ASSUME NEW S, NEW q \in Seq(S), q # <<>>
  PROVE  /\ Len(q) \in Nat \ {0}
         /\ q[Len(q)] \in S
         /\ SubSeq(q, 1, Len(q) - 1) \in Seq(S)
<1>1. Len(q) \in Nat \ {0}
  BY EmptySeq
<1>2. \A i \in 1..Len(q) : q[i] \in S
  BY ElementOfSeq
<1>3. Len(q) - 1 \in Int /\ \A i \in 1..Len(q) - 1 : q[i] \in S
  BY <1>1, <1>2
<1> QED
  BY <1>1, <1>2, <1>3, SubSeqProperties

\* Initially everything has its type.
LEMMA InitTypeOK == Init => TypeOK
<1> SUFFICES ASSUME Init PROVE TypeOK
  OBVIOUS
<1>1. deqQueue \in Seq(1..pushed) /\ handled \in Seq(1..pushed)
  BY DEF Init
<1>2. pc \in [Threads -> ProducerPC \cup ConsumerPC]
  BY DEF Init, ProducerPC, ConsumerPC
<1>3. /\ \A t \in Producers : pc[t] \in ProducerPC
      /\ pc[Consumer] \in ConsumerPC
  BY TSQueueAssumption DEF Init, ProducerPC, ConsumerPC, Threads
<1> QED
  BY <1>1, <1>2, <1>3, TSQueueAssumption DEF Init, TypeOK, Threads

USE DEF ProducerPC, ConsumerPC, Threads, locks, history, local, Woken, Empty,
        MoreAllowed, ReleaseBlocking

\* Every step keeps the types.
LEMMA NextTypeOK == TypeOK /\ [Next]_vars => TypeOK'
<1> SUFFICES ASSUME TypeOK, [Next]_vars PROVE TypeOK'
  OBVIOUS
<1> USE TSQueueAssumption
<1>1. ASSUME NEW t \in Producers, NEW end \in PushEnds, Push(t, end)
      PROVE  TypeOK'
  <2>1. /\ pushed' = pushed + 1
        /\ pushed' \in 0..MaxPushes
    BY <1>1 DEF TypeOK, Push
  <2>2. handled' \in Seq(1..pushed')
    BY <1>1, <2>1, SeqGrows DEF TypeOK, Push
  <2>3. deqQueue \in Seq(1..pushed') /\ pushed + 1 \in 1..pushed'
    BY <2>1, SeqGrows DEF TypeOK
  <2>4. deqQueue' \in Seq(1..pushed')
    BY <1>1, <2>3, InsertedProperties DEF Push
  <2> QED
    BY <1>1, <2>1, <2>2, <2>4 DEF TypeOK, Push, Goto
<1>2. ASSUME NEW t \in Producers, ProducerStep(t)
      PROVE  TypeOK'
  BY <1>2 DEF TypeOK, ProducerStep, LockBlocking, NotifyOne, Goto
<1>3. CASE UpdateStart
  BY <1>3 DEF TypeOK, UpdateStart, Goto
<1>4. CASE WaitEmpty
  BY <1>4 DEF TypeOK, WaitEmpty, Goto
<1>5. CASE WaitLock \/ CvWait \/ WaitRelock \/ WaitUnlock \/ SpuriousWakeup
  BY <1>5 DEF TypeOK, WaitLock, CvWait, WaitRelock, WaitUnlock, SpuriousWakeup, Goto
<1>6. CASE UpdateLoop
  BY <1>6 DEF TypeOK, UpdateLoop, Goto
<1>7. CASE HandleMessage
  BY <1>7 DEF TypeOK, HandleMessage, Goto
<1>8. ASSUME NEW end \in PopEnds, Pop(end)
      PROVE  TypeOK'
  <2>1. deqQueue \in Seq(1..pushed) /\ deqQueue # <<>>
    BY <1>8 DEF TypeOK, Pop
  <2>2. CASE end = "front"
    <3>0. Head(deqQueue) \in 1..pushed /\ Tail(deqQueue) \in Seq(1..pushed)
      BY <2>1, HeadTailProperties
    <3>1. deqQueue[1] \in 1..pushed /\ Tail(deqQueue) \in Seq(1..pushed)
      BY <2>1, <3>0
    <3>2. msg' = deqQueue[1] /\ deqQueue' = Tail(deqQueue)
      BY <1>8, <2>2 DEF Pop, Rest
    <3> QED
      BY <1>8, <3>1, <3>2 DEF TypeOK, Pop, Goto
  <2>3. CASE end = "back"
    <3>1. /\ deqQueue[Len(deqQueue)] \in 1..pushed
          /\ SubSeq(deqQueue, 1, Len(deqQueue) - 1) \in Seq(1..pushed)
      BY <2>1, FrontProperties
    <3> QED
      BY <1>8, <2>3, <3>1 DEF TypeOK, Pop, Goto, Rest
  <2> QED
    BY <1>8, <2>2, <2>3, TSQueueAssumption
<1>9. CASE UNCHANGED vars
  BY <1>9 DEF TypeOK, vars
<1> QED
  BY <1>1, <1>2, <1>3, <1>4, <1>5, <1>6, <1>7, <1>8, <1>9 DEF Next, ConsumerStep

\* Every variable of the queue and of its consumer keeps its type.
THEOREM TypeCorrect == Spec => []TypeOK
<1>1. Init => TypeOK
  BY InitTypeOK
<1>2. TypeOK /\ [Next]_vars => TypeOK'
  BY NextTypeOK
<1> QED
  BY <1>1, <1>2, PTL DEF Spec
-----------------------------------------------------------------------------
(* Mutual exclusion and lock order.                                        *)

\* Every step keeps the mutexes with the threads whose place says so.
LEMMA NextLockInv == TypeOK /\ LockInv /\ [Next]_vars => LockInv'
<1> SUFFICES ASSUME TypeOK, LockInv, [Next]_vars PROVE LockInv'
  OBVIOUS
<1> USE TSQueueAssumption
<1>1. ASSUME NEW t \in Producers, NEW end \in PushEnds, Push(t, end)
      PROVE  LockInv'
  BY <1>1 DEF TypeOK, LockInv, Push, Goto
<1>2. ASSUME NEW t \in Producers, LockBlocking(t)
      PROVE  LockInv'
  BY <1>2 DEF TypeOK, LockInv, LockBlocking, Goto
<1>3. ASSUME NEW t \in Producers, NotifyOne(t)
      PROVE  LockInv'
  <2>1. /\ muxQueue = t /\ muxBlocking = t
        /\ muxQueue' = Nobody /\ muxBlocking' = Nobody
    BY <1>3 DEF LockInv, NotifyOne
  <2>2. /\ pc'[t] = "idle"
        /\ \A u \in Producers \ {t} : pc'[u] = pc[u]
        /\ pc'[Consumer] = Woken(pc[Consumer])
    BY <1>3 DEF TypeOK, NotifyOne
  <2>3. \A u \in Threads \ {t} : pc[u] \notin {"pushed", "notify", "cvwait", "release"}
    BY <2>1 DEF LockInv
  <2>4. \A u \in Threads : pc'[u] \notin {"pushed", "notify", "cvwait", "release"}
    BY <2>2, <2>3
  <2> QED
    BY <2>1, <2>4 DEF LockInv
<1>4. CASE UpdateStart \/ WaitEmpty \/ UpdateLoop \/ SpuriousWakeup \/ HandleMessage
  BY <1>4 DEF TypeOK, LockInv, UpdateStart, WaitEmpty, UpdateLoop, SpuriousWakeup,
              HandleMessage, Goto
<1>5. CASE WaitLock \/ CvWait \/ WaitRelock \/ WaitUnlock
  BY <1>5 DEF TypeOK, LockInv, WaitLock, CvWait, WaitRelock, WaitUnlock, Goto
<1>6. ASSUME NEW end \in PopEnds, Pop(end)
      PROVE  LockInv'
  BY <1>6 DEF TypeOK, LockInv, Pop, Goto
<1>7. CASE UNCHANGED vars
  BY <1>7 DEF LockInv, vars
<1> QED
  BY <1>1, <1>2, <1>3, <1>4, <1>5, <1>6, <1>7 DEF Next, ConsumerStep, ProducerStep

\* The two mutexes exclude, and say where their holder is.
THEOREM MutexesExclude == Spec => [](TypeOK /\ LockInv)
<1>1. Init => LockInv
  BY TSQueueAssumption DEF Init, LockInv
<1>2. TypeOK /\ LockInv /\ [Next]_vars => LockInv'
  BY NextLockInv
<1> QED
  BY <1>1, <1>2, TypeCorrect, PTL DEF Spec

\* push_back, push_front and wait() cannot deadlock on their two mutexes:
\* the one thread that holds both is not blocked on either, and wait() holds
\* only muxBlocking, never while it is blocked on muxQueue.
THEOREM LocksNeverCycle == Spec => []NoLockCycle
<1>1. TypeOK /\ LockInv => NoLockCycle
  <2> SUFFICES ASSUME TypeOK, LockInv, NEW t \in Threads, NEW u \in Threads,
                      BlockedOn(t) = u, BlockedOn(u) = t
               PROVE  FALSE
    BY DEF NoLockCycle
  <2>1. t # Nobody /\ u # Nobody
    BY TSQueueAssumption
  <2>2. /\ pc[u] \in {"pushed", "notify", "cvwait", "release"}
        /\ pc[t] \in {"pushed", "notify", "cvwait", "release"}
    BY <2>1 DEF BlockedOn, LockInv
  <2>3. pc[u] = "pushed" /\ pc[t] = "pushed"
    BY <2>1, <2>2 DEF BlockedOn
  <2> QED
    BY <2>3 DEF BlockedOn, LockInv
<1> QED
  BY <1>1, MutexesExclude, PTL
-----------------------------------------------------------------------------
(* The gap between empty() and pop_front().                                *)

\* What empty() said to Update still holds when it pops.
LEMMA NextPopPrecondition ==
  TypeOK /\ PopPrecondition /\ [Next]_vars => PopPrecondition'
<1> SUFFICES ASSUME TypeOK, PopPrecondition, [Next]_vars PROVE PopPrecondition'
  OBVIOUS
<1> USE TSQueueAssumption
<1>1. ASSUME NEW t \in Producers, NEW end \in PushEnds, Push(t, end)
      PROVE  PopPrecondition'
  <2>1. deqQueue \in Seq(1..pushed + 1) /\ pushed + 1 \in 1..pushed + 1
    BY SeqGrows DEF TypeOK
  <2>2. deqQueue' = Inserted(deqQueue, end, pushed + 1)
    BY <1>1 DEF Push
  <2>3. Len(deqQueue') = Len(deqQueue) + 1
    <3> DEFINE S == 1..pushed + 1
    <3>1. deqQueue \in Seq(S) /\ pushed + 1 \in S
      BY <2>1
    <3> HIDE DEF S
    <3> QED
      BY <2>2, <3>1, InsertedProperties
  <2>4. Len(deqQueue) \in Nat
    BY <2>1
  <2>5. deqQueue' # <<>>
    BY <2>3, <2>4
  <2> QED
    BY <2>5 DEF PopPrecondition
<1>2. ASSUME NEW t \in Producers, ProducerStep(t)
      PROVE  PopPrecondition'
  BY <1>2 DEF TypeOK, PopPrecondition, ProducerStep, LockBlocking, NotifyOne, Goto
<1>3. CASE ConsumerStep \/ SpuriousWakeup
  BY <1>3 DEF TypeOK, PopPrecondition, ConsumerStep, SpuriousWakeup, UpdateStart,
              WaitEmpty, WaitLock, CvWait, WaitRelock, WaitUnlock, UpdateLoop,
              HandleMessage, Pop, Goto
<1>4. CASE UNCHANGED vars
  BY <1>4 DEF PopPrecondition, vars
<1> QED
  BY <1>1, <1>2, <1>3, <1>4 DEF Next

\* Update never calls front() on an empty deque.
THEOREM PopsFromNonEmpty == Spec => []PopPrecondition
<1>1. Init => PopPrecondition
  BY TSQueueAssumption DEF Init, PopPrecondition
<1>2. TypeOK /\ PopPrecondition /\ [Next]_vars => PopPrecondition'
  BY NextPopPrecondition
<1> QED
  BY <1>1, <1>2, TypeCorrect, PTL DEF Spec
-----------------------------------------------------------------------------
(* push_back with pop_front is a first-in first-out channel.               *)

Taken == Len(handled) + (IF pc[Consumer] = "handle" THEN 1 ELSE 0)

\* Item number i is handled, in hand or queued at the place its number says.
FifoInv ==
  /\ \A i \in 1..Len(handled) : handled[i] = i
  /\ pc[Consumer] = "handle" => msg = Taken
  /\ \A k \in 1..Len(deqQueue) : deqQueue[k] = Taken + k
  /\ pushed = Taken + Len(deqQueue)

\* Every step keeps the items in the order of their pushes.
LEMMA NextFifoInv ==
  ASSUME PushEnds \subseteq {"back"}, PopEnds \subseteq {"front"},
         TypeOK, FifoInv, [Next]_vars
  PROVE  FifoInv'
<1> USE TSQueueAssumption
<1>0. /\ Len(handled) \in Nat /\ Len(deqQueue) \in Nat /\ pushed \in Nat
      /\ Taken \in Nat
  BY DEF TypeOK, Taken
<1>1. ASSUME NEW t \in Producers, NEW end \in PushEnds, Push(t, end)
      PROVE  FifoInv'
  <2> DEFINE S == 1..pushed + 1
  <2>1. deqQueue \in Seq(S) /\ pushed + 1 \in S
    BY <1>0, SeqGrows DEF TypeOK
  <2>2. /\ deqQueue' = Inserted(deqQueue, "back", pushed + 1)
        /\ pushed' = pushed + 1
        /\ handled' = handled /\ msg' = msg
        /\ (pc'[Consumer] = "handle") = (pc[Consumer] = "handle")
    BY <1>1 DEF TypeOK, Push, Goto
  <2> HIDE DEF S
  <2>3. /\ Len(deqQueue') = Len(deqQueue) + 1
        /\ \A i \in 1..Len(deqQueue) + 1 :
             deqQueue'[i] = IF i <= Len(deqQueue) THEN deqQueue[i] ELSE pushed + 1
    BY <2>1, <2>2, InsertedProperties
  <2>4. Taken' = Taken
    BY <2>2 DEF Taken
  <2>5. \A k \in 1..Len(deqQueue') : deqQueue'[k] = Taken' + k
    <3> SUFFICES ASSUME NEW k \in 1..Len(deqQueue) + 1
                 PROVE  deqQueue'[k] = Taken + k
      BY <2>3, <2>4
    <3>1. CASE k <= Len(deqQueue)
      BY <1>0, <2>3, <3>1 DEF FifoInv
    <3>2. CASE k = Len(deqQueue) + 1
      BY <1>0, <2>3, <3>2 DEF FifoInv
    <3> QED
      BY <1>0, <3>1, <3>2
  <2>6. pushed' = Taken' + Len(deqQueue')
    BY <1>0, <2>2, <2>3, <2>4 DEF FifoInv
  <2> QED
    BY <2>2, <2>4, <2>5, <2>6 DEF FifoInv
<1>2. ASSUME NEW t \in Producers, ProducerStep(t)
      PROVE  FifoInv'
  <2>1. (pc'[Consumer] = "handle") = (pc[Consumer] = "handle")
    BY <1>2 DEF TypeOK, ProducerStep, LockBlocking, NotifyOne, Goto
  <2>2. UNCHANGED <<deqQueue, handled, msg, pushed>>
    BY <1>2 DEF ProducerStep, LockBlocking, NotifyOne
  <2> QED
    BY <2>1, <2>2 DEF FifoInv, Taken
<1>3. CASE \/ UpdateStart \/ WaitEmpty \/ WaitLock \/ CvWait \/ WaitRelock
           \/ WaitUnlock \/ UpdateLoop \/ SpuriousWakeup
  <2>1. pc'[Consumer] # "handle" /\ pc[Consumer] # "handle"
    BY <1>3 DEF TypeOK, UpdateStart, WaitEmpty, WaitLock, CvWait, WaitRelock,
                WaitUnlock, UpdateLoop, SpuriousWakeup, Goto
  <2>2. UNCHANGED <<deqQueue, handled, msg, pushed>>
    BY <1>3 DEF UpdateStart, WaitEmpty, WaitLock, CvWait, WaitRelock,
                WaitUnlock, UpdateLoop, SpuriousWakeup
  <2> QED
    BY <2>1, <2>2 DEF FifoInv, Taken
<1>4. CASE HandleMessage
  <2>1. /\ handled' = Append(handled, msg)
        /\ pc[Consumer] = "handle" /\ pc'[Consumer] # "handle"
        /\ UNCHANGED <<deqQueue, msg, pushed>>
    BY <1>4 DEF TypeOK, HandleMessage, Goto
  <2>2. handled \in Seq(1..pushed) /\ msg \in 1..pushed
    BY <2>1 DEF TypeOK
  <2>3. /\ Len(handled') = Len(handled) + 1
        /\ \A i \in 1..Len(handled) + 1 :
             handled'[i] = IF i <= Len(handled) THEN handled[i] ELSE msg
    BY <2>1, <2>2
  <2> QED
    BY <1>0, <2>1, <2>3 DEF FifoInv, Taken
<1>5. ASSUME NEW end \in PopEnds, Pop(end)
      PROVE  FifoInv'
  <2>0. end = "front"
    OBVIOUS
  <2>1. /\ msg' = deqQueue[1] /\ deqQueue' = Tail(deqQueue)
        /\ pc[Consumer] # "handle" /\ pc'[Consumer] = "handle"
        /\ deqQueue # <<>>
        /\ UNCHANGED <<handled, pushed>>
    BY <1>5, <2>0 DEF TypeOK, Pop, Goto, Rest
  <2>2. deqQueue \in Seq(1..pushed)
    BY DEF TypeOK
  <2>3. /\ Len(deqQueue) \in Nat \ {0}
        /\ Len(deqQueue') = Len(deqQueue) - 1
        /\ \A k \in 1..Len(deqQueue') : deqQueue'[k] = deqQueue[k + 1]
    BY <2>1, <2>2, HeadTailProperties
  <2> QED
    BY <1>0, <2>1, <2>3 DEF FifoInv, Taken
<1>6. CASE UNCHANGED vars
  BY <1>6 DEF FifoInv, Taken, vars
<1> QED
  BY <1>1, <1>2, <1>3, <1>4, <1>5, <1>6 DEF Next, ConsumerStep

\* Initially nothing was pushed.
LEMMA InitFifoInv == Init => FifoInv
BY TSQueueAssumption DEF Init, FifoInv, Taken

\* Every step of the queue is an Accept, a Deliver or a stutter.
LEMMA StepSimulation ==
  ASSUME TypeOK, FifoInv, FifoInv', [Next]_vars
  PROVE  [Chan!Next]_(Chan!chanVars)
<1> DEFINE sent == [i \in 1..pushed |-> i]
<1> USE TSQueueAssumption
<1>1. ASSUME NEW t \in Producers, NEW end \in PushEnds, Push(t, end)
      PROVE  Chan!Accept(pushed + 1) /\ pushed + 1 \in 1..MaxPushes
  <2>1. pushed' = pushed + 1 /\ handled' = handled /\ pushed \in Nat
    BY <1>1 DEF TypeOK, Push
  <2>2. sent' = Append(sent, pushed + 1)
    BY <2>1
  <2>3. pushed + 1 \in 1..MaxPushes
    BY <1>1, <2>1 DEF TypeOK, Push
  <2> QED
    BY <2>1, <2>2, <2>3 DEF Chan!Accept
<1>2. CASE HandleMessage
  <2>1. /\ Len(handled) + 1 <= pushed /\ Len(handled) \in Nat /\ pushed \in Nat
        /\ handled' = Append(handled, Len(handled) + 1) /\ pushed' = pushed
    BY <1>2 DEF TypeOK, FifoInv, Taken, HandleMessage
  <2>2. Len(sent) = pushed /\ sent[Len(handled) + 1] = Len(handled) + 1
    BY <2>1
  <2> QED
    BY <2>1, <2>2 DEF Chan!Deliver, Chan!Next
<1>3. ASSUME UNCHANGED <<pushed, handled>>
      PROVE  UNCHANGED Chan!chanVars
  BY <1>3 DEF Chan!chanVars
<1>4. ASSUME NEW t \in Producers, NEW end \in PushEnds, Push(t, end)
      PROVE  Chan!Next
  <2>1. Chan!Accept(pushed + 1) /\ pushed + 1 \in 1..MaxPushes
    BY <1>1, <1>4
  <2>2. \E m \in 1..MaxPushes : Chan!Accept(m)
    BY <2>1 DEF Chan!Accept
  <2> QED
    BY <2>2 DEF Chan!Next
<1>5. \/ \E t \in Producers, end \in PushEnds : Push(t, end)
      \/ HandleMessage
      \/ UNCHANGED <<pushed, handled>>
  BY DEF Next, ProducerStep, ConsumerStep, LockBlocking, NotifyOne, UpdateStart,
         WaitEmpty, WaitLock, CvWait, WaitRelock, WaitUnlock, UpdateLoop,
         SpuriousWakeup, Pop, vars
<1> QED
  BY <1>2, <1>3, <1>4, <1>5

\* Used as the framework uses it, push_back on one side and pop_front on the
\* other, the queue hands OnMessage the messages in the order of their
\* arrival, each once: TSQueue implements Channel.
THEOREM QueueIsChannel ==
  ASSUME PushEnds \subseteq {"back"}, PopEnds \subseteq {"front"}
  PROVE  Spec => ChannelSpec
<1>1. Init => Chan!Init
  BY DEF Init, Chan!Init
<1>2. TypeOK /\ FifoInv /\ [Next]_vars => FifoInv'
  BY NextFifoInv
<1>3. TypeOK /\ FifoInv /\ FifoInv' /\ [Next]_vars => [Chan!Next]_(Chan!chanVars)
  BY StepSimulation
<1> QED
  BY <1>1, <1>2, <1>3, InitFifoInv, TypeCorrect, PTL DEF Spec, ChannelSpec, Chan!Spec
-----------------------------------------------------------------------------
(* With any ends: every item is in one place.                              *)

In(i, s) == \E k \in 1..Len(s) : s[k] = i

\* As many places as items, and every item in one of them.
Placed ==
  /\ pushed = Taken + Len(deqQueue)
  /\ \A i \in 1..pushed : \/ In(i, handled)
                          \/ pc[Consumer] = "handle" /\ msg = i
                          \/ In(i, deqQueue)

\* What is in either of two sequences is in the two together.
LEMMA InConcat ==
  ASSUME NEW S, NEW s \in Seq(S), NEW t \in Seq(S), NEW i, In(i, s) \/ In(i, t)
  PROVE  In(i, s \o t)
<1>1. /\ Len(s) \in Nat /\ Len(t) \in Nat /\ Len(s \o t) = Len(s) + Len(t)
      /\ \A k \in 1..(Len(s) + Len(t)) : (s \o t)[k] = IF k <= Len(s) THEN s[k] ELSE t[k - Len(s)]
  BY ConcatProperties, LenProperties
<1>2. CASE In(i, s)
  <2>1. PICK k \in 1..Len(s) : s[k] = i
    BY <1>2 DEF In
  <2>2. k \in 1..(Len(s) + Len(t)) /\ k <= Len(s)
    BY <1>1
  <2>3. (s \o t)[k] = i
    BY <1>1, <2>1, <2>2
  <2> QED
    BY <1>1, <2>2, <2>3 DEF In
<1>3. CASE In(i, t)
  <2>1. PICK k \in 1..Len(t) : t[k] = i
    BY <1>3 DEF In
  <2> DEFINE j == Len(s) + k
  <2>2. j \in 1..(Len(s) + Len(t)) /\ ~ (j <= Len(s)) /\ j - Len(s) = k
    BY <1>1
  <2> HIDE DEF j
  <2>3. (s \o t)[j] = i
    BY <1>1, <2>1, <2>2
  <2> QED
    BY <1>1, <2>2, <2>3 DEF In
<1> QED
  BY <1>2, <1>3

\* The one item of a sequence of one.
LEMMA InOne ==
  ASSUME NEW S, NEW v \in S
  PROVE  <<v>> \in Seq(S) /\ Len(<<v>>) = 1 /\ In(v, <<v>>)
  BY DEF In

\* An insertion adds its item and keeps the others.
LEMMA InInserted ==
  ASSUME NEW S, NEW q \in Seq(S), NEW v \in S, NEW end, NEW i, In(i, q) \/ i = v
  PROVE  In(i, Inserted(q, end, v))
<1>1. <<v>> \in Seq(S) /\ In(v, <<v>>)
  BY InOne
<1>2. In(i, q) \/ In(i, <<v>>)
  BY <1>1
<1>3. In(i, q \o <<v>>) /\ In(i, <<v>> \o q)
  BY <1>1, <1>2, InConcat
<1>4. Append(q, v) = q \o <<v>>
  BY AppendIsConcat
<1> QED
  BY <1>3, <1>4 DEF Inserted

\* A removal at either end takes the item at that end and keeps the others.
LEMMA InRest ==
  ASSUME NEW S, deqQueue \in Seq(S), deqQueue # <<>>, NEW end
  PROVE  LET taken == deqQueue[IF end = "front" THEN 1 ELSE Len(deqQueue)]
         IN  /\ Len(Rest(end)) = Len(deqQueue) - 1
             /\ \A i : In(i, deqQueue) => i = taken \/ In(i, Rest(end))
<1> DEFINE n == Len(deqQueue)
<1>1. n \in Nat \ {0}
  BY EmptySeq
<1>2. CASE end = "front"
  <2>1. /\ Len(Tail(deqQueue)) = n - 1
        /\ \A k \in 1..(n - 1) : Tail(deqQueue)[k] = deqQueue[k + 1]
    BY HeadTailProperties
  <2>2. ASSUME NEW i, In(i, deqQueue), i # deqQueue[1]
        PROVE  In(i, Tail(deqQueue))
    <3>1. PICK k \in 1..n : deqQueue[k] = i
      BY <2>2 DEF In
    <3> DEFINE j == k - 1
    <3>2. j \in 1..(n - 1) /\ j + 1 = k
      BY <1>1, <2>2, <3>1
    <3> HIDE DEF j, n
    <3>3. Tail(deqQueue)[j] = i
      BY <2>1, <3>1, <3>2
    <3> QED
      BY <2>1, <3>2, <3>3 DEF In
  <2> QED
    BY <1>2, <2>1, <2>2 DEF Rest
<1>3. CASE end # "front"
  <2> DEFINE r == SubSeq(deqQueue, 1, n - 1)
  <2>1. n - 1 \in Int /\ \A k \in 1..(n - 1) : deqQueue[k] \in S
    BY <1>1, ElementOfSeq
  <2>2. Len(r) = n - 1 /\ \A k \in 1..(n - 1) : r[k] = deqQueue[k]
    <3> DEFINE m == n - 1
    <3>1. \A k \in 1..m : deqQueue[k] \in S
      BY <2>1
    <3>2. 1 \in Int /\ m \in Int /\ 1 <= m + 1 /\ m - 1 + 1 = m /\ m + 1 - 1 = m
      BY <1>1
    <3> HIDE DEF n, m
    <3>3. Len(SubSeq(deqQueue, 1, m)) = m /\ \A k \in 1..m : SubSeq(deqQueue, 1, m)[k] = deqQueue[k]
      BY <3>1, <3>2, SubSeqProperties
    <3> QED
      BY <3>3 DEF m
  <2> HIDE DEF r
  <2>3. ASSUME NEW i, In(i, deqQueue), i # deqQueue[n]
        PROVE  In(i, r)
    <3>1. PICK k \in 1..n : deqQueue[k] = i
      BY <2>3 DEF In
    <3>2. k \in 1..(n - 1)
      BY <1>1, <2>3, <3>1
    <3> QED
      BY <2>2, <3>1, <3>2 DEF In
  <2> QED
    BY <1>3, <2>2, <2>3 DEF Rest, r
<1> QED
  BY <1>2, <1>3

\* Every step leaves each item in some place, and as many places as items.
LEMMA NextPlaced ==
  ASSUME TypeOK, Placed, [Next]_vars
  PROVE  Placed'
<1> USE TSQueueAssumption
<1>0. /\ Len(handled) \in Nat /\ Len(deqQueue) \in Nat /\ pushed \in Nat /\ Taken \in Nat
      /\ deqQueue \in Seq(1..pushed) /\ handled \in Seq(1..pushed)
  BY DEF TypeOK, Taken
<1>1. ASSUME NEW t \in Producers, NEW end \in PushEnds, Push(t, end)
      PROVE  Placed'
  <2> DEFINE S == 1..pushed + 1
             v == pushed + 1
  <2>1. deqQueue \in Seq(S) /\ v \in S
    BY <1>0, SeqGrows
  <2>2. /\ deqQueue' = Inserted(deqQueue, end, v) /\ pushed' = v
        /\ handled' = handled /\ msg' = msg
        /\ (pc'[Consumer] = "handle") = (pc[Consumer] = "handle")
    BY <1>1 DEF TypeOK, Push, Goto
  <2>3. \A i \in 1..pushed' : i \in 1..pushed \/ i = v
    BY <1>0, <2>2
  <2> HIDE DEF S, v
  <2>4. Len(deqQueue') = Len(deqQueue) + 1
    BY <2>1, <2>2, InsertedProperties
  <2>5. \A i : In(i, deqQueue) \/ i = v => In(i, deqQueue')
    BY <2>1, <2>2, InInserted
  <2>6. Taken' = Taken
    BY <2>2 DEF Taken
  <2>7. pushed' = Taken' + Len(deqQueue')
    <3>1. pushed = Taken + Len(deqQueue)
      BY DEF Placed
    <3>2. pushed' = pushed + 1
      BY <2>2 DEF v
    <3> QED
      BY <1>0, <2>4, <2>6, <3>1, <3>2
  <2>8. ASSUME NEW i \in 1..pushed'
        PROVE  \/ In(i, handled')
               \/ pc'[Consumer] = "handle" /\ msg' = i
               \/ In(i, deqQueue')
    <3>1. CASE i \in 1..pushed
      BY <2>2, <2>5, <3>1 DEF Placed
    <3>2. CASE i = v
      BY <2>5, <3>2
    <3> QED
      BY <2>3, <3>1, <3>2
  <2> QED
    BY <2>7, <2>8 DEF Placed
<1>2. CASE HandleMessage
  <2>1. /\ handled' = Append(handled, msg)
        /\ pc[Consumer] = "handle" /\ pc'[Consumer] # "handle"
        /\ UNCHANGED <<deqQueue, msg, pushed>>
    BY <1>2 DEF TypeOK, HandleMessage, Goto
  <2>2. msg \in 1..pushed
    BY <2>1 DEF TypeOK
  <2> DEFINE S == 1..pushed
  <2>3. <<msg>> \in Seq(S) /\ In(msg, <<msg>>) /\ handled \in Seq(S)
    BY <1>0, <2>2, InOne
  <2> HIDE DEF S
  <2>4. handled' = handled \o <<msg>>
    BY <2>1, <2>2, <1>0, AppendIsConcat
  <2>5. \A i : In(i, handled) \/ In(i, <<msg>>) => In(i, handled')
    BY <2>3, <2>4, InConcat
  <2>6. Len(handled') = Len(handled) + 1
    BY <1>0, <2>1, <2>2
  <2>7. pushed' = Taken' + Len(deqQueue')
    BY <1>0, <2>1, <2>6 DEF Placed, Taken
  <2>8. ASSUME NEW i \in 1..pushed'
        PROVE  In(i, handled') \/ In(i, deqQueue')
    BY <2>1, <2>3, <2>5 DEF Placed
  <2> QED
    BY <2>7, <2>8 DEF Placed
<1>3. ASSUME NEW end \in PopEnds, Pop(end)
      PROVE  Placed'
  <2> DEFINE taken == deqQueue[IF end = "front" THEN 1 ELSE Len(deqQueue)]
  <2>1. /\ msg' = taken /\ deqQueue' = Rest(end) /\ deqQueue # <<>>
        /\ pc[Consumer] # "handle" /\ pc'[Consumer] = "handle"
        /\ UNCHANGED <<handled, pushed>>
    BY <1>3 DEF TypeOK, Pop, Goto
  <2>2. /\ Len(Rest(end)) = Len(deqQueue) - 1
        /\ \A i : In(i, deqQueue) => i = taken \/ In(i, Rest(end))
    BY <1>0, <2>1, InRest
  <2> HIDE DEF taken
  <2>3. pushed' = Taken' + Len(deqQueue')
    BY <1>0, <2>1, <2>2 DEF Placed, Taken
  <2>4. ASSUME NEW i \in 1..pushed'
        PROVE  \/ In(i, handled')
               \/ pc'[Consumer] = "handle" /\ msg' = i
               \/ In(i, deqQueue')
    <3>1. In(i, handled) \/ In(i, deqQueue)
      BY <2>1 DEF Placed
    <3> QED
      BY <2>1, <2>2, <3>1
  <2> QED
    BY <2>3, <2>4 DEF Placed
<1>4. ASSUME UNCHANGED <<deqQueue, handled, msg, pushed>>,
             (pc'[Consumer] = "handle") = (pc[Consumer] = "handle")
      PROVE  Placed'
  BY <1>4 DEF Placed, Taken
<1>5. ASSUME NEW t \in Producers, ProducerStep(t)
      PROVE  Placed'
  BY <1>4, <1>5 DEF TypeOK, ProducerStep, LockBlocking, NotifyOne, Goto
<1>6. CASE \/ UpdateStart \/ WaitEmpty \/ WaitLock \/ CvWait \/ WaitRelock
           \/ WaitUnlock \/ UpdateLoop \/ SpuriousWakeup
  <2>1. pc'[Consumer] # "handle" /\ pc[Consumer] # "handle"
    BY <1>6 DEF TypeOK, UpdateStart, WaitEmpty, WaitLock, CvWait, WaitRelock,
                WaitUnlock, UpdateLoop, SpuriousWakeup, Goto
  <2>2. UNCHANGED <<deqQueue, handled, msg, pushed>>
    BY <1>6 DEF UpdateStart, WaitEmpty, WaitLock, CvWait, WaitRelock,
                WaitUnlock, UpdateLoop, SpuriousWakeup
  <2> QED
    BY <1>4, <2>1, <2>2
<1>7. CASE UNCHANGED vars
  BY <1>4, <1>7 DEF vars
<1> QED
  BY <1>1, <1>2, <1>3, <1>5, <1>6, <1>7 DEF Next, ConsumerStep

\* Whatever ends the pushes and the pops use, and wherever the threads are,
\* every item pushed is handled, in Update's hands or queued, and there are no
\* more places taken than items: none is lost and none is there twice.
THEOREM NoneLostOrTwice == Spec => []NothingLostOrDuplicated
<1>1. Init => Placed
  BY TSQueueAssumption DEF Init, Placed, Taken
<1>2. TypeOK /\ Placed /\ [Next]_vars => Placed'
  BY NextPlaced
<1>3. TypeOK /\ Placed => NothingLostOrDuplicated
  <2> SUFFICES ASSUME TypeOK, Placed PROVE NothingLostOrDuplicated
    OBVIOUS
  <2> DEFINE S == 0..pushed
             hand == IF pc[Consumer] = "handle" THEN <<msg>> ELSE <<>>
             front == handled \o hand
  <2>1. /\ Len(handled) \in Nat /\ Len(deqQueue) \in Nat /\ pushed \in Nat
        /\ handled \in Seq(S) /\ deqQueue \in Seq(S) /\ msg \in S
    BY DEF TypeOK
  <2> HIDE DEF S
  <2>2. hand \in Seq(S) /\ Len(hand) = (IF pc[Consumer] = "handle" THEN 1 ELSE 0)
        /\ (pc[Consumer] = "handle" => In(msg, hand))
    BY <2>1, InOne, EmptySeq
  <2> HIDE DEF hand
  <2>3. front \in Seq(S) /\ Len(front) = Len(handled) + Len(hand)
    BY <2>1, <2>2, ConcatProperties
  <2>4. \A i : In(i, handled) \/ In(i, hand) => In(i, front)
    BY <2>1, <2>2, InConcat
  <2> HIDE DEF front
  <2>5. Everything = front \o deqQueue
    BY DEF Everything, front, hand
  <2>6. Len(Everything) = Len(front) + Len(deqQueue)
    BY <2>1, <2>3, <2>5, ConcatProperties
  <2>7. \A i : In(i, front) \/ In(i, deqQueue) => In(i, Everything)
    BY <2>1, <2>3, <2>5, InConcat
  <2>8. Len(Everything) = pushed
    BY <2>1, <2>2, <2>3, <2>6 DEF Placed, Taken
  <2>9. \A i \in 1..pushed : In(i, Everything)
    BY <2>2, <2>4, <2>7 DEF Placed
  <2> QED
    BY <2>8, <2>9 DEF NothingLostOrDuplicated, In
<1> QED
  BY <1>1, <1>2, <1>3, TypeCorrect, PTL DEF Spec
=============================================================================
