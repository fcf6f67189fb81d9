------------------------------ MODULE TSQueue ------------------------------
(***************************************************************************)
(* tsqueue<T> (net_tsqueue.h): a deque behind one mutex, muxQueue, with a  *)
(* condition variable that has a mutex of its own, muxBlocking; together   *)
(* with the one loop that consumes it, server_interface::Update            *)
(* (net_server.h), which SimpleServer calls for ever.                      *)
(*                                                                         *)
(* One action per critical section or per blocking call, so that every     *)
(* interleaving the two mutexes allow is a behaviour.  An item is the      *)
(* number of the push that inserted it.                                    *)
(***************************************************************************)
EXTENDS Naturals, Sequences

CONSTANTS Producers,    \* the threads that push
          Consumer,     \* the thread that runs Update
          Nobody,       \* the holder of a free mutex
          PushEnds,     \* which of "back", "front" the pushes use
          PopEnds,      \* which of "front", "back" the pops use
          BWait,        \* the parameter bWait of Update
          NMaxMessages, \* the parameter nMaxMessages of Update
          MaxPushes     \* bound of the model on the number of pushes

ASSUME TSQueueAssumption ==
  /\ Consumer \notin Producers
  /\ Nobody \notin Producers \cup {Consumer}
  /\ PushEnds \subseteq {"back", "front"}
  /\ PopEnds \subseteq {"back", "front"}
  /\ BWait \in BOOLEAN
  /\ NMaxMessages \in Nat
  /\ MaxPushes \in Nat

Threads == Producers \cup {Consumer}

VARIABLES muxQueue, muxBlocking,  \* holder of each mutex, or Nobody
          deqQueue,               \* the deque
          pc,                     \* where each thread is
          nMessageCount,          \* Update's local counter
          msg,                    \* Update's local message (0: none yet)
          pushed,                 \* history: how many items were pushed
          handled                 \* history: the items given to OnMessage

vars == <<muxQueue, muxBlocking, deqQueue, pc, nMessageCount, msg, pushed, handled>>
locks == <<muxQueue, muxBlocking>>
history == <<pushed, handled>>
local == <<nMessageCount, msg>>

ProducerPC == {"idle", "pushed", "notify"}
ConsumerPC == {"update", "empty", "block", "cvwait", "waiting", "wakeup",
               "release", "loop", "pop", "handle"}

Goto(t, label) == pc' = [pc EXCEPT ![t] = label]

Init ==
  /\ muxQueue = Nobody
  /\ muxBlocking = Nobody
  /\ deqQueue = <<>>
  /\ pc = [t \in Threads |-> IF t = Consumer THEN "update" ELSE "idle"]
  /\ nMessageCount = 0
  /\ msg = 0
  /\ pushed = 0
  /\ handled = <<>>
-----------------------------------------------------------------------------
(* push_back and push_front: lock_guard on muxQueue, insert, then a        *)
(* unique_lock on muxBlocking for notify_one.  muxQueue is held throughout.*)

\* Faulty: the ends swapped.
InsertedWrongEnd(q, end, v) == IF end = "back" THEN <<v>> \o q ELSE Append(q, v)

\* Faulty: not the item that was given.
InsertedOther(q, end, v) == IF end = "back" THEN Append(q, v + 1) ELSE <<v + 1>> \o q
Inserted(q, end, v) == IF end = "back" THEN Append(q, v) ELSE <<v>> \o q

Push(t, end) ==
  /\ pc[t] = "idle"
  /\ pushed < MaxPushes
  /\ muxQueue = Nobody
  /\ muxQueue' = t
  /\ pushed' = pushed + 1
  /\ deqQueue' = Inserted(deqQueue, end, pushed + 1)
  /\ Goto(t, "pushed")
  /\ UNCHANGED <<muxBlocking, local, handled>>

LockBlocking(t) ==
  /\ pc[t] = "pushed"
  /\ muxBlocking = Nobody
  /\ muxBlocking' = t
  /\ Goto(t, "notify")
  /\ UNCHANGED <<muxQueue, deqQueue, local, history>>

\* Faulty: a push that does not notify.
NotWoken(label) == label
Woken(label) == IF label = "waiting" THEN "wakeup" ELSE label

\* notify_one moves a waiting thread out of the condition variable; with
\* nobody waiting it is remembered by no one.
NotifyOne(t) ==
  /\ pc[t] = "notify"
  /\ pc' = [pc EXCEPT ![t] = "idle",
                      ![Consumer] = Woken(@)]
  /\ muxQueue' = Nobody
  /\ muxBlocking' = Nobody
  /\ UNCHANGED <<deqQueue, local, history>>

ProducerStep(t) == LockBlocking(t) \/ NotifyOne(t)
-----------------------------------------------------------------------------
(* Update(nMaxMessages, bWait) and the wait() it calls.                    *)

UpdateStart ==
  /\ pc[Consumer] = "update"
  /\ nMessageCount' = 0
  /\ Goto(Consumer, IF BWait THEN "empty" ELSE "loop")
  /\ UNCHANGED <<locks, deqQueue, msg, history>>

\* Faulty: what empty() said once is believed from then on.
NeverEmpty == FALSE
Empty == deqQueue = <<>>

\* wait(): while (empty()).  empty() takes and releases muxQueue only.
WaitEmpty ==
  /\ pc[Consumer] = "empty"
  /\ muxQueue = Nobody
  /\ Goto(Consumer, IF Empty THEN "block" ELSE "loop")
  /\ UNCHANGED <<locks, deqQueue, local, history>>

WaitLock ==
  /\ pc[Consumer] = "block"
  /\ muxBlocking = Nobody
  /\ muxBlocking' = Consumer
  /\ Goto(Consumer, "cvwait")
  /\ UNCHANGED <<muxQueue, deqQueue, local, history>>

\* cvBlocking.wait(ul) without a predicate: release and sleep, atomically.
CvWait ==
  /\ pc[Consumer] = "cvwait"
  /\ muxBlocking' = Nobody
  /\ Goto(Consumer, "waiting")
  /\ UNCHANGED <<muxQueue, deqQueue, local, history>>

SpuriousWakeup ==
  /\ pc[Consumer] = "waiting"
  /\ Goto(Consumer, "wakeup")
  /\ UNCHANGED <<locks, deqQueue, local, history>>

WaitRelock ==
  /\ pc[Consumer] = "wakeup"
  /\ muxBlocking = Nobody
  /\ muxBlocking' = Consumer
  /\ Goto(Consumer, "release")
  /\ UNCHANGED <<muxQueue, deqQueue, local, history>>

\* Faulty: the unique_lock hoisted out of the loop of wait().
KeepBlocking == UNCHANGED muxBlocking
ReleaseBlocking == muxBlocking' = Nobody

WaitUnlock ==
  /\ pc[Consumer] = "release"
  /\ ReleaseBlocking
  /\ Goto(Consumer, "empty")
  /\ UNCHANGED <<muxQueue, deqQueue, local, history>>

MoreAllowed == nMessageCount < NMaxMessages

\* while (nMessageCount < nMaxMessages && !m_qMessagesIn.empty())
UpdateLoop ==
  /\ pc[Consumer] = "loop"
  /\ IF MoreAllowed
     THEN /\ muxQueue = Nobody
          /\ Goto(Consumer, IF Empty THEN "update" ELSE "pop")
     ELSE Goto(Consumer, "update")
  /\ UNCHANGED <<locks, deqQueue, local, history>>

\* Faulty: the item is read and stays.
RestWhole(end) == deqQueue
Rest(end) == IF end = "front" THEN Tail(deqQueue) ELSE SubSeq(deqQueue, 1, Len(deqQueue) - 1)

\* pop_front and pop_back; on an empty deque front() is undefined, so the
\* step exists only where its precondition holds (see PopPrecondition).
Pop(end) ==
  /\ pc[Consumer] = "pop"
  /\ muxQueue = Nobody
  /\ deqQueue # <<>>
  /\ msg' = deqQueue[IF end = "front" THEN 1 ELSE Len(deqQueue)]
  /\ deqQueue' = Rest(end)
  /\ Goto(Consumer, "handle")
  /\ UNCHANGED <<locks, nMessageCount, history>>

HandleMessage ==
  /\ pc[Consumer] = "handle"
  /\ handled' = Append(handled, msg)
  /\ nMessageCount' = nMessageCount + 1
  /\ Goto(Consumer, "loop")
  /\ UNCHANGED <<locks, deqQueue, msg, pushed>>

ConsumerStep ==
  \/ UpdateStart \/ WaitEmpty \/ WaitLock \/ CvWait \/ WaitRelock \/ WaitUnlock
  \/ UpdateLoop \/ HandleMessage
  \/ \E end \in PopEnds : Pop(end)
-----------------------------------------------------------------------------
Next ==
  \/ \E t \in Producers, end \in PushEnds : Push(t, end)
  \/ \E t \in Producers : ProducerStep(t)
  \/ ConsumerStep
  \/ SpuriousWakeup

Spec == Init /\ [][Next]_vars

\* The scheduler runs every thread that can run; nobody has to push, and a
\* spurious wakeup is never owed.
Fairness ==
  /\ \A t \in Producers : WF_vars(ProducerStep(t))
  /\ WF_vars(ConsumerStep)

FairSpec == Spec /\ Fairness
-----------------------------------------------------------------------------
(* Properties                                                              *)

TypeOK ==
  /\ muxQueue \in Threads \cup {Nobody}
  /\ muxBlocking \in Threads \cup {Nobody}
  /\ deqQueue \in Seq(1..pushed)
  /\ pc \in [Threads -> ProducerPC \cup ConsumerPC]
  /\ \A t \in Producers : pc[t] \in ProducerPC
  /\ pc[Consumer] \in ConsumerPC
  /\ nMessageCount \in Nat
  /\ msg \in 0..pushed
  /\ pc[Consumer] = "handle" => msg # 0
  /\ pushed \in 0..MaxPushes
  /\ handled \in Seq(1..pushed)

\* Update tests empty() in one critical section and pops in another: nothing
\* that runs between the two may empty the deque, or pop_front would call
\* front() on an empty deque (net_server.h:188-191, net_tsqueue.h:82-88).
PopPrecondition == pc[Consumer] = "pop" => deqQueue # <<>>

\* The holder of the mutex thread t is blocked on, or Nobody.
BlockedOn(t) ==
  IF pc[t] \in {"pushed", "block", "wakeup"} THEN muxBlocking
  ELSE IF pc[t] \in {"idle", "empty", "loop", "pop"} THEN muxQueue
  ELSE Nobody

\* The two mutexes of a push are nested (muxQueue, then muxBlocking); wait()
\* takes both as well, and must never do so in the opposite order: no two
\* threads each hold the mutex the other is blocked on.
NoLockCycle ==
  \A t, u \in Threads : ~ (BlockedOn(t) = u /\ BlockedOn(u) = t)

\* All items, handled ones first, then the one in Update's hands, then the
\* queued ones.
Everything ==
  handled \o (IF pc[Consumer] = "handle" THEN <<msg>> ELSE <<>>) \o deqQueue

\* Whatever ends are used, and wherever the threads are, each pushed item is
\* in exactly one place: none is lost between deque, local variable and
\* handler, and none is handled twice.
NothingLostOrDuplicated ==
  /\ Len(Everything) = pushed
  /\ \A i \in 1..pushed : \E k \in 1..Len(Everything) : Everything[k] = i

\* push_back with pop_front is a first-in first-out channel from the pushing
\* threads to OnMessage (the refinement of Channel).
Chan == INSTANCE Channel WITH Item <- 1..MaxPushes,
                              sent <- [i \in 1..pushed |-> i],
                              delivered <- handled
ChannelSpec == Chan!Spec

\* A push made while Update sleeps in wait() wakes it, and Update then
\* empties the queue: the notification cannot be missed by a thread that is
\* already in cvBlocking.wait (net_tsqueue.h:32-39, 72-79).
WakeupDrains ==
  \A t \in Producers :
    (pc[Consumer] = "waiting" /\ pc[t] = "pushed") ~> (deqQueue = <<>>)

\* Every message that arrives is handled: what net_server.h:212 says of
\* OnMessage ("Called when a message arrives").
ArrivedIsHandled ==
  \A i \in 1..MaxPushes :
    (pushed >= i) ~> (\E k \in 1..Len(handled) : handled[k] = i)
=============================================================================
