------------------------- MODULE SelectServerProofs -------------------------
(***************************************************************************)
(* Proofs about SelectServer, for both programs, any number of clients and *)
(* descriptors and any sizes: the types; the loop never calls a function   *)
(* that blocks, and it reaches every descriptor as long as they fit into   *)
(* 16 bits; masterfds holds the connections there are; the owner knows     *)
(* each by its number; and what it is handed of a client is the client's.  *)
(***************************************************************************)
EXTENDS SelectServer, SequenceTheorems, NatSets, TLAPS

\* The types the proofs need.
LoopTypes ==
  /\ program \in {"NewServer", "Server"}
  /\ masterfds \subseteq Fds \cup {Master}
  /\ tempfds \subseteq Fds \cup {Master}
  /\ maxfd \in Nat /\ fd \in Nat
  /\ backlog \in Seq(Clients)
  /\ conn \in [Fds -> Clients \cup {None}]
  /\ client \in [Clients -> {"out", "running", "refused", "left", "reset"}]
  /\ sent \in [Clients -> Nat] /\ read \in [Clients -> Nat]

\* A client is at one place: waiting once, or at one descriptor, and not before
\* it called connect.
OnePlace ==
  /\ \A f, g \in Open : conn[f] = conn[g] => f = g
  /\ \A i \in 1..Len(backlog), f \in Fds : conn[f] # backlog[i]
  /\ \A i, j \in 1..Len(backlog) : backlog[i] = backlog[j] => i = j
  /\ \A i \in 1..Len(backlog) : client[backlog[i]] # "out"
  /\ \A f \in Open : client[conn[f]] # "out"

\* What select found readable is readable until the loop comes to it.
StillReadable ==
  mode = "scan" /\ master = "listening" =>
    \A f \in tempfds : fd <= f => Readable(f)

BlockInv == LoopTypes /\ OnePlace /\ StillReadable

USE DEF loop, kernel, peers, reports

\* What the proofs use of the assumptions on the constants.
LEMMA Constants ==
  /\ Fds \subseteq Nat /\ Master \in Nat /\ Master \notin Fds
  /\ Width \in Nat /\ Width > 0 /\ Master < Width
  /\ MessageSize \in Nat /\ MessageSize > 0
  /\ None \notin Clients
BY SelectServerAssumption DEF SelectServerAssumption

\* What Tail leaves.
LEMMA TailItems ==
  ASSUME NEW S, NEW s \in Seq(S), s # <<>>
  PROVE  /\ Head(s) \in S /\ Head(s) = s[1] /\ 1 \in 1..Len(s)
         /\ Tail(s) \in Seq(S) /\ Len(Tail(s)) = Len(s) - 1
         /\ \A i \in 1..Len(Tail(s)) : i + 1 \in 1..Len(s) /\ Tail(s)[i] = s[i + 1]
BY HeadTailProperties

\* Init has nothing to scan.
LEMMA InitBlockInv == Init => BlockInv
<1> SUFFICES ASSUME Init PROVE BlockInv
  OBVIOUS
<1> USE Constants
<1>1. LoopTypes
  BY SelectServerAssumption DEF Init, LoopTypes, SelectServerAssumption
<1>2. OnePlace
  BY DEF Init, OnePlace, Open
<1>3. StillReadable
  BY DEF Init, StillReadable
<1> QED
  BY <1>1, <1>2, <1>3 DEF BlockInv

Places == Fds \cup {Master}
ClientStates == {"out", "running", "refused", "left", "reset"}

\* The types are kept.
LEMMA NextLoopTypes == LoopTypes /\ [Next]_vars => LoopTypes'
<1> SUFFICES ASSUME LoopTypes, [Next]_vars PROVE LoopTypes'
  OBVIOUS
<1>a. /\ backlog \in Seq(Clients)
      /\ conn \in [Fds -> Clients \cup {None}]
      /\ client \in [Clients -> ClientStates]
      /\ sent \in [Clients -> Nat] /\ read \in [Clients -> Nat]
      /\ maxfd \in Nat /\ fd \in Nat
      /\ masterfds \subseteq Places /\ tempfds \subseteq Places
  BY DEF LoopTypes, Places, ClientStates
<1>b. <<>> \in Seq(Clients)
  OBVIOUS
<1>c. ASSUME NEW f, f \in Places, Visit(f) PROVE fd' \in Nat
  BY <1>c, Constants DEF Visit, Places
<1>1. ASSUME NEW c \in Clients, Connect(c) PROVE LoopTypes'
  <2>1. UNCHANGED <<program, mode, masterfds, tempfds, maxfd, fd, conn, sent, read>>
    BY <1>1 DEF Connect
  <2>2. client' \in [Clients -> ClientStates]
    BY <1>1, <1>a DEF Connect, ClientStates
  <2>3. backlog' = Append(backlog, c) \/ backlog' = backlog
    BY <1>1 DEF Connect
  <2>4. Append(backlog, c) \in Seq(Clients)
    BY <1>a, AppendProperties
  <2>5. backlog' \in Seq(Clients)
    BY <2>3, <2>4, <1>a
  <2> QED
    BY <2>1, <2>2, <2>5 DEF LoopTypes, ClientStates
<1>2. ASSUME NEW c \in Clients, Turn(c) \/ Leave(c) PROVE LoopTypes'
  <2>1. UNCHANGED <<program, mode, masterfds, tempfds, maxfd, fd, conn, backlog>>
    BY <1>2 DEF Turn, Leave
  <2>2. client' \in [Clients -> ClientStates]
    BY <1>2, <1>a DEF Turn, Leave, ClientStates
  <2>3. /\ \/ sent' = sent
           \/ sent' = [sent EXCEPT ![c] = @ + MessageSize]
           \/ sent' = [sent EXCEPT ![c] = MessageSize]
        /\ read' = read \/ read' = [read EXCEPT ![c] = 0]
    BY <1>2 DEF Turn, SendNext, Leave
  <2>4. sent' \in [Clients -> Nat]
    <3>1. \A d \in Clients : sent[d] + MessageSize \in Nat /\ MessageSize \in Nat
      BY <1>a, Constants
    <3> QED
      BY <2>3, <3>1, <1>a
  <2>5. read' \in [Clients -> Nat]
    BY <2>3, <1>a
  <2> QED
    BY <2>1, <2>2, <2>4, <2>5 DEF LoopTypes, ClientStates
<1>3. CASE Shutdown
  <2>1. UNCHANGED <<program, mode, masterfds, tempfds, maxfd, fd, conn, client, sent, read>>
    BY <1>3 DEF Shutdown
  <2>2. backlog' = <<>>
    BY <1>3 DEF Shutdown, CloseMaster
  <2> QED
    BY <2>1, <2>2, <1>b DEF LoopTypes
<1>4. CASE Select \/ SelectFails \/ ScanDone
  <2>1. UNCHANGED <<program, masterfds, maxfd, conn, client, sent, read>>
    BY <1>4 DEF Select, SelectFails, ScanDone
  <2>2. backlog' = <<>> \/ backlog' = backlog
    BY <1>4 DEF Select, SelectFails, ScanDone, CloseMaster
  <2>3. tempfds' \subseteq tempfds \cup masterfds /\ fd' \in {0, fd}
    BY <1>4 DEF Select, SelectFails, ScanDone, Selected
  <2>4. fd' \in Nat /\ tempfds' \subseteq Places
    BY <2>3, <1>a
  <2>5. backlog' \in Seq(Clients)
    BY <2>2, <1>a, <1>b
  <2> QED
    BY <2>1, <2>4, <2>5 DEF LoopTypes, Places
<1>5. CASE AcceptClient
  <2>1. PICK f \in Fds \ Open :
          /\ conn' = [conn EXCEPT ![f] = Head(backlog)]
          /\ Watch(f)
          /\ maxfd' = Raised(f)
    BY <1>5 DEF AcceptClient
  <2>2. /\ UNCHANGED <<program, tempfds, client, sent, read>>
        /\ backlog # <<>> /\ backlog' = Tail(backlog) /\ Visit(Master)
    BY <1>5 DEF AcceptClient
  <2>3. Head(backlog) \in Clients /\ Tail(backlog) \in Seq(Clients)
    BY <2>2, <1>a, TailItems
  <2>4. conn' \in [Fds -> Clients \cup {None}]
    BY <2>1, <2>3, <1>a
  <2>5. maxfd' \in Nat
    BY <2>1, <1>a, Constants DEF Raised, Truncated
  <2>6. masterfds' \subseteq Places
    BY <2>1, <1>a DEF Watch, Places
  <2>7. fd' \in Nat
    BY <2>2, <1>c DEF Places
  <2> QED
    BY <2>2, <2>3, <2>4, <2>5, <2>6, <2>7 DEF LoopTypes, Places
<1>6. CASE AcceptFails
  <2>1. UNCHANGED <<program, masterfds, tempfds, maxfd, conn, client, sent, read>>
    BY <1>6 DEF AcceptFails
  <2>2. fd' \in Nat
    BY <1>6, <1>c DEF AcceptFails, Places
  <2>3. backlog' = backlog \/ (backlog # <<>> /\ backlog' = Tail(backlog))
    BY <1>6 DEF AcceptFails
  <2>4. backlog' \in Seq(Clients)
    <3>1. backlog # <<>> => Tail(backlog) \in Seq(Clients)
      BY <1>a, TailItems
    <3> QED
      BY <2>3, <3>1, <1>a
  <2> QED
    BY <2>1, <2>2, <2>4 DEF LoopTypes
<1>7. ASSUME NEW f \in Fds, RecvSome(f) PROVE LoopTypes'
  <2>1. UNCHANGED <<program, masterfds, tempfds, maxfd, backlog, conn, client, sent>>
    BY <1>7 DEF RecvSome
  <2>2. fd' \in Nat
    BY <1>7, <1>c DEF RecvSome, Places
  <2>3. PICK n \in Amounts(conn[f]) : read' = [read EXCEPT ![conn[f]] = @ + n]
    BY <1>7 DEF RecvSome
  <2>4. conn[f] \in Clients
    BY <1>7, <1>a DEF RecvSome, Open
  <2>5. n \in Int /\ n >= 1
    BY <2>3 DEF Amounts
  <2>6. read' \in [Clients -> Nat]
    BY <2>3, <2>4, <2>5, <1>a
  <2> QED
    BY <2>1, <2>2, <2>6 DEF LoopTypes
<1>8. ASSUME NEW f \in Fds, RecvEnd(f) \/ RecvError(f) PROVE LoopTypes'
  <2>1. UNCHANGED <<program, tempfds, maxfd, client, sent, read>>
    BY <1>8 DEF RecvEnd, RecvError
  <2>2. fd' \in Nat
    BY <1>8, <1>c DEF RecvEnd, RecvError, Places
  <2>3. CloseOrEnd(f)
    BY <1>8 DEF RecvEnd, RecvError
  <2>4. conn' \in [Fds -> Clients \cup {None}]
    BY <2>3, <1>a DEF CloseOrEnd, CloseClient, EndProgram
  <2>5. masterfds' \subseteq masterfds /\ (backlog' = <<>> \/ backlog' = backlog)
    BY <2>3 DEF CloseOrEnd, CloseClient, EndProgram, CloseMaster
  <2> QED
    BY <2>1, <2>2, <2>4, <2>5, <1>b DEF LoopTypes
<1>9. CASE UNCHANGED vars
  BY <1>9 DEF vars, LoopTypes
<1> QED
  BY <1>1, <1>2, <1>3, <1>4, <1>5, <1>6, <1>7, <1>8, <1>9 DEF Next, Loop
-----------------------------------------------------------------------------
(* The loop never blocks.  *)

\* A step after which nobody is at a new place.
LEMMA NoNewPlace ==
  ASSUME LoopTypes, OnePlace,
         \A f \in Fds : conn'[f] = conn[f] \/ conn'[f] = None,
         \/ backlog' = backlog
         \/ backlog' = <<>>
         \/ backlog # <<>> /\ backlog' = Tail(backlog),
         \A c \in Clients : client[c] # "out" => client'[c] # "out"
  PROVE  OnePlace'
<1>1. /\ backlog \in Seq(Clients)
      /\ conn \in [Fds -> Clients \cup {None}]
  BY DEF LoopTypes
<1>2. \A i \in 1..Len(backlog) : backlog[i] \in Clients
  BY <1>1, ElementOfSeq
<1>3. PICK d \in {0, 1} : \A i \in 1..Len(backlog') :
        i + d \in 1..Len(backlog) /\ backlog'[i] = backlog[i + d]
  <2>1. CASE backlog' = backlog
    BY <2>1, <1>1
  <2>2. CASE backlog' = <<>>
    BY <2>2
  <2>3. CASE backlog # <<>> /\ backlog' = Tail(backlog)
    BY <2>3, <1>1, TailItems
  <2> QED
    BY <2>1, <2>2, <2>3
<1>4. Open' \subseteq Open /\ \A f \in Open' : conn'[f] = conn[f] /\ conn[f] \in Clients
  BY <1>1 DEF Open
<1>5. \A f, g \in Open' : conn'[f] = conn'[g] => f = g
  BY <1>4 DEF OnePlace
<1>6. \A i \in 1..Len(backlog'), f \in Fds : conn'[f] # backlog'[i]
  <2> TAKE i \in 1..Len(backlog'), f \in Fds
  <2>1. i + d \in 1..Len(backlog) /\ backlog'[i] = backlog[i + d]
    BY <1>3
  <2>2. conn[f] # backlog[i + d]
    BY <2>1 DEF OnePlace
  <2>3. backlog[i + d] # None
    BY <2>1, <1>2, Constants
  <2> QED
    BY <2>1, <2>2, <2>3
<1>7. \A i, j \in 1..Len(backlog') : backlog'[i] = backlog'[j] => i = j
  BY <1>3 DEF OnePlace
<1>8. \A i \in 1..Len(backlog') : client'[backlog'[i]] # "out"
  BY <1>2, <1>3 DEF OnePlace
<1>9. \A f \in Open' : client'[conn'[f]] # "out"
  BY <1>4 DEF OnePlace
<1> QED
  BY <1>5, <1>6, <1>7, <1>8, <1>9 DEF OnePlace

\* A client is at no second place.
LEMMA NextOnePlace == LoopTypes /\ OnePlace /\ [Next]_vars => OnePlace'
<1> SUFFICES ASSUME LoopTypes, OnePlace, [Next]_vars PROVE OnePlace'
  OBVIOUS
<1>a. /\ backlog \in Seq(Clients)
      /\ conn \in [Fds -> Clients \cup {None}]
      /\ client \in [Clients -> ClientStates]
  BY DEF LoopTypes, ClientStates
<1>1. ASSUME NEW c \in Clients, Connect(c) PROVE OnePlace'
  <2>1. /\ UNCHANGED conn
        /\ client[c] = "out"
        /\ client' = [client EXCEPT ![c] = client'[c]]
        /\ client'[c] # "out"
        /\ backlog' = Append(backlog, c) \/ backlog' = backlog
    BY <1>1, <1>a DEF Connect
  <2>2. CASE backlog' = backlog
    BY <2>1, <2>2, <1>a, NoNewPlace
  <2>3. CASE backlog' = Append(backlog, c)
    <3>1. /\ Len(backlog') = Len(backlog) + 1 /\ Len(backlog) \in Nat
          /\ backlog'[Len(backlog) + 1] = c
          /\ \A i \in 1..Len(backlog) : backlog'[i] = backlog[i] /\ backlog[i] \in Clients
      BY <2>3, <1>a, AppendProperties, ElementOfSeq
    <3>2. \A i \in 1..Len(backlog') : i = Len(backlog) + 1 \/ i \in 1..Len(backlog)
      BY <3>1
    <3>3. \A i \in 1..Len(backlog) : backlog[i] # c
      BY <2>1 DEF OnePlace
    <3>4. \A f \in Open : conn[f] # c /\ conn[f] \in Clients
      BY <2>1, <1>a DEF OnePlace, Open
    <3>5. \A f \in Fds : conn[f] # c
      BY <3>4, Constants DEF Open
    <3>6. Open' = Open
      BY <2>1 DEF Open
    <3>7. \A i \in 1..Len(backlog'), f \in Fds : conn'[f] # backlog'[i]
      BY <2>1, <3>1, <3>2, <3>5 DEF OnePlace
    <3>8. \A i, j \in 1..Len(backlog') : backlog'[i] = backlog'[j] => i = j
      BY <3>1, <3>2, <3>3 DEF OnePlace
    <3>9. \A i \in 1..Len(backlog') : client'[backlog'[i]] # "out"
      BY <2>1, <3>1, <3>2, <1>a DEF OnePlace
    <3>10. \A f \in Open' : client'[conn'[f]] # "out"
      BY <2>1, <3>4, <3>6, <1>a DEF OnePlace
    <3>11. \A f, g \in Open' : conn'[f] = conn'[g] => f = g
      BY <2>1, <3>6 DEF OnePlace
    <3> QED
      BY <3>7, <3>8, <3>9, <3>10, <3>11 DEF OnePlace
  <2> QED
    BY <2>1, <2>2, <2>3
<1>2. ASSUME NEW c \in Clients, Turn(c) \/ Leave(c) PROVE OnePlace'
  <2>1. UNCHANGED <<conn, backlog>>
    BY <1>2 DEF Turn, Leave
  <2>2. \A d \in Clients : client[d] # "out" => client'[d] # "out"
    BY <1>2, <1>a DEF Turn, Leave
  <2> QED
    BY <2>1, <2>2, NoNewPlace
<1>3. CASE Shutdown
  BY <1>3, NoNewPlace DEF Shutdown, CloseMaster
<1>4. CASE Select \/ SelectFails \/ ScanDone
  <2>1. UNCHANGED <<conn, client>> /\ (backlog' = <<>> \/ backlog' = backlog)
    BY <1>4 DEF Select, SelectFails, ScanDone, CloseMaster
  <2> QED
    BY <2>1, NoNewPlace
<1>5. CASE AcceptClient
  <2>1. PICK f \in Fds \ Open : conn' = [conn EXCEPT ![f] = Head(backlog)]
    BY <1>5 DEF AcceptClient
  <2>2. UNCHANGED client /\ backlog # <<>> /\ backlog' = Tail(backlog)
    BY <1>5 DEF AcceptClient
  <2>3. /\ Head(backlog) \in Clients /\ Head(backlog) = backlog[1] /\ 1 \in 1..Len(backlog)
        /\ \A i \in 1..Len(backlog') : i + 1 \in 1..Len(backlog) /\ backlog'[i] = backlog[i + 1]
    BY <2>2, <1>a, TailItems
  <2>4. \A g \in Fds : conn'[g] = IF g = f THEN backlog[1] ELSE conn[g]
    BY <2>1, <2>3, <1>a
  <2>5. \A g \in Open' : g # f => g \in Open /\ conn'[g] = conn[g]
    BY <2>4 DEF Open
  <2>6. \A g, h \in Open' : conn'[g] = conn'[h] => g = h
    BY <2>3, <2>4, <2>5 DEF OnePlace, Open
  <2>7. \A i \in 1..Len(backlog') : backlog'[i] # backlog[1]
    BY <2>3 DEF OnePlace
  <2>8. \A i \in 1..Len(backlog'), g \in Fds : conn'[g] # backlog'[i]
    BY <2>3, <2>4, <2>7 DEF OnePlace
  <2>9. ASSUME NEW i \in 1..Len(backlog'), NEW j \in 1..Len(backlog'), backlog'[i] = backlog'[j]
        PROVE  i = j
    <3>1. i + 1 \in 1..Len(backlog) /\ j + 1 \in 1..Len(backlog)
            /\ backlog[i + 1] = backlog[j + 1]
      BY <2>3, <2>9
    <3>2. i + 1 = j + 1
      BY <3>1 DEF OnePlace
    <3> QED
      BY <3>2
  <2>10. \A i \in 1..Len(backlog') : client'[backlog'[i]] # "out"
    BY <2>2, <2>3 DEF OnePlace
  <2>11. \A g \in Open' : client'[conn'[g]] # "out"
    BY <2>2, <2>3, <2>4, <2>5 DEF OnePlace, Open
  <2> QED
    BY <2>6, <2>8, <2>9, <2>10, <2>11 DEF OnePlace
<1>6. CASE AcceptFails
  <2>1. UNCHANGED <<conn, client>>
    BY <1>6 DEF AcceptFails
  <2>2. backlog' = backlog \/ (backlog # <<>> /\ backlog' = Tail(backlog))
    BY <1>6 DEF AcceptFails
  <2> QED
    BY <2>1, <2>2, NoNewPlace
<1>7. ASSUME NEW f \in Fds, RecvSome(f) PROVE OnePlace'
  BY <1>7, NoNewPlace DEF RecvSome
<1>8. ASSUME NEW f \in Fds, RecvEnd(f) \/ RecvError(f) PROVE OnePlace'
  <2>1. UNCHANGED client /\ CloseOrEnd(f)
    BY <1>8 DEF RecvEnd, RecvError
  <2>2. \A g \in Fds : conn'[g] = conn[g] \/ conn'[g] = None
    BY <2>1, <1>a DEF CloseOrEnd, CloseClient, EndProgram
  <2>3. backlog' = <<>> \/ backlog' = backlog
    BY <2>1 DEF CloseOrEnd, EndProgram, CloseMaster
  <2> QED
    BY <2>1, <2>2, <2>3, NoNewPlace
<1>9. CASE UNCHANGED vars
  BY <1>9, NoNewPlace DEF vars
<1> QED
  BY <1>1, <1>2, <1>3, <1>4, <1>5, <1>6, <1>7, <1>8, <1>9 DEF Next, Loop

\* A readable descriptor stays readable while its client only sends or leaves.
LEMMA KeepsReadable ==
  ASSUME LoopTypes, NEW f \in Places, Readable(f),
         f = Master => master' = "listening" /\ backlog' # <<>>,
         f \in Open =>
           /\ conn'[f] = conn[f]
           /\ client[conn[f]] \in {"left", "reset"} => client'[conn[f]] \in {"left", "reset"}
           /\ sent'[conn[f]] \in Nat /\ sent'[conn[f]] >= sent[conn[f]]
           /\ read'[conn[f]] = read[conn[f]]
  PROVE  Readable(f)'
<1>1. CASE f = Master
  BY <1>1 DEF Readable
<1>2. CASE f \in Open
  <2>1. conn[f] \in Clients
    BY <1>2 DEF Open, LoopTypes
  <2>2. sent[conn[f]] \in Nat /\ read[conn[f]] \in Nat
    BY <2>1 DEF LoopTypes
  <2>3. f \in Open'
    BY <1>2 DEF Open
  <2>4. client[conn[f]] \in {"left", "reset"} \/ read[conn[f]] < sent[conn[f]]
    BY <1>2, Constants DEF Readable, Gone, Open
  <2>5. client'[conn'[f]] \in {"left", "reset"} \/ read'[conn'[f]] < sent'[conn'[f]]
    BY <1>2, <2>2, <2>4
  <2> QED
    BY <2>3, <2>5 DEF Readable, Gone
<1> QED
  BY <1>1, <1>2 DEF Readable

\* What another visit, or anybody else, does to a descriptor that is still due.
LEMMA NextStillReadable == BlockInv /\ [Next]_vars => StillReadable'
<1> SUFFICES ASSUME BlockInv, [Next]_vars PROVE StillReadable'
  OBVIOUS
<1>a. LoopTypes /\ OnePlace /\ StillReadable
  BY DEF BlockInv
<1>b. /\ backlog \in Seq(Clients)
      /\ conn \in [Fds -> Clients \cup {None}]
      /\ client \in [Clients -> ClientStates]
      /\ sent \in [Clients -> Nat] /\ read \in [Clients -> Nat]
      /\ fd \in Nat /\ tempfds \subseteq Places /\ Places \subseteq Nat
  BY <1>a, Constants DEF LoopTypes, Places, ClientStates
<1>c. \A f \in Open : conn[f] \in Clients
  BY <1>b DEF Open
\* A step of somebody else, or one that changes nothing of this.
<1>d. ASSUME UNCHANGED <<mode, tempfds, fd, conn, master>>,
             backlog # <<>> => backlog' # <<>>,
             \A c \in Clients :
               /\ client[c] \in {"left", "reset"} => client'[c] \in {"left", "reset"}
               /\ client[c] \in {"left", "reset"} \/ read[c] < sent[c] =>
                    sent'[c] \in Nat /\ sent'[c] >= sent[c] /\ read'[c] = read[c]
      PROVE  StillReadable'
  <2> SUFFICES ASSUME mode = "scan", master = "listening", NEW f \in tempfds, fd <= f
               PROVE  Readable(f)'
    BY <1>d DEF StillReadable
  <2>1. f \in Places /\ Readable(f)
    BY <1>a, <1>b DEF StillReadable
  <2>2. f = Master => master' = "listening" /\ backlog' # <<>>
    BY <1>b, <1>d, <2>1, Constants DEF Readable, Open
  <2>3. f \in Open => client[conn[f]] \in {"left", "reset"} \/ read[conn[f]] < sent[conn[f]]
    BY <2>1, Constants DEF Readable, Gone, Open
  <2> QED
    BY <1>a, <1>c, <1>d, <2>1, <2>2, <2>3, KeepsReadable
\* A visit: what is due after it was due before.
<1>e. ASSUME NEW g \in Places, Visit(g), UNCHANGED <<mode, tempfds, master, client, sent>>,
             \A f \in Open : f > g => conn'[f] = conn[f] /\ read'[conn[f]] = read[conn[f]],
             g # Master => UNCHANGED backlog
      PROVE  StillReadable'
  <2> SUFFICES ASSUME mode = "scan", master = "listening", NEW f \in tempfds, fd' <= f
               PROVE  Readable(f)'
    BY <1>e DEF StillReadable
  <2>1. fd' = g + 1 /\ fd <= g /\ g \in Nat /\ f \in Nat
    BY <1>b, <1>e DEF Visit, Due
  <2>2. f > g /\ fd <= f
    BY <1>b, <2>1
  <2>3. f \in Places /\ Readable(f)
    BY <1>a, <1>b, <2>2 DEF StillReadable
  <2>4. f = Master => master' = "listening" /\ backlog' # <<>>
    BY <1>b, <1>e, <2>2, <2>3, Constants DEF Readable, Open
  <2>5. f \in Open => sent[conn[f]] \in Nat /\ sent[conn[f]] >= sent[conn[f]]
    BY <1>b, <1>c
  <2> QED
    BY <1>a, <1>e, <2>2, <2>3, <2>4, <2>5, KeepsReadable
<1>1. ASSUME NEW c \in Clients, Connect(c) PROVE StillReadable'
  <2>1. UNCHANGED <<mode, tempfds, fd, conn, read, sent, master>>
    BY <1>1 DEF Connect
  <2>2. backlog # <<>> => backlog' # <<>>
    BY <1>1, <1>b, AppendProperties DEF Connect
  <2>3. \A d \in Clients : client[d] \in {"left", "reset"} => client'[d] \in {"left", "reset"}
    BY <1>1, <1>b DEF Connect
  <2>4. \A d \in Clients : sent[d] \in Nat /\ sent[d] >= sent[d]
    BY <1>b
  <2> QED
    BY <2>1, <2>2, <2>3, <2>4, <1>d
<1>2. ASSUME NEW c \in Clients, Turn(c) \/ Leave(c) PROVE StillReadable'
  <2>1. UNCHANGED <<mode, tempfds, fd, conn, master, backlog>>
    BY <1>2 DEF Turn, Leave
  <2>2. \A d \in Clients : client[d] \in {"left", "reset"} => client'[d] \in {"left", "reset"}
    BY <1>2, <1>b DEF Turn, Leave
  <2>3. \/ UNCHANGED <<sent, read>>
        \/ sent' = [sent EXCEPT ![c] = @ + MessageSize] /\ UNCHANGED read
        \/ /\ client[c] = "running" /\ read[c] = sent[c]
           /\ sent' = [sent EXCEPT ![c] = MessageSize] /\ read' = [read EXCEPT ![c] = 0]
    BY <1>2 DEF Turn, SendNext, Leave
  <2>4. ASSUME NEW d \in Clients, client[d] \in {"left", "reset"} \/ read[d] < sent[d]
        PROVE  sent'[d] \in Nat /\ sent'[d] >= sent[d] /\ read'[d] = read[d]
    <3>1. sent[d] \in Nat /\ read[d] \in Nat /\ MessageSize \in Nat
      BY <1>b, Constants
    <3>2. \/ sent'[d] = sent[d] /\ read'[d] = read[d]
          \/ sent'[d] = sent[d] + MessageSize /\ read'[d] = read[d]
          \/ d = c /\ client[d] = "running" /\ read[d] = sent[d]
      BY <1>b, <2>3
    <3> QED
      BY <2>4, <3>1, <3>2
  <2> QED
    BY <2>1, <2>2, <2>4, <1>d
<1>3. CASE Shutdown
  BY <1>3 DEF Shutdown, CloseMaster, StillReadable
<1>4. CASE Select
  <2>1. tempfds' = Selected(masterfds) /\ UNCHANGED <<kernel, peers, read>>
    BY <1>4 DEF Select
  <2>2. \A f : Readable(f) => Readable(f)'
    BY <2>1 DEF Readable, Open, Gone
  <2> QED
    BY <2>1, <2>2 DEF StillReadable, Selected
<1>5. CASE SelectFails
  BY <1>5 DEF SelectFails, CloseMaster, StillReadable
<1>6. CASE ScanDone
  BY <1>6 DEF ScanDone, StillReadable
<1>7. CASE AcceptClient
  <2>1. PICK h \in Fds \ Open : conn' = [conn EXCEPT ![h] = Head(backlog)]
    BY <1>7 DEF AcceptClient
  <2>2. Visit(Master) /\ UNCHANGED <<mode, tempfds, master, client, sent, read>>
    BY <1>7 DEF AcceptClient
  <2>3. \A f \in Open : conn'[f] = conn[f]
    BY <2>1, <1>b DEF Open
  <2> QED
    BY <2>2, <2>3, <1>e DEF Places
<1>8. CASE AcceptFails
  BY <1>8, <1>e DEF AcceptFails, Places
<1>9. ASSUME NEW g \in Fds, RecvSome(g) PROVE StillReadable'
  <2>1. /\ Visit(g) /\ g \in Open /\ g # Master
        /\ UNCHANGED <<mode, tempfds, master, client, sent, conn, backlog>>
        /\ \E n \in Amounts(conn[g]) : read' = [read EXCEPT ![conn[g]] = @ + n]
    BY <1>9, Constants DEF RecvSome
  <2>2. \A f \in Open : f > g => conn[f] # conn[g]
    BY <2>1, <1>a, <1>b, Constants DEF OnePlace, Open
  <2>3. \A f \in Open : f > g => read'[conn[f]] = read[conn[f]]
    BY <2>1, <2>2, <1>b, <1>c
  <2> QED
    BY <2>1, <2>3, <1>e DEF Places
<1>10. ASSUME NEW g \in Fds, RecvEnd(g) \/ RecvError(g) PROVE StillReadable'
  <2>1. /\ Visit(g) /\ g # Master
        /\ UNCHANGED <<tempfds, client, sent, read>> /\ CloseOrEnd(g)
    BY <1>10, Constants DEF RecvEnd, RecvError
  <2>2. CASE CloseClient(g) /\ UNCHANGED <<mode, master, backlog>>
    <3>1. \A f \in Open : f > g => conn'[f] = conn[f]
      BY <2>2, <1>b, Constants DEF CloseClient, Open
    <3> QED
      BY <2>1, <2>2, <3>1, <1>e DEF Places
  <2>3. CASE EndProgram
    BY <2>3 DEF EndProgram, StillReadable
  <2> QED
    <3>1. (CloseClient(g) /\ UNCHANGED <<mode, master, backlog>>) \/ EndProgram
      BY <1>10 DEF RecvEnd, RecvError, CloseOrEnd
    <3> QED
      BY <2>2, <2>3, <3>1
<1>11. CASE UNCHANGED vars
  <2>1. UNCHANGED <<mode, tempfds, fd, conn, read, master, backlog, client, sent>>
    BY <1>11 DEF vars
  <2>2. \A d \in Clients : sent[d] \in Nat /\ sent[d] >= sent[d]
    BY <1>b
  <2> QED
    BY <2>1, <2>2, <1>d
<1> QED
  BY <1>1, <1>2, <1>3, <1>4, <1>5, <1>6, <1>7, <1>8, <1>9, <1>10, <1>11 DEF Next, Loop

\* Neither accept nor recv is called for a descriptor that is not readable, in
\* whatever order clients connect, send, leave and are closed while the loop is
\* at work on its copy.
THEOREM LoopNeverBlocks == Spec => []NeverBlocks
<1>1. BlockInv /\ [Next]_vars => BlockInv'
  BY NextLoopTypes, NextOnePlace, NextStillReadable DEF BlockInv
<1>2. BlockInv => NeverBlocks
  BY DEF BlockInv, StillReadable, NeverBlocks, Due
<1> QED
  BY InitBlockInv, <1>1, <1>2, PTL DEF Spec
-----------------------------------------------------------------------------
(* The loop reaches all. *)

\* maxfd of NewServer fits into its type, whatever accept returned.
ReachInv ==
  /\ LoopTypes
  /\ program = "NewServer" => maxfd < Width
  /\ LoopReachesAll

\* Master is the only descriptor there is.
LEMMA InitReachInv == Init => ReachInv
<1> SUFFICES ASSUME Init PROVE ReachInv
  OBVIOUS
<1>1. LoopTypes
  BY InitBlockInv DEF BlockInv
<1> QED
  BY <1>1, Constants DEF Init, ReachInv, LoopReachesAll

\* Only AcceptClient raises maxfd, and it falls only with a descriptor that does
\* not fit.  Such a one is never visited, so never closed.
LEMMA NextReachInv == ReachInv /\ [Next]_vars => ReachInv'
<1> SUFFICES ASSUME ReachInv, [Next]_vars PROVE ReachInv'
  OBVIOUS
<1>a. LoopTypes /\ LoopTypes'
  BY NextLoopTypes DEF ReachInv
<1>b. /\ program \in {"NewServer", "Server"}
      /\ maxfd \in Nat /\ masterfds \subseteq Places /\ Places \subseteq Nat
      /\ conn \in [Fds -> Clients \cup {None}]
      /\ Open \subseteq Nat
  BY <1>a, Constants DEF LoopTypes, Places, Open
<1>c. ASSUME UNCHANGED <<program, masterfds, maxfd, conn>> PROVE ReachInv'
  BY <1>a, <1>c DEF ReachInv, LoopReachesAll, Fits, Open
<1>1. ASSUME NEW c \in Clients, Connect(c) \/ Turn(c) \/ Leave(c) PROVE ReachInv'
  BY <1>1, <1>c DEF Connect, Turn, Leave
<1>2. CASE Shutdown
  BY <1>2, <1>c DEF Shutdown
<1>3. CASE Select \/ SelectFails \/ ScanDone
  BY <1>3, <1>c DEF Select, SelectFails, ScanDone
<1>4. CASE AcceptClient
  <2>1. PICK f \in Fds \ Open :
          /\ conn' = [conn EXCEPT ![f] = Head(backlog)]
          /\ Watch(f)
          /\ maxfd' = Raised(f)
    BY <1>4 DEF AcceptClient
  <2>2. UNCHANGED program /\ backlog # <<>>
    BY <1>4 DEF AcceptClient
  <2>3. Head(backlog) \in Clients
    BY <1>a, <2>2, TailItems DEF LoopTypes
  <2>4. masterfds' \subseteq masterfds \cup {f}
    BY <2>1 DEF Watch
  <2>5. f \in Open' /\ Open \subseteq Open'
    BY <1>b, <2>1, <2>3, Constants DEF Open
  <2>6. program' = "NewServer" => maxfd' < Width
    BY <1>b, <2>1, <2>2, Constants DEF Raised, Truncated, ReachInv
  <2>7. ASSUME program = "Server" \/ Fits' PROVE \A g \in masterfds' : g <= maxfd'
    <3>1. program = "Server" \/ f < Width
      BY <2>5, <2>7 DEF Fits
    <3>2. program = "Server" \/ Fits
      BY <2>5, <2>7 DEF Fits
    <3>3. \A g \in masterfds : g <= maxfd
      BY <3>2 DEF ReachInv, LoopReachesAll
    <3>4. maxfd' \in Nat /\ maxfd <= maxfd' /\ f <= maxfd' /\ f \in Nat
      BY <1>b, <2>1, <3>1, Constants DEF Raised, Truncated
    <3> QED
      BY <1>b, <2>4, <3>3, <3>4
  <2> QED
    BY <1>a, <2>2, <2>6, <2>7 DEF ReachInv, LoopReachesAll
<1>5. CASE AcceptFails
  BY <1>5, <1>c DEF AcceptFails
<1>6. ASSUME NEW f \in Fds, RecvSome(f) PROVE ReachInv'
  BY <1>6, <1>c DEF RecvSome
<1>7. ASSUME NEW f \in Fds, RecvEnd(f) \/ RecvError(f) PROVE ReachInv'
  <2>1. Visit(f) /\ UNCHANGED <<program, maxfd>> /\ CloseOrEnd(f)
    BY <1>7 DEF RecvEnd, RecvError
  <2>2. masterfds' \subseteq masterfds
    BY <2>1 DEF CloseOrEnd, CloseClient, EndProgram
  <2>3. CASE program = "Server"
    BY <1>a, <2>1, <2>2, <2>3 DEF ReachInv, LoopReachesAll
  <2>4. CASE program = "NewServer" /\ CloseClient(f)
    <3>1. f < Width
      BY <1>b, <2>1, <2>4, Constants DEF Visit, Due, ReachInv
    <3>2. \A g \in Open : g # f => g \in Open'
      BY <1>b, <2>4 DEF CloseClient, Open
    <3>3. Fits' => Fits
      BY <3>1, <3>2 DEF Fits
    <3> QED
      BY <1>a, <2>1, <2>2, <2>4, <3>3 DEF ReachInv, LoopReachesAll
  <2> QED
    BY <2>1, <2>3, <2>4 DEF CloseOrEnd
<1>8. CASE UNCHANGED vars
  BY <1>8, <1>c DEF vars
<1> QED
  BY <1>1, <1>2, <1>3, <1>4, <1>5, <1>6, <1>7, <1>8 DEF Next, Loop

\* The loop up to maxfd reaches all descriptors select may report, for Server
\* always, for NewServer as long as every open one fits into 16 bits.
THEOREM ServerReachesAll == Spec => []LoopReachesAll
<1>1. ReachInv => LoopReachesAll
  BY DEF ReachInv
<1> QED
  BY InitReachInv, NextReachInv, <1>1, PTL DEF Spec
-----------------------------------------------------------------------------
(* The set of descriptors. *)

\* Who was overlooked is not accepted a second time.
OverlookedForGood ==
  /\ overlooked \subseteq Clients
  /\ \A c \in overlooked : client[c] # "out"
  /\ \A i \in 1..Len(backlog) : backlog[i] \notin overlooked

MemberInv == LoopTypes /\ OnePlace /\ OverlookedForGood /\ MembersAreOpen

\* Nobody is connected.
LEMMA InitMemberInv == Init => MemberInv
<1> SUFFICES ASSUME Init PROVE MemberInv
  OBVIOUS
<1>1. LoopTypes /\ OnePlace
  BY InitBlockInv DEF BlockInv
<1>2. MembersAreOpen
  BY DEF Init, MembersAreOpen, Open
<1>3. OverlookedForGood
  BY DEF Init, OverlookedForGood
<1> QED
  BY <1>1, <1>2, <1>3 DEF MemberInv

\* A step after which nobody waits who did not, and nobody else is overlooked.
LEMMA NothingOverlooked ==
  ASSUME OverlookedForGood, LoopTypes, UNCHANGED overlooked,
         \/ backlog' = backlog
         \/ backlog' = <<>>
         \/ backlog # <<>> /\ backlog' = Tail(backlog),
         \A c \in Clients : client[c] # "out" => client'[c] # "out"
  PROVE  OverlookedForGood'
<1>1. backlog \in Seq(Clients)
  BY DEF LoopTypes
<1>2. \A i \in 1..Len(backlog') : backlog'[i] \notin overlooked
  <2>1. CASE backlog' = backlog
    BY <2>1 DEF OverlookedForGood
  <2>2. CASE backlog' = <<>>
    BY <2>2
  <2>3. CASE backlog # <<>> /\ backlog' = Tail(backlog)
    BY <2>3, <1>1, TailItems DEF OverlookedForGood
  <2> QED
    BY <2>1, <2>2, <2>3
<1> QED
  BY <1>2 DEF OverlookedForGood

\* accept adds a descriptor that was not open and of a client that had none;
\* a close removes it from both.
LEMMA NextMembers == MemberInv /\ [Next]_vars => (OverlookedForGood /\ MembersAreOpen)'
<1> SUFFICES ASSUME MemberInv, [Next]_vars PROVE OverlookedForGood' /\ MembersAreOpen'
  BY DEF MemberInv
<1>a. LoopTypes /\ OnePlace /\ OverlookedForGood /\ MembersAreOpen
  BY DEF MemberInv
<1>b. /\ backlog \in Seq(Clients)
      /\ conn \in [Fds -> Clients \cup {None}]
      /\ client \in [Clients -> ClientStates]
  BY <1>a DEF LoopTypes, ClientStates
<1>c. ASSUME UNCHANGED <<masterfds, conn, overlooked>>, mode = "ended" => mode' = "ended"
      PROVE  MembersAreOpen'
  BY <1>a, <1>c DEF MembersAreOpen, Open
<1>1. ASSUME NEW c \in Clients, Connect(c) PROVE OverlookedForGood' /\ MembersAreOpen'
  <2>1. /\ UNCHANGED <<mode, masterfds, conn, overlooked>>
        /\ client[c] = "out"
        /\ backlog' = Append(backlog, c) \/ backlog' = backlog
    BY <1>1 DEF Connect
  <2>2. c \notin overlooked
    BY <2>1, <1>a DEF OverlookedForGood
  <2>3. \A d \in overlooked : client'[d] # "out"
    <3>1. \A d \in Clients : d # c => client'[d] = client[d]
      BY <1>1, <1>b DEF Connect
    <3> QED
      BY <3>1, <2>2, <1>a DEF OverlookedForGood
  <2>4. \A i \in 1..Len(backlog') : backlog'[i] \notin overlooked
    <3>1. CASE backlog' = Append(backlog, c)
      <4>1. \A i \in 1..Len(backlog') : backlog'[i] = c \/ (i \in 1..Len(backlog) /\ backlog'[i] = backlog[i])
        BY <3>1, <1>b, AppendProperties
      <4> QED
        BY <4>1, <2>2, <1>a DEF OverlookedForGood
    <3>2. CASE backlog' = backlog
      BY <3>2, <1>a DEF OverlookedForGood
    <3> QED
      BY <2>1, <3>1, <3>2
  <2> QED
    BY <2>1, <2>3, <2>4, <1>a, <1>c DEF OverlookedForGood
<1>2. ASSUME NEW c \in Clients, Turn(c) \/ Leave(c) PROVE OverlookedForGood' /\ MembersAreOpen'
  <2>1. UNCHANGED <<mode, masterfds, conn, overlooked, backlog>>
    BY <1>2 DEF Turn, Leave
  <2>2. \A d \in Clients : client[d] # "out" => client'[d] # "out"
    BY <1>2, <1>b DEF Turn, Leave
  <2> QED
    BY <2>1, <2>2, <1>a, <1>c, NothingOverlooked
<1>3. CASE Shutdown
  BY <1>3, <1>a, <1>c, NothingOverlooked DEF Shutdown, CloseMaster
<1>4. CASE Select \/ SelectFails \/ ScanDone
  <2>1. /\ UNCHANGED <<masterfds, conn, client, overlooked>> /\ mode # "ended"
        /\ backlog' = <<>> \/ backlog' = backlog
    BY <1>4 DEF Select, SelectFails, ScanDone, CloseMaster
  <2> QED
    BY <2>1, <1>a, <1>c, NothingOverlooked
<1>5. CASE AcceptClient
  <2>1. PICK f \in Fds \ Open : conn' = [conn EXCEPT ![f] = Head(backlog)] /\ Watch(f)
    BY <1>5 DEF AcceptClient
  <2>2. UNCHANGED client /\ backlog # <<>> /\ backlog' = Tail(backlog) /\ mode = "scan"
    BY <1>5 DEF AcceptClient, Visit
  <2>3. /\ Head(backlog) \in Clients /\ Head(backlog) = backlog[1] /\ 1 \in 1..Len(backlog)
        /\ \A i \in 1..Len(backlog') : i + 1 \in 1..Len(backlog) /\ backlog'[i] = backlog[i + 1]
    BY <2>2, <1>b, TailItems
  <2>4. Open' = Open \cup {f} /\ \A g \in Open : conn'[g] = conn[g]
    BY <2>1, <2>3, <1>b, Constants DEF Open
  <2>5. backlog[1] \notin overlooked /\ client[backlog[1]] # "out"
    BY <2>3, <1>a DEF OverlookedForGood, OnePlace
  <2>6. \A g \in Open : conn[g] # backlog[1]
    BY <2>3, <1>a DEF OnePlace, Open
  <2>7. \A i \in 1..Len(backlog') : backlog'[i] # backlog[1]
    <3>1. \A i, j \in 1..Len(backlog) : backlog[i] = backlog[j] => i = j
      BY <1>a DEF OnePlace
    <3> QED
      BY <2>3, <3>1
  <2>8. masterfds = {Master} \cup {g \in Open : conn[g] \notin overlooked}
    BY <2>2, <1>a DEF MembersAreOpen
  <2>9. conn'[f] = backlog[1] /\ f \notin Open
    BY <2>1, <2>3, <1>b
  <2>10. CASE masterfds' = masterfds \cup {f} /\ UNCHANGED overlooked
    <3>1. masterfds' = {Master} \cup {g \in Open' : conn'[g] \notin overlooked'}
      BY <2>4, <2>5, <2>8, <2>9, <2>10
    <3> QED
      BY <3>1, <2>2, <2>10, <1>a, NothingOverlooked DEF MembersAreOpen
  <2>11. CASE overlooked' = overlooked \cup {backlog[1]} /\ UNCHANGED masterfds
    <3>1. masterfds' = {Master} \cup {g \in Open' : conn'[g] \notin overlooked'}
      BY <2>4, <2>6, <2>8, <2>9, <2>11
    <3>2. \A i \in 1..Len(backlog') : backlog'[i] \notin overlooked'
      BY <2>3, <2>7, <2>11, <1>a DEF OverlookedForGood
    <3>3. overlooked' \subseteq Clients /\ \A c \in overlooked' : client'[c] # "out"
      BY <2>2, <2>3, <2>5, <2>11, <1>a DEF OverlookedForGood
    <3> QED
      BY <3>1, <3>2, <3>3 DEF MembersAreOpen, OverlookedForGood
  <2> QED
    BY <2>1, <2>3, <2>10, <2>11 DEF Watch
<1>6. CASE AcceptFails
  <2>1. UNCHANGED <<mode, masterfds, conn, client, overlooked>>
    BY <1>6 DEF AcceptFails
  <2>2. backlog' = backlog \/ (backlog # <<>> /\ backlog' = Tail(backlog))
    BY <1>6 DEF AcceptFails
  <2> QED
    BY <2>1, <2>2, <1>a, <1>c, NothingOverlooked
<1>7. ASSUME NEW f \in Fds, RecvSome(f) PROVE OverlookedForGood' /\ MembersAreOpen'
  BY <1>7, <1>a, <1>c, NothingOverlooked DEF RecvSome
<1>8. ASSUME NEW f \in Fds, RecvEnd(f) \/ RecvError(f)
      PROVE  OverlookedForGood' /\ MembersAreOpen'
  <2>1. UNCHANGED <<client, overlooked>> /\ CloseOrEnd(f) /\ mode = "scan"
    BY <1>8 DEF RecvEnd, RecvError, Visit
  <2>2. backlog' = <<>> \/ backlog' = backlog
    BY <2>1 DEF CloseOrEnd, EndProgram, CloseMaster
  <2>3. OverlookedForGood'
    BY <2>1, <2>2, <1>a, NothingOverlooked
  <2>4. CASE CloseClient(f)
    <3>1. Open' = Open \ {f} /\ \A g \in Open' : conn'[g] = conn[g]
      BY <2>4, <1>b DEF CloseClient, Open
    <3>2. f # Master /\ masterfds' = masterfds \ {f}
      BY <2>4, Constants DEF CloseClient
    <3> QED
      BY <2>1, <2>3, <3>1, <3>2, <1>a DEF MembersAreOpen
  <2>5. CASE EndProgram
    BY <2>3, <2>5 DEF EndProgram, MembersAreOpen
  <2> QED
    BY <2>1, <2>4, <2>5 DEF CloseOrEnd
<1>9. CASE UNCHANGED vars
  BY <1>9, <1>a, <1>c, NothingOverlooked DEF vars
<1> QED
  BY <1>1, <1>2, <1>3, <1>4, <1>5, <1>6, <1>7, <1>8, <1>9 DEF Next, Loop

\* select is called with exactly the clients that are connected: none that is
\* closed, and all but those that came when the set was full.
THEOREM SetIsConnections == Spec => []MembersAreOpen
<1>1. MemberInv /\ [Next]_vars => MemberInv'
  BY NextLoopTypes, NextOnePlace, NextMembers DEF MemberInv
<1>2. MemberInv => MembersAreOpen
  BY DEF MemberInv
<1> QED
  BY InitMemberInv, <1>1, <1>2, PTL DEF Spec
-----------------------------------------------------------------------------
(* The owner's book. *)

Names == Peers \cup {Stranger}

\* What OwnerKnows says of the number of an open descriptor, and of any other.
Right(f) == told[f] = conn[f] \/ Misreported(f)
Accounted(n) ==
  told[n] # None => Misreported(n) \/ (told[n] # Stranger /\ client[told[n]] = "reset")

BookInv ==
  /\ ReachInv
  /\ told \in [0..(Width - 1) -> Names]
  /\ program = "NewServer" /\ Fits =>
       /\ \A f \in Open : Right(f)
       /\ \A n \in 0..(Width - 1) : n \notin Open => Accounted(n)

LEMMA BookConstants ==
  /\ Truncated(-1) = Width - 1 /\ Width - 1 \in 0..(Width - 1)
  /\ Stranger \notin Clients /\ Stranger # None /\ None \notin Clients
<1>1. Truncated(-1) = Width - 1
  BY Constants DEF Truncated
<1> QED
  BY <1>1, Constants, SelectServerAssumption DEF SelectServerAssumption

\* Nobody is in the book yet.
LEMMA InitBookInv == Init => BookInv
<1> SUFFICES ASSUME Init PROVE BookInv
  OBVIOUS
<1>1. ReachInv
  BY InitReachInv
<1>2. told = [n \in 0..(Width - 1) |-> None] /\ Open = {}
  BY DEF Init, Open
<1>3. told \in [0..(Width - 1) -> Names]
  BY <1>2 DEF Peers, Names
<1> QED
  BY <1>1, <1>2, <1>3 DEF BookInv, Accounted

\* A client that is gone does not come back.
ResetForGood == \A c \in Clients : client[c] = "reset" => client'[c] = "reset"

\* A step that leaves the descriptors and the book.
LEMMA BookSame ==
  ASSUME BookInv, ReachInv', UNCHANGED <<program, conn, told>>, ResetForGood
  PROVE  BookInv'
<1>1. Open' = Open /\ (Fits' <=> Fits)
  BY DEF Open, Fits
<1>2. told \in [0..(Width - 1) -> Names]
  BY DEF BookInv
<1>3. ASSUME NEW n \in 0..(Width - 1), Accounted(n) PROVE Accounted(n)'
  <2>1. told[n] # None /\ told[n] # Stranger => told[n] \in Clients
    BY <1>2 DEF Names, Peers
  <2> QED
    BY <1>3, <2>1 DEF Accounted, Misreported, ResetForGood
<1>4. \A f : Right(f) => Right(f)'
  BY DEF Right, Misreported
<1> QED
  BY <1>1, <1>2, <1>3, <1>4 DEF BookInv

\* A descriptor the loop of NewServer visits fits into 16 bits.
LEMMA VisitedFits ==
  ASSUME ReachInv, program = "NewServer", NEW f \in Fds, Visit(f)
  PROVE  f \in 0..(Width - 1) /\ Truncated(f) = f
<1>1. f <= maxfd /\ maxfd < Width /\ maxfd \in Nat /\ f \in Nat
  BY Constants DEF Visit, Due, ReachInv, LoopTypes
<1>2. f \in 0..(Width - 1)
  BY <1>1, Constants
<1> QED
  BY <1>2, Constants DEF Truncated

\* In Server.cpp there is no owner and no book.
LEMMA NoBook ==
  ASSUME BookInv, ReachInv', program = "Server", UNCHANGED <<program, told>>
  PROVE  BookInv'
BY DEF BookInv

\* Each callback keeps the book.
LEMMA NextBookInv == BookInv /\ [Next]_vars => BookInv'
<1> SUFFICES ASSUME BookInv, [Next]_vars PROVE BookInv'
  OBVIOUS
<1>a. ReachInv /\ ReachInv' /\ told \in [0..(Width - 1) -> Names]
  BY NextReachInv DEF BookInv
<1>b. /\ program \in {"NewServer", "Server"} /\ backlog \in Seq(Clients)
      /\ conn \in [Fds -> Clients \cup {None}] /\ client \in [Clients -> ClientStates]
  BY <1>a DEF ReachInv, LoopTypes, ClientStates
<1>c. \A f \in Open : conn[f] \in Clients /\ f \in Fds
  BY <1>b DEF Open
<1>d. ASSUME program = "NewServer", Fits
      PROVE  /\ \A f \in Open : Right(f)
             /\ \A n \in 0..(Width - 1) : n \notin Open => Accounted(n)
  BY <1>d DEF BookInv
\* A number whose entry, client and descriptor stay keeps what is said of it.
<1>e. ASSUME NEW n, told'[n] = told[n], Right(n), conn'[n] = conn[n] PROVE Right(n)'
  BY <1>e DEF Right, Misreported
<1>f. ASSUME NEW n, told'[n] = told[n], Accounted(n), client' = client PROVE Accounted(n)'
  BY <1>f DEF Accounted, Misreported
<1>1. ASSUME NEW c \in Clients, Connect(c) \/ Turn(c) \/ Leave(c) PROVE BookInv'
  <2>1. UNCHANGED <<program, conn, told>>
    BY <1>1 DEF Connect, Turn, Leave
  <2>2. ResetForGood
    BY <1>1, <1>b DEF Connect, Turn, Leave, ResetForGood
  <2> QED
    BY <2>1, <2>2, <1>a, BookSame
<1>2. CASE Shutdown
  BY <1>2, <1>a, BookSame DEF Shutdown, ResetForGood
<1>3. CASE Select \/ SelectFails \/ ScanDone
  BY <1>3, <1>a, BookSame DEF Select, SelectFails, ScanDone, ResetForGood
<1>4. CASE AcceptClient
  <2>1. PICK f \in Fds \ Open :
          /\ conn' = [conn EXCEPT ![f] = Head(backlog)]
          /\ Tell(Truncated(f), Head(backlog))
    BY <1>4 DEF AcceptClient
  <2> DEFINE c == Head(backlog)
             t == Truncated(f)
  <2>2. UNCHANGED <<program, client>> /\ backlog # <<>>
    BY <1>4 DEF AcceptClient
  <2>3. c \in Clients /\ c # None
    BY <1>b, <2>2, TailItems, Constants
  <2>4. t \in 0..(Width - 1) /\ f \in Nat
    BY Constants DEF Truncated
  <2>5. CASE program = "Server"
    BY <1>a, <2>1, <2>2, <2>5, NoBook DEF Tell
  <2>6. CASE program = "NewServer"
    <3> HIDE DEF c
    <3>1. told' = [told EXCEPT ![t] = c]
      BY <2>1, <2>6 DEF Tell, c
    <3>2. told' \in [0..(Width - 1) -> Names]
      BY <1>a, <2>3, <2>4, <3>1 DEF Peers, Names
    <3>3. Open' = Open \cup {f} /\ conn'[f] = c /\ \A g \in Open : conn'[g] = conn[g]
      BY <1>b, <2>1, <2>3, Constants DEF Open, c
    <3>4. ASSUME Fits' PROVE t = f /\ Fits
      <4>1. f < Width /\ Fits
        BY <3>3, <3>4 DEF Fits
      <4> QED
        BY <2>4, <4>1, Constants DEF Truncated
    <3>5. ASSUME Fits', NEW g \in Open' PROVE Right(g)'
      <4>1. CASE g = f
        BY <1>a, <2>4, <3>1, <3>3, <3>4, <3>5, <4>1 DEF Right
      <4>2. CASE g # f
        <5>1. g \in Open /\ conn'[g] = conn[g]
          BY <3>3, <3>5, <4>2
        <5>2. Right(g)
          BY <1>d, <2>6, <3>4, <3>5, <5>1
        <5>3. told'[g] = told[g]
          BY <3>1, <3>4, <3>5, <4>2, <1>a
        <5> QED
          BY <1>e, <5>1, <5>2, <5>3
      <4> QED
        BY <4>1, <4>2
    <3>6. ASSUME Fits', NEW n \in 0..(Width - 1), n \notin Open' PROVE Accounted(n)'
      <4>1. n # f /\ n \notin Open
        BY <3>3, <3>6
      <4>2. told'[n] = told[n]
        BY <3>1, <3>4, <3>6, <4>1, <1>a
      <4>3. Accounted(n)
        BY <1>d, <2>6, <3>4, <3>6, <4>1
      <4> QED
        BY <1>f, <2>2, <4>2, <4>3
    <3> QED
      BY <1>a, <3>2, <3>5, <3>6 DEF BookInv
  <2> QED
    BY <1>b, <2>5, <2>6
<1>5. CASE AcceptFails
  <2>1. UNCHANGED <<program, conn, client>> /\ Tell(Truncated(-1), Stranger)
    BY <1>5 DEF AcceptFails
  <2>2. CASE program = "Server"
    BY <1>a, <2>1, <2>2, NoBook DEF Tell
  <2>3. CASE program = "NewServer"
    <3> DEFINE t == Truncated(-1)
    <3>1. told' = [told EXCEPT ![t] = Stranger] /\ t \in 0..(Width - 1)
      BY <2>1, <2>3, BookConstants DEF Tell
    <3>2. Misreported(t)'
      BY <1>a, <3>1 DEF Misreported, Truncated
    <3> HIDE DEF t
    <3>3. told' \in [0..(Width - 1) -> Names]
      BY <1>a, <3>1 DEF Names
    <3>4. \A n : n # t => told'[n] = told[n]
      BY <1>a, <3>1
    <3>5. Open' = Open /\ (Fits' <=> Fits)
      BY <2>1 DEF Open, Fits
    <3>6. ASSUME NEW n, Right(n) PROVE Right(n)'
      BY <1>e, <2>1, <3>2, <3>4, <3>6 DEF Right
    <3>7. ASSUME NEW n, Accounted(n) PROVE Accounted(n)'
      BY <1>f, <2>1, <3>2, <3>4, <3>7 DEF Accounted
    <3> QED
      BY <1>a, <1>d, <2>1, <2>3, <3>3, <3>5, <3>6, <3>7 DEF BookInv
  <2> QED
    BY <1>b, <2>2, <2>3
<1>6. ASSUME NEW f \in Fds, RecvSome(f) PROVE BookInv'
  BY <1>6, <1>a, BookSame DEF RecvSome, ResetForGood
<1>7. ASSUME NEW f \in Fds, RecvEnd(f) \/ RecvError(f) PROVE BookInv'
  <2>1. Visit(f) /\ CloseOrEnd(f) /\ UNCHANGED <<program, client>>
    BY <1>7 DEF RecvEnd, RecvError
  <2>2. CASE program = "Server"
    <3>1. UNCHANGED told
      BY <1>7, <2>2 DEF RecvEnd, RecvError, Report, Tell
    <3> QED
      BY <1>a, <2>1, <2>2, <3>1, NoBook
  <2>3. CASE program = "NewServer"
    <3>1. conn' = [conn EXCEPT ![f] = None] /\ f \in 0..(Width - 1) /\ Truncated(f) = f
      BY <1>a, <2>1, <2>3, VisitedFits DEF CloseOrEnd, CloseClient
    <3>2. Open' = Open \ {f} /\ \A g \in Open' : conn'[g] = conn[g]
      BY <1>b, <3>1 DEF Open
    <3>3. Fits' => Fits
      BY <3>1, <3>2, Constants DEF Fits
    <3>4. \/ told' = [told EXCEPT ![f] = None]
          \/ told' = told /\ (f \in Open => client[conn[f]] = "reset")
      <4>1. CASE RecvEnd(f)
        BY <2>3, <3>1, <4>1 DEF RecvEnd, Report, Tell
      <4>2. CASE RecvError(f)
        BY <2>3, <4>2 DEF RecvError, WouldBlock
      <4> QED
        BY <1>7, <4>1, <4>2
    <3>5. told' \in [0..(Width - 1) -> Names]
      BY <1>a, <3>4 DEF Peers, Names
    <3>6. \A n \in 0..(Width - 1) : n # f => told'[n] = told[n]
      BY <1>a, <3>4
    <3>7. ASSUME Fits', NEW g \in Open' PROVE Right(g)'
      <4>1. g \in Open /\ g # f /\ conn'[g] = conn[g] /\ Fits
        BY <3>2, <3>3, <3>7
      <4>2. Right(g)
        BY <1>d, <2>3, <4>1
      <4>3. g \in 0..(Width - 1)
        <5>1. g \in Nat /\ g < Width
          BY <4>1, <1>c, Constants DEF Fits
        <5> QED
          BY <5>1, Constants
      <4> QED
        BY <1>e, <3>6, <4>1, <4>2, <4>3
    <3>8. ASSUME Fits', NEW n \in 0..(Width - 1), n \notin Open' PROVE Accounted(n)'
      <4>1. CASE n = f /\ told'[f] = None
        BY <4>1 DEF Accounted
      <4>2. CASE n = f /\ told' = told /\ f \in Open
        <5>1. client[conn[f]] = "reset" \/ told[f] = None
          BY <1>a, <3>1, <3>4, <4>2
        <5>2. Right(f)
          BY <1>d, <2>3, <3>3, <3>8, <4>2
        <5>3. conn[f] # Stranger
          BY <1>c, <4>2, BookConstants
        <5>4. Accounted(f)
          BY <5>1, <5>2, <5>3 DEF Accounted, Right
        <5> QED
          BY <1>f, <2>1, <4>2, <5>4
      <4>3. CASE (n = f => told' = told /\ f \notin Open)
        <5>1. told'[n] = told[n] /\ n \notin Open /\ Fits
          BY <3>2, <3>3, <3>6, <3>8, <4>3
        <5>2. Accounted(n)
          BY <1>d, <2>3, <3>8, <5>1
        <5> QED
          BY <1>f, <2>1, <5>1, <5>2
      <4> QED
        BY <1>a, <3>1, <3>4, <4>1, <4>2, <4>3
    <3> QED
      BY <1>a, <3>5, <3>7, <3>8 DEF BookInv
  <2> QED
    BY <1>b, <2>2, <2>3
<1>8. CASE UNCHANGED vars
  BY <1>8, <1>a, BookSame DEF vars, ResetForGood
<1> QED
  BY <1>1, <1>2, <1>3, <1>4, <1>5, <1>6, <1>7, <1>8 DEF Next, Loop

\* The owner of a NewServer knows each connected client by the number of its
\* descriptor, however often the number was given out before.  Whom it knows and
\* is not connected has broken off with an error, or is the stranger it was told
\* of, under 65535, when an accept failed: under that number, and under no
\* other, it may take even a connected client for the stranger.
THEOREM OwnerIsRight == Spec => []OwnerKnows
<1>1. BookInv => OwnerKnows
  BY DEF BookInv, OwnerKnows, Right, Accounted
<1>2. BookInv /\ [Next]_vars => BookInv'
  BY NextBookInv
<1> QED
  BY InitBookInv, <1>1, <1>2, PTL DEF Spec
-----------------------------------------------------------------------------
(* What is heard. *)

\* Between two turns of the loop the buffer is empty, and the units that were
\* heard of a client are of those that were read of it.
HeardTypes ==
  /\ program \in Programs
  /\ buffer = Zeroes
  /\ \A c \in Clients : read[c] <= sent[c]
  /\ heard \in [Clients -> Seq(Clients \X Nat)]

HeardInv == LoopTypes /\ HeardTypes /\ HeardInOrder

\* Nothing was heard yet.
LEMMA InitHeardInv == Init => HeardInv
<1> SUFFICES ASSUME Init PROVE HeardInv
  OBVIOUS
<1>1. LoopTypes
  BY InitBlockInv DEF BlockInv
<1>2. <<>> \in Seq(Clients \X Nat) /\ DOMAIN <<>> = {}
  OBVIOUS
<1>3. HeardTypes
  BY <1>2 DEF Init, HeardTypes
<1>4. HeardInOrder
  BY <1>2 DEF Init, HeardInOrder
<1> QED
  BY <1>1, <1>3, <1>4 DEF HeardInv

\* The least of two amounts is one of them and above neither.
LEMMA LeastOfTwo ==
  ASSUME NEW a \in Nat, NEW b \in Nat
  PROVE  Min({a, b}) \in Nat /\ Min({a, b}) <= a /\ Min({a, b}) <= b
<1>1. \E x \in {a, b} : \A y \in {a, b} : x <= y
  OBVIOUS
<1>2. Min({a, b}) \in {a, b} /\ \A y \in {a, b} : Min({a, b}) <= y
  BY <1>1 DEF Min
<1> QED
  BY <1>2

\* As a string a buffer is what there is in front of its first zero.
LEMMA TextIsPrefix ==
  ASSUME NEW n \in Nat, NEW S, NEW b \in [1..n -> S]
  PROVE  \E m \in 0..n :
           /\ Text(b) = SubSeq(b, 1, m)
           /\ \A i \in 1..m : b[i] # None
<1> DEFINE zeroes == {i \in 1..n : b[i] = None}
<1>1. DOMAIN b = 1..n /\ b \in Seq(S) /\ Len(b) = n
  BY SeqDef, LenProperties
<1>2. Text(b) = SubSeq(b, 1, IF zeroes = {} THEN Len(b) ELSE Min(zeroes) - 1)
  BY <1>1 DEF Text
<1>3. CASE zeroes = {}
  <2>1. Text(b) = SubSeq(b, 1, n) /\ n \in 0..n
    BY <1>1, <1>2, <1>3
  <2>2. \A i \in 1..n : b[i] # None
    BY <1>3
  <2> QED
    BY <2>1, <2>2
<1>4. CASE zeroes # {}
  <2>1. zeroes \in SUBSET Nat
    OBVIOUS
  <2>2. zeroes \subseteq 1..n /\ \A i \in 1..n : i \notin zeroes => b[i] # None
    OBVIOUS
  <2> HIDE DEF zeroes
  <2>3. \E x \in zeroes : \A y \in zeroes : x <= y
    BY <1>4, <2>1, LeastExists
  <2> DEFINE z == Min(zeroes)
  <2>4. z \in zeroes /\ \A y \in zeroes : z <= y
    BY <2>3 DEF Min
  <2>5. Text(b) = SubSeq(b, 1, z - 1)
    BY <1>2, <1>4
  <2> HIDE DEF z
  <2>6. z \in 1..n /\ z - 1 \in 0..n
    BY <2>2, <2>4
  <2>7. \A i \in 1..(z - 1) : i \in 1..n /\ i \notin zeroes
    BY <2>4, <2>6
  <2> QED
    BY <2>2, <2>5, <2>6, <2>7
<1> QED
  BY <1>3, <1>4

\* A step that reads nothing.
LEMMA HeardSame ==
  ASSUME HeardInv, LoopTypes', UNCHANGED <<program, buffer, read, heard>>,
         \A c \in Clients : sent'[c] \in Nat /\ sent[c] <= sent'[c]
  PROVE  HeardInv'
<1>1. Zeroes' = Zeroes
  BY DEF Zeroes
<1>2. \A c \in Clients : read[c] \in Nat /\ sent[c] \in Nat /\ read[c] <= sent[c]
  BY DEF HeardInv, HeardTypes, LoopTypes
<1>3. \A c \in Clients : read'[c] <= sent'[c]
  BY <1>2
<1>4. HeardTypes'
  BY <1>1, <1>3 DEF HeardInv, HeardTypes
<1>5. HeardInOrder'
  BY DEF HeardInv, HeardInOrder
<1> QED
  BY <1>4, <1>5 DEF HeardInv

\* The buffer was empty, so what the string holds was read into it just now.
LEMMA NextHeardInv == HeardInv /\ [Next]_vars => HeardInv'
<1> SUFFICES ASSUME HeardInv, [Next]_vars PROVE HeardInv'
  OBVIOUS
<1>a. LoopTypes /\ LoopTypes' /\ HeardTypes /\ HeardInOrder
  BY NextLoopTypes DEF HeardInv
<1>b. /\ sent \in [Clients -> Nat] /\ read \in [Clients -> Nat]
      /\ conn \in [Fds -> Clients \cup {None}]
  BY <1>a DEF LoopTypes
<1>c. ASSUME UNCHANGED <<program, buffer, read, heard, sent>> PROVE HeardInv'
  <2>1. \A c \in Clients : sent'[c] \in Nat /\ sent[c] <= sent'[c]
    BY <1>b, <1>c
  <2> QED
    BY <1>a, <1>c, <2>1, HeardSame
<1>1. ASSUME NEW c \in Clients, Connect(c) \/ Leave(c) PROVE HeardInv'
  BY <1>1, <1>c DEF Connect, Leave
<1>2. ASSUME NEW c \in Clients, Turn(c) PROVE HeardInv'
  <2>1. CASE UNCHANGED <<read, heard>> /\ sent' = [sent EXCEPT ![c] = @ + MessageSize]
    <3>1. UNCHANGED <<program, buffer, read, heard>>
      BY <1>2, <2>1 DEF Turn
    <3>2. \A d \in Clients : sent'[d] = sent[d] \/ sent'[d] = sent[d] + MessageSize
      BY <2>1, <1>b
    <3>3. \A d \in Clients : sent[d] \in Nat
      BY <1>b
    <3>4. \A d \in Clients : sent'[d] \in Nat /\ sent[d] <= sent'[d]
      BY <3>2, <3>3, Constants
    <3> QED
      BY <1>a, <3>1, <3>4, HeardSame
  <2>2. CASE /\ sent' = [sent EXCEPT ![c] = MessageSize] /\ read' = [read EXCEPT ![c] = 0]
             /\ heard' = [heard EXCEPT ![c] = <<>>]
    <3>1. UNCHANGED <<program, buffer>> /\ Zeroes' = Zeroes
      BY <1>2 DEF Turn, Zeroes
    <3>2. \A d \in Clients : read'[d] <= sent'[d]
      BY <1>a, <1>b, <2>2, Constants DEF HeardTypes
    <3>3. <<>> \in Seq(Clients \X Nat) /\ DOMAIN <<>> = {}
      OBVIOUS
    <3>4. HeardTypes'
      BY <1>a, <2>2, <3>1, <3>2, <3>3 DEF HeardTypes
    <3>5. \A d \in Clients : \/ heard'[d] = <<>>
                             \/ heard'[d] = heard[d] /\ read'[d] = read[d]
      BY <1>a, <1>b, <2>2 DEF HeardTypes
    <3>6. HeardInOrder'
      BY <1>a, <3>3, <3>5 DEF HeardInOrder
    <3> QED
      BY <1>a, <3>4, <3>6 DEF HeardInv
  <2> QED
    BY <1>2, <2>1, <2>2 DEF Turn, SendNext
<1>3. CASE Shutdown \/ Select \/ SelectFails \/ ScanDone \/ AcceptClient \/ AcceptFails
  BY <1>3, <1>c DEF Shutdown, Select, SelectFails, ScanDone, AcceptClient, AcceptFails
<1>4. ASSUME NEW f \in Fds, RecvEnd(f) \/ RecvError(f) PROVE HeardInv'
  BY <1>4, <1>c DEF RecvEnd, RecvError
<1>5. ASSUME NEW f \in Fds, RecvSome(f) PROVE HeardInv'
  <2> DEFINE c == conn[f]
             size == BufferSize[program]
             r == read[c]
  <2>1. c \in Clients /\ UNCHANGED <<program, sent>>
    BY <1>5, <1>b DEF RecvSome, Open
  <2>2. PICK n \in Amounts(c) :
          /\ read' = [read EXCEPT ![c] = @ + n]
          /\ heard' = [heard EXCEPT ![c] = @ \o Text(Filled(c, n))]
          /\ buffer' = Zeroes
    BY <1>5 DEF RecvSome, Cleared
  <2>3. size \in Nat /\ sent[c] \in Nat /\ r \in Nat /\ r <= sent[c]
    BY <1>a, <1>b, <2>1, SelectServerAssumption DEF HeardTypes, SelectServerAssumption
  <2> DEFINE text == Text(Filled(c, n))
             h == heard[c]
             units == Clients \X Nat
  <2>4. n \in Nat /\ n >= 1 /\ r + n <= sent[c]
    <3>1. sent[c] - r \in Nat /\ Min({size, sent[c] - r}) \in Nat
            /\ Min({size, sent[c] - r}) <= sent[c] - r
      BY <2>3, LeastOfTwo
    <3>2. n \in 1..Min({size, sent[c] - r})
      BY <2>2 DEF Amounts
    <3> QED
      BY <2>3, <3>1, <3>2
  <2>5. \E m \in Nat : /\ text \in Seq(units) /\ Len(text) = m /\ m <= n
                       /\ \A i \in 1..m : text[i] = <<c, r + i>>
    <3> DEFINE b == Filled(c, n)
               S == units \cup {None}
    <3>1. b = [i \in 1..size |-> IF i <= n THEN Unit(c, r + i) ELSE None]
      <4>1. buffer = [i \in 1..size |-> None]
        BY <1>a DEF HeardTypes, Zeroes
      <4> QED
        BY <4>1 DEF Filled
    <3>2. ASSUME NEW i \in 1..size, b[i] # None PROVE b[i] = <<c, r + i>> /\ i <= n
      BY <3>1, <3>2 DEF Unit
    <3>3. ASSUME NEW i \in 1..size PROVE b[i] = None \/ b[i] \in units
      <4>1. r + i \in Nat
        BY <2>3
      <4>2. <<c, r + i>> \in units
        BY <2>1, <4>1
      <4> HIDE DEF b, units, c, r
      <4> QED
        BY <3>2, <4>2
    <3>4. b \in [1..size -> S]
      BY <3>1, <3>3
    <3>5. text = Text(b)
      OBVIOUS
    <3> HIDE DEF b, S, text, size, c, r, units
    <3>6. PICK m \in 0..size : Text(b) = SubSeq(b, 1, m) /\ \A i \in 1..m : b[i] # None
      BY <2>3, <3>4, TextIsPrefix
    <3>7. b \in Seq(S) /\ Len(b) = size
      BY <2>3, <3>4, SeqDef, LenProperties
    <3>8. \A i \in 1..m : i \in 1..size /\ b[i] = <<c, r + i>> /\ i <= n /\ b[i] \in units
      BY <2>3, <3>2, <3>3, <3>6
    <3>9. Len(text) = m /\ \A i \in 1..m : text[i] = b[i]
      BY <2>3, <3>5, <3>6, <3>7, <3>8, SubSeqProperties
    <3>10. text \in Seq(units)
      <4>1. text \in Seq(S)
        BY <2>3, <3>5, <3>6, <3>7, <3>8, SubSeqProperties
      <4>2. text \in [1..m -> units] /\ m \in Nat
        BY <3>8, <3>9, <4>1, LenProperties
      <4> QED
        BY <4>2, SeqDef
    <3>11. m <= n
      <4>1. CASE m = 0
        BY <2>4, <4>1
      <4>2. CASE m # 0
        <5>1. m \in 1..m
          BY <4>2
        <5> QED
          BY <3>8, <5>1
      <4> QED
        BY <4>1, <4>2
    <3> QED
      BY <3>8, <3>9, <3>10, <3>11
  <2>6. PICK m \in Nat : /\ text \in Seq(units) /\ Len(text) = m /\ m <= n
                         /\ \A i \in 1..m : text[i] = <<c, r + i>>
    BY <2>5
  <2>7. h \in Seq(units) /\ heard \in [Clients -> Seq(units)]
    BY <1>a, <2>1 DEF HeardTypes
  <2>8. read' = [read EXCEPT ![c] = r + n] /\ heard' = [heard EXCEPT ![c] = h \o text]
    BY <2>2
  <2>9. /\ \A i \in DOMAIN h : h[i][1] = c /\ h[i][2] <= r
        /\ \A i, j \in DOMAIN h : i < j => h[i][2] < h[j][2]
    BY <1>a, <2>1 DEF HeardInOrder
  <2> HIDE DEF text, h, c, r, units, size
  <2>10. /\ h \o text \in Seq(units) /\ Len(h \o text) = Len(h) + m /\ Len(h) \in Nat
         /\ \A i \in 1..(Len(h) + m) :
              (h \o text)[i] = IF i <= Len(h) THEN h[i] ELSE text[i - Len(h)]
    BY <2>6, <2>7, ConcatProperties, LenProperties
  <2> DEFINE k == Len(h)
             g == h \o text
  <2>11. DOMAIN g = 1..(k + m) /\ DOMAIN h = 1..k
    BY <2>7, <2>10, LenProperties
  <2>12. \A i \in DOMAIN g : h[i][2] \in Nat \/ i \notin DOMAIN h
    <3>1. \A i \in DOMAIN h : h[i] \in units
      BY <2>7, <2>11, ElementOfSeq
    <3> QED
      BY <3>1 DEF units
  <2>13. \A i \in DOMAIN g :
           \/ i \in DOMAIN h /\ g[i] = h[i]
           \/ i - k \in 1..m /\ i \notin DOMAIN h /\ g[i] = <<c, r + (i - k)>>
    <3> TAKE i \in DOMAIN g
    <3>1. CASE i \in 1..k
      <4>1. i \in 1..(k + m) /\ i <= k
        BY <2>11, <3>1
      <4>2. g[i] = h[i]
        BY <2>10, <4>1
      <4> QED
        BY <2>11, <3>1, <4>2
    <3>2. CASE i \notin 1..k
      <4>1. i \in 1..(k + m) /\ i - k \in 1..m /\ ~ (i <= k)
        BY <2>6, <2>10, <2>11, <3>2
      <4>2. g[i] = text[i - k]
        BY <2>10, <4>1
      <4> QED
        BY <2>6, <2>11, <3>2, <4>1, <4>2
    <3> QED
      BY <3>1, <3>2
  <2> HIDE DEF k, g
  <2>14. k \in Nat /\ r \in Nat /\ n \in Nat /\ m \in Nat /\ m <= n
    BY <2>3, <2>4, <2>6, <2>10 DEF k
  <2>15. \A i \in DOMAIN g : g[i][1] = c /\ g[i][2] <= r + n
    <3> TAKE i \in DOMAIN g
    <3>1. CASE i \in DOMAIN h
      BY <2>9, <2>12, <2>13, <2>14, <3>1
    <3>2. CASE i \notin DOMAIN h
      <4>1. i - k \in 1..m /\ g[i] = <<c, r + (i - k)>>
        BY <2>13, <3>2
      <4> QED
        BY <2>14, <4>1
    <3> QED
      BY <3>1, <3>2
  <2>16. \A i, j \in DOMAIN g : i < j => g[i][2] < g[j][2]
    <3> SUFFICES ASSUME NEW i \in DOMAIN g, NEW j \in DOMAIN g, i < j PROVE g[i][2] < g[j][2]
      OBVIOUS
    <3>0. i \in Nat /\ j \in Nat /\ DOMAIN h = 1..k
      BY <2>11, <2>14 DEF g, k
    <3>1. CASE j \in DOMAIN h
      <4>1. i \in DOMAIN h
        <5>1. i \in 1..(k + m) /\ j \in 1..k
          BY <2>11, <3>1 DEF g, k
        <5> QED
          BY <2>14, <3>0, <5>1
      <4> QED
        BY <2>9, <2>13, <3>1, <4>1
    <3>2. CASE j \notin DOMAIN h /\ i \in DOMAIN h
      <4>1. j - k \in 1..m /\ g[j][2] = r + (j - k)
        BY <2>13, <3>2
      <4>2. g[i] = h[i] /\ h[i][2] <= r /\ h[i][2] \in Nat
        BY <2>9, <2>12, <2>13, <3>2
      <4> QED
        BY <2>14, <4>1, <4>2
    <3>3. CASE j \notin DOMAIN h /\ i \notin DOMAIN h
      <4>1. j - k \in 1..m /\ g[j][2] = r + (j - k)
        BY <2>13, <3>3
      <4>2. i - k \in 1..m /\ g[i][2] = r + (i - k)
        BY <2>13, <3>3
      <4> QED
        BY <2>14, <3>0, <4>1, <4>2
    <3> QED
      BY <3>1, <3>2, <3>3
  <2>17. HeardInOrder'
    <3> SUFFICES ASSUME NEW d \in Clients
                 PROVE  /\ \A i \in DOMAIN heard'[d] :
                             heard'[d][i][1] = d /\ heard'[d][i][2] <= read'[d]
                        /\ \A i, j \in DOMAIN heard'[d] :
                             i < j => heard'[d][i][2] < heard'[d][j][2]
      BY DEF HeardInOrder
    <3>1. CASE d = c
      <4>1. heard'[d] = g /\ read'[d] = r + n
        BY <1>b, <2>1, <2>7, <2>8, <3>1 DEF g
      <4> QED
        BY <2>15, <2>16, <3>1, <4>1
    <3>2. CASE d # c
      <4>1. heard'[d] = heard[d] /\ read'[d] = read[d]
        BY <1>b, <2>7, <2>8, <3>2
      <4> QED
        BY <1>a, <4>1 DEF HeardInOrder
    <3> QED
      BY <3>1, <3>2
  <2>18. HeardTypes'
    <3>1. buffer' = Zeroes' /\ program' \in Programs
      BY <1>a, <2>1, <2>2 DEF HeardTypes, Zeroes
    <3>2. \A d \in Clients : read'[d] <= sent'[d]
      <4> TAKE d \in Clients
      <4>1. CASE d = c
        BY <1>b, <2>1, <2>4, <2>8, <4>1
      <4>2. CASE d # c
        BY <1>a, <1>b, <2>1, <2>8, <4>2 DEF HeardTypes
      <4> QED
        BY <4>1, <4>2
    <3>3. heard' \in [Clients -> Seq(units)]
      BY <2>7, <2>8, <2>10
    <3> QED
      BY <3>1, <3>2, <3>3 DEF HeardTypes, units
  <2> QED
    BY <1>a, <2>17, <2>18 DEF HeardInv
<1>6. CASE UNCHANGED vars
  BY <1>6, <1>c DEF vars
<1> QED
  BY <1>1, <1>2, <1>3, <1>4, <1>5, <1>6 DEF Next, Loop

\* What is handed over for a client is what it sent, in its order and no unit
\* twice, although all of them share one buffer that is read as a string.
THEOREM TextIsTheClients == Spec => []HeardInOrder
<1>1. HeardInv => HeardInOrder
  BY DEF HeardInv
<1> QED
  BY InitHeardInv, NextHeardInv, <1>1, PTL DEF Spec
-----------------------------------------------------------------------------
(* The types. *)

\* What the invariants above do not say of the types.
TypeInv ==
  /\ HeardInv /\ ReachInv /\ MemberInv
  /\ mode \in {"select", "scan", "ended"}
  /\ told \in [0..(Width - 1) -> Names]
  /\ master \in {"listening", "idle", "closed"}

\* All three values of masterSocket are among those of its type.
LEMMA InitTypeInv == Init => TypeInv
<1> SUFFICES ASSUME Init PROVE TypeInv
  OBVIOUS
<1>1. HeardInv /\ ReachInv /\ MemberInv
  BY InitHeardInv, InitReachInv, InitMemberInv
<1>2. told \in [0..(Width - 1) -> Names]
  BY InitBookInv DEF BookInv
<1> QED
  BY <1>1, <1>2 DEF Init, TypeInv, NewServerSetup, ServerSetup

\* A number the owner is told is below the width.
LEMMA TellType ==
  ASSUME told \in [0..(Width - 1) -> Names], NEW n \in Int, NEW c \in Names, Tell(Truncated(n), c)
  PROVE  told' \in [0..(Width - 1) -> Names]
<1>1. Truncated(n) \in 0..(Width - 1)
  BY Constants DEF Truncated
<1> QED
  BY <1>1 DEF Tell

\* The types of the mode, the owner's book and masterSocket are kept.
LEMMA NextTypeInv == TypeInv /\ [Next]_vars => TypeInv'
<1> SUFFICES ASSUME TypeInv, [Next]_vars PROVE TypeInv'
  OBVIOUS
<1>a. HeardInv' /\ ReachInv' /\ MemberInv'
  BY NextHeardInv, NextReachInv, NextLoopTypes, NextOnePlace, NextMembers DEF TypeInv, MemberInv
<1>b. /\ mode \in {"select", "scan", "ended"} /\ told \in [0..(Width - 1) -> Names]
      /\ master \in {"listening", "idle", "closed"} /\ LoopTypes
  BY DEF TypeInv, HeardInv
<1>c. ASSUME UNCHANGED told,
             mode' \in {mode, "select", "scan", "ended"}, master' \in {master, "closed"}
      PROVE  TypeInv'
  BY <1>a, <1>b, <1>c DEF TypeInv
<1>1. ASSUME NEW c \in Clients, Connect(c) \/ Turn(c) \/ Leave(c) PROVE TypeInv'
  BY <1>1, <1>c DEF Connect, Turn, Leave
<1>2. CASE Shutdown \/ Select \/ SelectFails \/ ScanDone
  BY <1>2, <1>c DEF Shutdown, Select, SelectFails, ScanDone, CloseMaster
<1>3. CASE AcceptClient
  <2>1. PICK f \in Fds : Tell(Truncated(f), Head(backlog))
    BY <1>3 DEF AcceptClient
  <2>2. Head(backlog) \in Names /\ f \in Int
    BY <1>3, <1>b, TailItems, Constants DEF AcceptClient, LoopTypes, Peers, Names
  <2>3. told' \in [0..(Width - 1) -> Names]
    BY <1>b, <2>1, <2>2, TellType
  <2> QED
    BY <1>a, <1>b, <1>3, <2>3 DEF AcceptClient, TypeInv
<1>4. CASE AcceptFails
  <2>1. told' \in [0..(Width - 1) -> Names]
    BY <1>b, <1>4, TellType DEF AcceptFails, Names
  <2> QED
    BY <1>a, <1>b, <1>4, <2>1 DEF AcceptFails, TypeInv
<1>5. ASSUME NEW f \in Fds, RecvSome(f) PROVE TypeInv'
  BY <1>5, <1>c DEF RecvSome
<1>6. ASSUME NEW f \in Fds, RecvEnd(f) \/ RecvError(f) PROVE TypeInv'
  <2>1. mode' \in {mode, "ended"} /\ master' \in {master, "closed"}
    <3>1. CASE RecvEnd(f)
      BY <3>1 DEF RecvEnd, CloseOrEnd, EndProgram, CloseMaster
    <3>2. CASE RecvError(f)
      BY <3>2 DEF RecvError, CloseOrEnd, EndProgram, CloseMaster
    <3> QED
      BY <1>6, <3>1, <3>2
  <2>2. told' \in [0..(Width - 1) -> Names]
    <3>1. CASE RecvEnd(f)
      BY <1>b, <3>1, TellType, Constants DEF RecvEnd, Report, Peers, Names
    <3>2. CASE RecvError(f)
      BY <1>b, <3>2 DEF RecvError
    <3> QED
      BY <1>6, <3>1, <3>2
  <2> QED
    BY <1>a, <1>b, <2>1, <2>2 DEF TypeInv
<1>7. CASE UNCHANGED vars
  BY <1>7, <1>c DEF vars
<1> QED
  BY <1>1, <1>2, <1>3, <1>4, <1>5, <1>6, <1>7 DEF Next, Loop

\* The variables have their types: maxfd and the numbers the owner has fit into
\* 16 bits, and no more is read of a client than it sent.
THEOREM TypeCorrect == Spec => []TypeOK
<1>1. ASSUME TypeInv PROVE TypeOK
  <2>1. LoopTypes /\ HeardTypes /\ overlooked \subseteq Clients
          /\ (program = "NewServer" => maxfd < Width)
    BY <1>1 DEF TypeInv, HeardInv, ReachInv, MemberInv, OverlookedForGood
  <2>2. buffer \in [1..BufferSize[program] -> (Clients \X Nat) \cup {None}]
    BY <2>1 DEF HeardTypes, Zeroes
  <2>3. \A c \in Clients : read[c] \in 0..sent[c]
    BY <2>1 DEF HeardTypes, LoopTypes
  <2>4. /\ program \in Programs /\ heard \in [Clients -> Seq(Clients \X Nat)]
        /\ {masterfds, tempfds} \subseteq SUBSET (Fds \cup {Master})
        /\ maxfd \in Nat /\ fd \in Nat
        /\ backlog \in Seq(Clients) /\ conn \in [Fds -> Peers]
        /\ client \in [Clients -> {"out", "running", "refused", "left", "reset"}]
        /\ sent \in [Clients -> Nat]
    BY <2>1 DEF HeardTypes, LoopTypes, Peers
  <2> QED
    BY <1>1, <2>1, <2>2, <2>3, <2>4 DEF TypeInv, TypeOK, Names
<1> QED
  BY InitTypeInv, NextTypeInv, <1>1, PTL DEF Spec
=============================================================================
