------------------------- MODULE SimpleSocketProofs -------------------------
(***************************************************************************)
(* The invariants of SimpleSocket, for every size of header, buffer and    *)
(* packet and without a bound on what is sent.  First what FlattenSeq and  *)
(* runs of consecutive units are; then the sending side, which shares no   *)
(* variable with the receiving side; then the receiving side.              *)
(***************************************************************************)
EXTENDS SimpleSocket, SequenceTheorems, NatSets, TLAPS

-----------------------------------------------------------------------------
(* FlattenSeq. *)

\* FlattenSeq is the last of the partial concatenations.
LEMMA FlattenRecursion ==
  ASSUME NEW X, NEW ss \in Seq(Seq(X))
  PROVE  \E f \in [0..Len(ss) -> Seq(X)] :
           /\ f[0] = <<>>
           /\ \A i \in 1..Len(ss) : f[i] = f[i - 1] \o ss[i]
           /\ FlattenSeq(ss) = f[Len(ss)]
<1> DEFINE n == Len(ss)
           S == Seq(X)
           Rec(f) == [i \in 1..n |-> IF i = 1 THEN ss[i] ELSE f[i - 1] \o ss[i]]
           step == [i \in 1..n |-> [r \in S |-> r \o ss[i]]]
           flatten == CHOOSE f : f = Rec(f)
<1>1. n \in Nat /\ \A i \in 1..n : ss[i] \in S
  BY LenProperties, ElementOfSeq
<1>2. <<>> \in S
  BY EmptySeq
<1>3. step \in [1..n -> [S -> S]]
  <2>1. ASSUME NEW i \in 1..n, NEW r \in S PROVE r \o ss[i] \in S
    BY <1>1, ConcatProperties
  <2> QED BY <2>1
<1>4. PICK f \in [0..n -> S] : f[0] = <<>> /\ \A i \in 1..n : f[i] = step[i][f[i - 1]]
  <2>1. n \in Nat
    BY <1>1
  <2> HIDE DEF n, S, step
  <2>2. \E f : FollowsFrom(f, S, n, <<>>, step)
    BY <1>2, <1>3, <2>1, RecursionExists
  <2> QED BY <2>2 DEF FollowsFrom
<1>5. \A i \in 1..n : i - 1 \in 0..n /\ i \in 0..n
  BY <1>1
<1>6. ASSUME NEW i \in 1..n PROVE f[i] = f[i - 1] \o ss[i]
  <2>1. f[i - 1] \in S
    BY <1>5
  <2> QED BY <1>4, <2>1
<1> DEFINE g == [i \in 1..n |-> f[i]]
<1>7. g = Rec(g)
  <2>1. DOMAIN g = 1..n /\ DOMAIN Rec(g) = 1..n
    OBVIOUS
  <2>2. ASSUME NEW i \in 1..n PROVE g[i] = Rec(g)[i]
    <3>1. CASE i = 1
      <4>1. f[1] = f[0] \o ss[1] /\ ss[1] \in S
        <5>1. 1 \in 1..n /\ 1 - 1 = 0
          BY <1>1, <3>1
        <5> QED BY <1>1, <1>6, <5>1
      <4>2. f[1] = ss[1]
        BY <1>4, <4>1, ConcatEmptySeq
      <4> QED BY <3>1, <4>2
    <3>2. CASE i # 1
      <4>1. i - 1 \in 1..n
        BY <1>1, <3>2
      <4> QED BY <1>6, <3>2, <4>1
    <3> QED BY <3>1, <3>2
  <2> HIDE DEF g
  <2> QED BY <2>1, <2>2
<1>8. flatten = Rec(flatten)
  <2> HIDE DEF Rec, g
  <2> QED BY <1>7
<1>9. \A i \in 1..n : flatten[i] = IF i = 1 THEN ss[i] ELSE flatten[i - 1] \o ss[i]
  <2> HIDE DEF flatten
  <2> QED BY <1>8
<1>10. FlattenSeq(ss) = IF n = 0 THEN ss ELSE flatten[n]
  BY DEF FlattenSeq
<1> HIDE DEF flatten, Rec, step
<1> DEFINE Agree == {k \in Nat : k \in 1..n => flatten[k] = f[k]}
<1>11. 0 \in Agree
  OBVIOUS
<1>12. ASSUME NEW k \in Agree PROVE k + 1 \in Agree
  <2> SUFFICES ASSUME k + 1 <= n PROVE flatten[k + 1] = f[k + 1]
    OBVIOUS
  <2>1. k + 1 \in 1..n /\ (k + 1) - 1 = k /\ k \in Nat
    BY <1>1
  <2>2. flatten[k + 1] = IF k = 0 THEN ss[k + 1] ELSE flatten[k] \o ss[k + 1]
    BY <1>9, <2>1
  <2>3. f[k + 1] = f[k] \o ss[k + 1] /\ ss[k + 1] \in S
    BY <1>1, <1>6, <2>1
  <2>4. CASE k = 0
    BY <1>4, <2>2, <2>3, <2>4, ConcatEmptySeq
  <2>5. CASE k # 0
    <3>1. k \in 1..n
      BY <1>1, <2>1, <2>5
    <3>2. flatten[k] = f[k]
      BY <3>1
    <3> QED BY <2>2, <2>3, <2>5, <3>2
  <2> QED BY <2>4, <2>5
<1>13. Agree = Nat
  <2>1. Agree \in SUBSET Nat
    OBVIOUS
  <2> HIDE DEF Agree
  <2> QED BY <1>11, <1>12, <2>1, SetInduction
<1>14. FlattenSeq(ss) = f[n]
  <2>1. CASE n = 0
    <3>1. ss = <<>>
      BY <2>1, EmptySeq
    <3> QED BY <1>4, <1>10, <2>1, <3>1
  <2>2. CASE n # 0
    <3>1. n \in 1..n /\ n \in Agree
      BY <1>1, <1>13, <2>2
    <3> QED BY <1>10, <2>2, <3>1
  <2> QED BY <2>1, <2>2
<1> HIDE DEF n, S
<1> QED BY <1>4, <1>6, <1>14 DEF n, S

\* No sequences, no elements.
LEMMA FlattenEmpty == FlattenSeq(<<>>) = <<>>
  BY EmptySeq DEF FlattenSeq

\* A sequence appended is concatenated at the end: two functions that follow the
\* recursion from the same start on agree (SetInduction).
LEMMA FlattenAppend ==
  ASSUME NEW X, NEW ss \in Seq(Seq(X)), NEW s \in Seq(X)
  PROVE  /\ FlattenSeq(ss) \in Seq(X)
         /\ FlattenSeq(Append(ss, s)) = FlattenSeq(ss) \o s
<1> DEFINE n == Len(ss)
           longer == Append(ss, s)
<1>1. PICK f \in [0..n -> Seq(X)] : /\ f[0] = <<>>
                                    /\ \A i \in 1..n : f[i] = f[i - 1] \o ss[i]
                                    /\ FlattenSeq(ss) = f[n]
  BY FlattenRecursion
<1>2. /\ longer \in Seq(Seq(X)) /\ Len(longer) = n + 1 /\ n \in Nat
      /\ longer[n + 1] = s /\ \A i \in 1..n : longer[i] = ss[i]
  BY AppendProperties, LenProperties
<1> HIDE DEF longer
<1>3. PICK g \in [0..Len(longer) -> Seq(X)] :
        /\ g[0] = <<>>
        /\ \A i \in 1..Len(longer) : g[i] = g[i - 1] \o longer[i]
        /\ FlattenSeq(longer) = g[Len(longer)]
  BY <1>2, FlattenRecursion
<1> DEFINE Agree == {k \in Nat : k <= n => g[k] = f[k]}
<1>4. 0 \in Agree
  BY <1>1, <1>3
<1>5. ASSUME NEW k \in Agree PROVE k + 1 \in Agree
  <2> SUFFICES ASSUME k + 1 <= n PROVE g[k + 1] = f[k + 1]
    OBVIOUS
  <2>1. k + 1 \in 1..n /\ k + 1 \in 1..Len(longer) /\ (k + 1) - 1 = k /\ g[k] = f[k]
    BY <1>2
  <2>2. g[k + 1] = g[k] \o longer[k + 1]
    BY <1>3, <2>1
  <2>3. f[k + 1] = f[k] \o ss[k + 1]
    BY <1>1, <2>1
  <2>4. longer[k + 1] = ss[k + 1]
    BY <1>2, <2>1
  <2> QED BY <2>1, <2>2, <2>3, <2>4
<1>6. Agree = Nat
  <2>1. Agree \in SUBSET Nat
    OBVIOUS
  <2> HIDE DEF Agree
  <2> QED BY <1>4, <1>5, <2>1, SetInduction
<1>7. g[n] = f[n]
  <2>1. n \in Agree
    <3> HIDE DEF Agree
    <3> QED BY <1>2, <1>6
  <2> QED BY <2>1
<1>8. g[n + 1] = g[n] \o s
  <2>1. n + 1 \in 1..Len(longer) /\ (n + 1) - 1 = n
    BY <1>2
  <2> QED BY <1>2, <1>3, <2>1
<1>9. FlattenSeq(ss) \in Seq(X)
  <2>1. n \in 0..n
    BY <1>2
  <2> QED BY <1>1, <2>1
<1> QED BY <1>1, <1>2, <1>3, <1>7, <1>8, <1>9 DEF longer

\* Concatenation is associative on the sequences over S. As an operator of S the
\* fact is found for an S at hand without a search.
Associative(S) == \A s, t, u \in Seq(S) : (s \o t) \o u = s \o (t \o u)

LEMMA ConcatIsAssociative ==
  ASSUME NEW S
  PROVE  Associative(S)
<1> SUFFICES ASSUME NEW s \in Seq(S), NEW t \in Seq(S), NEW u \in Seq(S)
             PROVE  (s \o t) \o u = s \o (t \o u)
  BY DEF Associative
<1> QED BY ConcatAssociative

\* The first of the sequences comes first.
LEMMA FlattenHead ==
  ASSUME NEW X, NEW ss \in Seq(Seq(X)), ss # <<>>
  PROVE  FlattenSeq(ss) = Head(ss) \o FlattenSeq(Tail(ss))
<1> DEFINE n == Len(ss)
           rest == Tail(ss)
           m == Len(rest)
<1>0. \A s, t, u \in Seq(X) : (s \o t) \o u = s \o (t \o u)
  <2>1. Associative(X)
    BY ConcatIsAssociative
  <2> QED BY <2>1 DEF Associative
<1>1. PICK f \in [0..n -> Seq(X)] : /\ f[0] = <<>>
                                    /\ \A i \in 1..n : f[i] = f[i - 1] \o ss[i]
                                    /\ FlattenSeq(ss) = f[n]
  BY FlattenRecursion
<1>2. /\ rest \in Seq(Seq(X)) /\ m = n - 1 /\ n \in Nat \ {0} /\ m \in Nat
      /\ \A i \in 1..m : rest[i] = ss[i + 1]
  BY HeadTailProperties, EmptySeq, LenProperties
<1>3. Head(ss) = ss[1] /\ ss[1] \in Seq(X)
  BY <1>2, ElementOfSeq
<1> HIDE DEF rest
<1>4. PICK g \in [0..m -> Seq(X)] : /\ g[0] = <<>>
                                    /\ \A i \in 1..m : g[i] = g[i - 1] \o rest[i]
                                    /\ FlattenSeq(rest) = g[m]
  BY <1>2, FlattenRecursion
<1> DEFINE Agree == {k \in Nat : k <= m => f[k + 1] = ss[1] \o g[k]}
<1>5. 0 \in Agree
  <2>1. 1 \in 1..n /\ 1 - 1 = 0 /\ 0 + 1 = 1
    BY <1>2
  <2>2. f[1] = <<>> \o ss[1]
    BY <1>1, <2>1
  <2>3. f[1] = ss[1] \o <<>>
    BY <1>3, <2>2, ConcatEmptySeq
  <2> QED BY <1>4, <2>1, <2>3
<1>6. ASSUME NEW k \in Agree PROVE k + 1 \in Agree
  <2> SUFFICES ASSUME k \in Nat, k + 1 <= m, f[k + 1] = ss[1] \o g[k]
               PROVE  f[(k + 1) + 1] = ss[1] \o g[k + 1]
    <3>1. k \in Nat /\ k + 1 \in Nat /\ m \in Nat /\ (k + 1 <= m => k <= m)
      BY <1>2
    <3> HIDE DEF m, n
    <3> QED BY <3>1
  <2>1. /\ k + 1 \in 1..m /\ (k + 1) + 1 \in 1..n /\ ((k + 1) + 1) - 1 = k + 1
        /\ (k + 1) - 1 = k /\ k \in 0..m
    BY <1>2
  <2>2. f[(k + 1) + 1] = f[k + 1] \o ss[(k + 1) + 1] /\ ss[(k + 1) + 1] = rest[k + 1]
    BY <1>1, <1>2, <2>1
  <2>3. g[k + 1] = g[k] \o rest[k + 1]
    BY <1>4, <2>1
  <2>4. g[k] \in Seq(X) /\ rest[k + 1] \in Seq(X)
    BY <1>2, <2>1, ElementOfSeq
  <2>5. (ss[1] \o g[k]) \o rest[k + 1] = ss[1] \o (g[k] \o rest[k + 1])
    <3> DEFINE head == ss[1]
               front == g[k]
               next == rest[k + 1]
    <3>1. head \in Seq(X) /\ front \in Seq(X) /\ next \in Seq(X)
      BY <1>3, <2>4
    <3> HIDE DEF head, front, next
    <3>2. (head \o front) \o next = head \o (front \o next)
      BY <1>0, <3>1
    <3> QED BY <3>2 DEF head, front, next
  <2> QED BY <2>1, <2>2, <2>3, <2>5
<1>7. Agree = Nat
  <2>1. Agree \in SUBSET Nat
    OBVIOUS
  <2> HIDE DEF Agree
  <2> QED BY <1>5, <1>6, <2>1, SetInduction
<1>8. f[n] = ss[1] \o g[m]
  <2>1. m \in Agree /\ m + 1 = n
    <3> HIDE DEF Agree
    <3> QED BY <1>2, <1>7
  <2>2. m \in Agree => f[m + 1] = ss[1] \o g[m]
    <3>1. m \in Nat /\ m <= m
      BY <1>2
    <3> HIDE DEF m, n
    <3> QED BY <3>1
  <2> QED BY <2>1, <2>2
<1> QED BY <1>1, <1>3, <1>4, <1>8 DEF rest

-----------------------------------------------------------------------------
(* Units. *)

\* The units of packet id in the places after lo up to hi.
Stretch(id, lo, hi) == [i \in 1..(hi - lo) |-> <<id, lo + i>>]

\* A function on an interval from 1 is a sequence.
LEMMA ByElements ==
  ASSUME NEW X, NEW n \in Nat, NEW s, DOMAIN s = 1..n, s = [i \in 1..n |-> s[i]],
         \A i \in 1..n : s[i] \in X
  PROVE  s \in Seq(X) /\ Len(s) = n
<1>1. s \in [1..n -> X]
  OBVIOUS
<1>2. s \in Seq(X)
  BY <1>1, SeqDef
<1>3. Len(s) \in Nat /\ DOMAIN s = 1..Len(s)
  BY <1>2, LenProperties
<1> QED BY <1>2, <1>3

\* What the assumption says of the sizes.
LEMMA Sizes ==
  /\ \A x \in PacketSizes : x \in Nat /\ x > 0
  /\ \A x \in DataSizes : x \in Nat
  /\ HeaderSize \in Nat \ {0} /\ BufferSize \in Nat
  /\ MaxSubmitted \in Nat /\ MaxErrors \in Nat /\ MaxClients \in Nat
<1>1. \A x \in {MaxClients, MaxPackets, MaxSubmitted, MaxErrors} : x \in Nat
  BY SimpleSocketAssumption
<1>2. MaxSubmitted \in Nat /\ MaxErrors \in Nat /\ MaxClients \in Nat
  BY <1>1
<1> QED BY <1>2, SimpleSocketAssumption

\* The fields of a waiting packet.
LEMMA SizedTypes == \A p \in SizedPacket : p.id \in Nat /\ p.size \in Nat
<1> TAKE p \in SizedPacket
<1>1. p.id \in 1..MaxSubmitted /\ p.size \in PacketSizes
  BY DEF SizedPacket
<1> QED BY <1>1, Sizes

\* A stretch is a sequence of units, and these are its elements.
LEMMA StretchTypes ==
  ASSUME NEW id \in Nat, NEW lo \in Int, NEW hi \in Int, lo <= hi
  PROVE  /\ Stretch(id, lo, hi) \in Seq(Unit)
         /\ Len(Stretch(id, lo, hi)) = hi - lo
         /\ \A i \in 1..(hi - lo) : Stretch(id, lo, hi)[i] = <<id, lo + i>>
<1> DEFINE n == hi - lo
           s == Stretch(id, lo, hi)
<1>1. n \in Nat
  OBVIOUS
<1>2. s = [i \in 1..n |-> <<id, lo + i>>]
  BY DEF Stretch
<1> HIDE DEF n, s
<1>3. \A i \in 1..n : <<id, lo + i>> \in Unit
  BY <1>1 DEF Unit
<1>4. DOMAIN s = 1..n /\ s = [i \in 1..n |-> s[i]] /\ \A i \in 1..n : s[i] \in Unit
  BY <1>2, <1>3
<1>5. s \in Seq(Unit) /\ Len(s) = n
  BY <1>1, <1>4, ByElements
<1>7. \A i \in 1..n : s[i] = <<id, lo + i>>
  BY <1>2
<1> QED BY <1>5, <1>7 DEF n, s

\* A stretch is cut anywhere.
LEMMA StretchSplit ==
  ASSUME NEW id \in Nat, NEW lo \in Int, NEW mid \in Int, NEW hi \in Int,
         lo <= mid, mid <= hi
  PROVE  Stretch(id, lo, mid) \o Stretch(id, mid, hi) = Stretch(id, lo, hi)
<1> DEFINE a == Stretch(id, lo, mid)
           b == Stretch(id, mid, hi)
           c == Stretch(id, lo, hi)
<1>1. lo <= hi
  OBVIOUS
<1>2. /\ a \in Seq(Unit) /\ Len(a) = mid - lo
      /\ \A i \in 1..(mid - lo) : a[i] = <<id, lo + i>>
  BY StretchTypes
<1>3. /\ b \in Seq(Unit) /\ Len(b) = hi - mid
      /\ \A i \in 1..(hi - mid) : b[i] = <<id, mid + i>>
  BY StretchTypes
<1>4. /\ c \in Seq(Unit) /\ Len(c) = hi - lo
      /\ \A i \in 1..(hi - lo) : c[i] = <<id, lo + i>>
  BY <1>1, StretchTypes
<1> HIDE DEF a, b, c
<1>5. /\ a \o b \in Seq(Unit) /\ Len(a \o b) = Len(a) + Len(b)
      /\ \A i \in 1..(Len(a) + Len(b)) : (a \o b)[i] = IF i <= Len(a) THEN a[i]
                                                        ELSE b[i - Len(a)]
  BY <1>2, <1>3, ConcatProperties
<1>6. Len(a) + Len(b) = hi - lo
  BY <1>2, <1>3
<1>7. ASSUME NEW i \in 1..(hi - lo) PROVE (a \o b)[i] = c[i]
  <2>1. CASE i <= mid - lo
    <3>1. i \in 1..(mid - lo)
      BY <2>1
    <3> QED BY <1>2, <1>4, <1>5, <1>6, <2>1, <3>1
  <2>2. CASE ~ (i <= mid - lo)
    <3>1. i - (mid - lo) \in 1..(hi - mid) /\ mid + (i - (mid - lo)) = lo + i
      BY <2>2
    <3>2. (a \o b)[i] = b[i - (mid - lo)]
      BY <1>2, <1>5, <1>6, <2>2
    <3> QED BY <1>3, <1>4, <3>1, <3>2
  <2> QED BY <2>1, <2>2
<1>8. a \o b = c
  BY <1>4, <1>5, <1>6, <1>7, SeqEqual
<1> QED BY <1>8 DEF a, b, c

\* The first n units of a stretch are a stretch.
LEMMA StretchFront ==
  ASSUME NEW id \in Nat, NEW lo \in Int, NEW hi \in Int, lo <= hi, NEW n \in 0..(hi - lo)
  PROVE  SubSeq(Stretch(id, lo, hi), 1, n) = Stretch(id, lo, lo + n)
<1> DEFINE a == Stretch(id, lo, hi)
           b == Stretch(id, lo, lo + n)
           c == SubSeq(a, 1, n)
<1>1. /\ a \in Seq(Unit) /\ Len(a) = hi - lo
      /\ \A i \in 1..(hi - lo) : a[i] = <<id, lo + i>>
  BY StretchTypes
<1>2. /\ b \in Seq(Unit) /\ Len(b) = n
      /\ \A i \in 1..n : b[i] = <<id, lo + i>>
  <2>1. lo + n \in Int /\ lo <= lo + n /\ (lo + n) - lo = n
    OBVIOUS
  <2> HIDE DEF b
  <2>2. /\ b \in Seq(Unit) /\ Len(b) = (lo + n) - lo
        /\ \A i \in 1..((lo + n) - lo) : b[i] = <<id, lo + i>>
    BY <2>1, StretchTypes DEF b
  <2> QED BY <2>1, <2>2
<1>3. \A i \in 1..n : i \in 1..(hi - lo)
  OBVIOUS
<1> HIDE DEF a, b
<1>4. \A i \in 1..n : a[i] \in Unit
  BY <1>1, <1>3, ElementOfSeq
<1>5. /\ c \in Seq(Unit) /\ Len(c) = n /\ \A i \in 1..n : c[i] = a[i]
  <2>1. 1 \in Int /\ n \in Int
    OBVIOUS
  <2>2. /\ c \in Seq(Unit) /\ Len(c) = IF 1 <= n THEN n - 1 + 1 ELSE 0
        /\ \A i \in 1..(n - 1 + 1) : c[i] = a[1 + i - 1]
    BY <1>4, <2>1, SubSeqProperties
  <2> HIDE DEF c
  <2>3. Len(c) = n /\ \A i \in 1..n : i \in 1..(n - 1 + 1) /\ 1 + i - 1 = i
    BY <2>2
  <2> QED BY <2>2, <2>3
<1> HIDE DEF c
<1>6. \A i \in 1..Len(c) : c[i] = b[i]
  BY <1>1, <1>2, <1>3, <1>5
<1>7. c = b
  BY <1>2, <1>5, <1>6, SeqEqual
<1> QED BY <1>7 DEF a, b, c

\* What of a packet is sent and what is left of it are the packet.
LEMMA WholeStretch ==
  ASSUME NEW id, NEW size \in Nat
  PROVE  UnitsOf(id, size) = Stretch(id, 0, size)
<1>1. size - 0 = size /\ \A i \in 1..size : 0 + i = i
  OBVIOUS
<1> QED BY <1>1 DEF UnitsOf, Stretch

-----------------------------------------------------------------------------
(* The packets in a list, and those given to SendPacket. *)

Listed(list) == [i \in DOMAIN list |-> UnitsOf(list[i].id, list[i].size)]
Given(sizes) == [k \in DOMAIN sizes |-> UnitsOf(k, sizes[k])]

\* The units of a packet are a sequence.
LEMMA UnitsOfTypes ==
  ASSUME NEW id \in Nat, NEW size \in Nat
  PROVE  UnitsOf(id, size) \in Seq(Unit) /\ Len(UnitsOf(id, size)) = size
<1>1. 0 \in Int /\ size \in Int /\ 0 <= size /\ size - 0 = size
  OBVIOUS
<1>2. Stretch(id, 0, size) \in Seq(Unit) /\ Len(Stretch(id, 0, size)) = size - 0
  BY <1>1, StretchTypes
<1> QED BY <1>1, <1>2, WholeStretch

\* The packets that wait, as sequences of units.
LEMMA ListedTypes ==
  ASSUME NEW list \in Seq(SizedPacket)
  PROVE  Listed(list) \in Seq(Seq(Unit)) /\ Len(Listed(list)) = Len(list)
<1> DEFINE n == Len(list)
           s == Listed(list)
<1>1. n \in Nat /\ DOMAIN list = 1..n
  BY LenProperties
<1>2. s = [i \in 1..n |-> UnitsOf(list[i].id, list[i].size)]
  BY <1>1 DEF Listed
<1> HIDE DEF n, s
<1>3. ASSUME NEW i \in 1..n PROVE s[i] \in Seq(Unit)
  <2>1. list[i] \in SizedPacket
    BY ElementOfSeq DEF n
  <2>2. list[i].id \in Nat /\ list[i].size \in Nat
    BY <2>1, SizedTypes
  <2>3. s[i] = UnitsOf(list[i].id, list[i].size)
    BY <1>2
  <2> QED BY <2>2, <2>3, UnitsOfTypes
<1>4. DOMAIN s = 1..n /\ s = [i \in 1..n |-> s[i]]
  BY <1>2
<1>5. s \in Seq(Seq(Unit)) /\ Len(s) = n
  BY <1>1, <1>3, <1>4, ByElements
<1> QED BY <1>5 DEF n, s

\* The units that wait are those of the first packet and the rest.
LEMMA ListedTail ==
  ASSUME NEW list \in Seq(SizedPacket), list # <<>>
  PROVE  FlattenSeq(Listed(list)) =
           UnitsOf(Head(list).id, Head(list).size) \o FlattenSeq(Listed(Tail(list)))
<1> DEFINE s == Listed(list)
           rest == Tail(list)
           t == Listed(rest)
           n == Len(list)
<1>1. /\ rest \in Seq(SizedPacket) /\ Len(rest) = n - 1 /\ n \in Nat \ {0}
      /\ \A i \in 1..Len(rest) : rest[i] = list[i + 1]
  BY HeadTailProperties, EmptySeq
<1>2. Head(list) = list[1]
  OBVIOUS
<1>3. s \in Seq(Seq(Unit)) /\ Len(s) = n /\ t \in Seq(Seq(Unit)) /\ Len(t) = n - 1
  BY <1>1, ListedTypes
<1>4. \A i \in 1..n : s[i] = UnitsOf(list[i].id, list[i].size)
  BY LenProperties DEF Listed
<1>5. \A i \in 1..(n - 1) : t[i] = UnitsOf(rest[i].id, rest[i].size)
  BY <1>1, LenProperties DEF Listed
<1> HIDE DEF s, rest, t, n
<1>6. s # <<>>
  BY <1>1, <1>3, EmptySeq
<1>7. Head(s) = UnitsOf(Head(list).id, Head(list).size)
  <2>1. Head(s) = s[1] /\ 1 \in 1..n
    BY <1>1
  <2> QED BY <1>2, <1>4, <2>1
<1>8. /\ Tail(s) \in Seq(Seq(Unit)) /\ Len(Tail(s)) = n - 1
      /\ \A i \in 1..(n - 1) : Tail(s)[i] = s[i + 1]
  BY <1>3, <1>6, HeadTailProperties
<1>9. \A i \in 1..(n - 1) : i + 1 \in 1..n
  BY <1>1
<1>10. \A i \in 1..(n - 1) : Tail(s)[i] = t[i]
  BY <1>1, <1>4, <1>5, <1>8, <1>9
<1>11. Tail(s) = t
  BY <1>3, <1>8, <1>10, SeqEqual
<1>12. FlattenSeq(s) = Head(s) \o FlattenSeq(Tail(s))
  BY <1>3, <1>6, FlattenHead
<1> QED BY <1>7, <1>11, <1>12 DEF s, t, rest

\* A packet added to sendBufferList adds its units at the end.
LEMMA ListedAppend ==
  ASSUME NEW list \in Seq(SizedPacket), NEW p \in SizedPacket
  PROVE  /\ FlattenSeq(Listed(list)) \in Seq(Unit)
         /\ FlattenSeq(Listed(Append(list, p))) =
              FlattenSeq(Listed(list)) \o UnitsOf(p.id, p.size)
<1> DEFINE longer == Append(list, p)
           s == Listed(list)
           t == Listed(longer)
           u == UnitsOf(p.id, p.size)
           n == Len(list)
<1>1. /\ longer \in Seq(SizedPacket) /\ Len(longer) = n + 1 /\ n \in Nat
      /\ longer[n + 1] = p /\ \A i \in 1..n : longer[i] = list[i]
  BY AppendProperties, LenProperties
<1>2. u \in Seq(Unit)
  <2>1. p.id \in Nat /\ p.size \in Nat
    BY SizedTypes
  <2> QED BY <2>1, UnitsOfTypes
<1> HIDE DEF longer
<1>3. s \in Seq(Seq(Unit)) /\ Len(s) = n /\ t \in Seq(Seq(Unit)) /\ Len(t) = n + 1
  BY <1>1, ListedTypes
<1>4. \A i \in 1..n : s[i] = UnitsOf(list[i].id, list[i].size)
  BY LenProperties DEF Listed
<1>5. \A i \in 1..(n + 1) : t[i] = UnitsOf(longer[i].id, longer[i].size)
  BY <1>1, LenProperties DEF Listed
<1> HIDE DEF s, t, u, n
<1>6. /\ Append(s, u) \in Seq(Seq(Unit)) /\ Len(Append(s, u)) = n + 1
      /\ Append(s, u)[n + 1] = u /\ \A i \in 1..n : Append(s, u)[i] = s[i]
  BY <1>2, <1>3, AppendProperties
<1>7. ASSUME NEW i \in 1..(n + 1) PROVE t[i] = Append(s, u)[i]
  <2>1. CASE i = n + 1
    BY <1>1, <1>5, <1>6, <2>1 DEF u
  <2>2. CASE i # n + 1
    <3>1. i \in 1..n
      BY <1>1, <2>2
    <3> QED BY <1>1, <1>4, <1>5, <1>6, <3>1
  <2> QED BY <2>1, <2>2
<1>8. t = Append(s, u)
  BY <1>3, <1>6, <1>7, SeqEqual
<1>9. FlattenSeq(s) \in Seq(Unit) /\ FlattenSeq(Append(s, u)) = FlattenSeq(s) \o u
  BY <1>2, <1>3, FlattenAppend
<1> QED BY <1>8, <1>9 DEF s, t, u, longer

\* A packet submitted adds its units at the end.
LEMMA GivenAppend ==
  ASSUME NEW sizes \in Seq(PacketSizes), NEW size \in PacketSizes
  PROVE  FlattenSeq(Given(Append(sizes, size))) =
           FlattenSeq(Given(sizes)) \o UnitsOf(Len(sizes) + 1, size)
<1> DEFINE longer == Append(sizes, size)
           s == Given(sizes)
           t == Given(longer)
           n == Len(sizes)
           u == UnitsOf(n + 1, size)
<1>1. /\ longer \in Seq(PacketSizes) /\ Len(longer) = n + 1 /\ n \in Nat
      /\ longer[n + 1] = size /\ \A i \in 1..n : longer[i] = sizes[i]
  BY AppendProperties, LenProperties
<1>2. \A x \in PacketSizes : x \in Nat
  BY Sizes
<1> HIDE DEF longer
<1>3. DOMAIN longer = 1..(n + 1) /\ DOMAIN sizes = 1..n
  BY <1>1, LenProperties
<1>4. s = [k \in 1..n |-> UnitsOf(k, sizes[k])]
  BY <1>3 DEF Given
<1>5. t = [k \in 1..(n + 1) |-> UnitsOf(k, longer[k])]
  BY <1>3 DEF Given
<1>6. ASSUME NEW k \in 1..(n + 1) PROVE t[k] \in Seq(Unit)
  <2>1. k \in Nat /\ longer[k] \in Nat
    <3>1. k \in 1..Len(longer)
      BY <1>1
    <3>2. longer[k] \in PacketSizes
      BY <1>1, <3>1, ElementOfSeq
    <3> QED BY <1>2, <3>2
  <2> QED BY <1>5, <2>1, UnitsOfTypes
<1>7. ASSUME NEW k \in 1..n PROVE s[k] \in Seq(Unit) /\ t[k] = s[k]
  <2>1. k \in 1..(n + 1) /\ longer[k] = sizes[k]
    BY <1>1
  <2> HIDE DEF s, t
  <2>2. t[k] = s[k]
    BY <1>4, <1>5, <2>1
  <2> QED BY <1>6, <2>1, <2>2
<1> HIDE DEF s, t
<1>8. s \in Seq(Seq(Unit)) /\ Len(s) = n
  <2>1. DOMAIN s = 1..n /\ s = [k \in 1..n |-> s[k]]
    BY <1>4
  <2> HIDE DEF n
  <2> QED BY <1>1, <1>7, <2>1, ByElements
<1>9. t \in Seq(Seq(Unit)) /\ Len(t) = n + 1
  <2>1. DOMAIN t = 1..(n + 1) /\ t = [k \in 1..(n + 1) |-> t[k]]
    BY <1>5
  <2>2. n + 1 \in Nat
    BY <1>1
  <2> HIDE DEF n
  <2> QED BY <1>6, <2>1, <2>2, ByElements
<1>10. u \in Seq(Unit) /\ t[n + 1] = u
  <2>1. n + 1 \in Nat /\ size \in Nat /\ n + 1 \in 1..(n + 1)
    BY <1>1, <1>2
  <2> QED BY <1>1, <1>5, <2>1, UnitsOfTypes
<1> HIDE DEF u, n
<1>11. /\ Append(s, u) \in Seq(Seq(Unit)) /\ Len(Append(s, u)) = n + 1
       /\ Append(s, u)[n + 1] = u /\ \A i \in 1..n : Append(s, u)[i] = s[i]
  BY <1>8, <1>10, AppendProperties
<1>12. ASSUME NEW k \in 1..(n + 1) PROVE t[k] = Append(s, u)[k]
  <2>1. k = n + 1 \/ k \in 1..n
    BY <1>1
  <2> QED BY <1>7, <1>10, <1>11, <2>1
<1>13. t = Append(s, u)
  BY <1>9, <1>11, <1>12, SeqEqual
<1>14. FlattenSeq(Append(s, u)) = FlattenSeq(s) \o u
  BY <1>8, <1>10, FlattenAppend
<1> QED BY <1>13, <1>14 DEF s, t, u, longer, n

-----------------------------------------------------------------------------
(* The sending side. *)

\* A packet is in sendBuffer as long as not all of it is sent; without one the
\* list is empty.  Only a send() that failed takes currentSize below 0.
SendTypes ==
  /\ submitted \in Seq(PacketSizes) /\ Len(submitted) <= MaxSubmitted
  /\ transmitted \in Seq(Unit)
  /\ sendErrors \in 0..MaxErrors
  /\ sendBuffer \in [id : 0..MaxSubmitted, totalSize : PacketSizes \cup {-1},
                     currentSize : Int]
  /\ sendBufferList \in Seq(SizedPacket)
  /\ -sendErrors <= sendBuffer.currentSize
  /\ Busy => sendBuffer.currentSize < sendBuffer.totalSize
  /\ ~Busy => sendBuffer.currentSize = 0 /\ sendBufferList = <<>>

\* The steps that change what SendTypes is about.
LEMMA SendingSteps ==
  ASSUME [Next]_vars
  PROVE  /\ mode' # "uninit" => mode # "uninit"
         /\ \/ UNCHANGED sending
            \/ \E size \in PacketSizes : SendPacket(size)
            \/ Transmit
            \/ UnInit
<1>1. CASE UNCHANGED vars
  BY <1>1 DEF vars, sock
<1>2. CASE ClientArrives
  BY <1>2 DEF ClientArrives, sock
<1>3. CASE ClientLeaves
  BY <1>3 DEF ClientLeaves, sock
<1>4. CASE \E size \in DataSizes : ClientSends(size)
  BY <1>4 DEF ClientSends, sock
<1>5. CASE \E size \in PacketSizes : SendPacket(size)
  BY <1>5 DEF SendPacket, sock
<1>6. CASE RecvPacket
  BY <1>6 DEF RecvPacket, sock
<1>7. CASE Accept
  BY <1>7 DEF Accept
<1>8. CASE AcceptFails
  BY <1>8 DEF AcceptFails
<1>9. CASE UpdateIdle
  BY <1>9 DEF UpdateIdle, sock
<1>10. CASE UpdateReceive
  BY <1>10 DEF UpdateReceive, sock
<1>11. CASE UpdateClosed
  BY <1>11 DEF UpdateClosed
<1>12. CASE UnInit
  BY <1>12 DEF UnInit
<1> QED
  BY <1>1, <1>2, <1>3, <1>4, <1>5, <1>6, <1>7, <1>8, <1>9, <1>10, <1>11, <1>12
     DEF Next, Update

\* What is left of the packet under way is the stretch from currentSize on.
LEMMA LeftIsStretch ==
  LeftToSend = Stretch(sendBuffer.id, sendBuffer.currentSize, sendBuffer.totalSize)
  BY DEF LeftToSend, Stretch

\* The numbers of SendTypes.
LEMMA SendNumbers ==
  ASSUME SendTypes
  PROVE  /\ sendBuffer.id \in 0..MaxSubmitted /\ sendBuffer.id \in Nat
         /\ sendBuffer.totalSize \in Int /\ sendBuffer.currentSize \in Int
         /\ sendBuffer.totalSize \in PacketSizes \cup {-1}
         /\ ~Busy => sendBuffer.totalSize = -1
         /\ sendErrors \in Nat /\ MaxSubmitted \in Nat /\ MaxErrors \in Nat
<1>1. sendBuffer.id \in 0..MaxSubmitted /\ sendBuffer.currentSize \in Int
      /\ sendBuffer.totalSize \in PacketSizes \cup {-1} /\ sendErrors \in 0..MaxErrors
  BY DEF SendTypes
<1>2. (\A x \in PacketSizes : x \in Nat /\ x > 0) /\ MaxSubmitted \in Nat /\ MaxErrors \in Nat
  BY Sizes
<1> QED BY <1>1, <1>2 DEF Busy

\* A packet under way has something left.
LEMMA LeftTypes ==
  ASSUME SendTypes, Busy
  PROVE  /\ LeftToSend \in Seq(Unit)
         /\ Len(LeftToSend) = sendBuffer.totalSize - sendBuffer.currentSize
         /\ Len(LeftToSend) \in Nat \ {0}
<1>1. sendBuffer.currentSize < sendBuffer.totalSize
  BY DEF SendTypes
<1> DEFINE lo == sendBuffer.currentSize
           hi == sendBuffer.totalSize
           id == sendBuffer.id
<1>2. lo \in Int /\ hi \in Int /\ id \in Nat /\ lo <= hi /\ lo < hi
  BY <1>1, SendNumbers
<1>3. LeftToSend = Stretch(id, lo, hi)
  BY LeftIsStretch
<1> HIDE DEF lo, hi, id
<1>4. LeftToSend \in Seq(Unit) /\ Len(LeftToSend) = hi - lo
  BY <1>2, <1>3, StretchTypes
<1> QED BY <1>2, <1>4 DEF hi, lo

\* With sendBuffer empty nothing is unsent.
LEMMA NothingUnsent ==
  ASSUME SendTypes, ~Busy
  PROVE  Unsent = <<>>
<1>1. sendBuffer.totalSize = -1 /\ sendBuffer.currentSize = 0 /\ sendBufferList = <<>>
  BY SendNumbers DEF SendTypes
<1>2. LeftToSend = <<>>
  <2>1. 1..(-1 - 0) = 1..0
    OBVIOUS
  <2>2. DOMAIN LeftToSend = 1..0 /\ LeftToSend = [i \in 1..0 |-> LeftToSend[i]]
    BY <1>1, <2>1 DEF LeftToSend
  <2>3. \A i \in 1..0 : LeftToSend[i] \in Unit
    OBVIOUS
  <2>4. LeftToSend \in Seq(Unit) /\ Len(LeftToSend) = 0
    BY <2>2, <2>3, ByElements
  <2> QED BY <2>4, EmptySeq
<1>3. Listed(sendBufferList) = <<>>
  <2>1. sendBufferList \in Seq(SizedPacket) /\ Len(sendBufferList) = 0
    BY <1>1, EmptySeq
  <2>2. Listed(sendBufferList) \in Seq(Seq(Unit)) /\ Len(Listed(sendBufferList)) = 0
    BY <2>1, ListedTypes
  <2> QED BY <2>2, EmptySeq
<1>4. Unsent = <<>> \o FlattenSeq(<<>>)
  BY <1>2, <1>3 DEF Unsent, Listed
<1>5. <<>> \in Seq(Unit)
  BY EmptySeq
<1> QED BY <1>4, <1>5, FlattenEmpty, ConcatEmptySeq

\* What an Update does with sendBuffer: a send() that took n units, all of them
\* or not, or one that failed, or no send() at all.
Sent(n) ==
  /\ transmitted' = transmitted \o Stretch(sendBuffer.id, sendBuffer.currentSize,
                                           sendBuffer.currentSize + n)
  /\ UNCHANGED <<submitted, sendErrors>>

SentPart(n) ==
  /\ n < sendBuffer.totalSize - sendBuffer.currentSize
  /\ sendBuffer' = [sendBuffer EXCEPT !.currentSize = @ + n]
  /\ UNCHANGED sendBufferList

SendFailed ==
  /\ sendErrors < MaxErrors
  /\ sendBuffer' = [sendBuffer EXCEPT !.currentSize = @ - 1]
  /\ sendErrors' = sendErrors + 1
  /\ UNCHANGED <<sendBufferList, submitted, transmitted>>

\* What the sending half of a turn does: nothing, or send() fails, or it takes n units, all of
\* what is left (SendDone) or a part (SentPart).
LEMMA TransmitCases ==
  ASSUME SendTypes, Transmit
  PROVE  \/ UNCHANGED sending
         \/ /\ Busy
            /\ \E n \in 1..(sendBuffer.totalSize - sendBuffer.currentSize) :
                 /\ Sent(n)
                 /\ \/ n = sendBuffer.totalSize - sendBuffer.currentSize /\ SendDone
                    \/ SentPart(n)
         \/ Busy /\ SendFailed
<1>1. CASE ~Busy /\ UNCHANGED sending
  BY <1>1
<1>2. CASE /\ Busy
           /\ peer = "gone" \/ clientNonBlocking
           /\ sendErrors < MaxErrors
           /\ sendBuffer' = [sendBuffer EXCEPT !.currentSize = @ - 1]
           /\ sendErrors' = sendErrors + 1
           /\ UNCHANGED <<sendBufferList, submitted, transmitted>>
  BY <1>2 DEF SendFailed
<1>3. ASSUME Busy,
             NEW n \in 1..Len(LeftToSend),
             transmitted' = transmitted \o SubSeq(LeftToSend, 1, n),
             IF n = Len(LeftToSend)
             THEN SendDone
             ELSE /\ sendBuffer' = [sendBuffer EXCEPT !.currentSize = @ + n]
                  /\ UNCHANGED sendBufferList,
             UNCHANGED <<submitted, sendErrors>>
      PROVE  \E k \in 1..(sendBuffer.totalSize - sendBuffer.currentSize) :
               /\ Sent(k)
               /\ \/ k = sendBuffer.totalSize - sendBuffer.currentSize /\ SendDone
                  \/ SentPart(k)
  <2> DEFINE lo == sendBuffer.currentSize
             hi == sendBuffer.totalSize
             id == sendBuffer.id
  <2>1. lo \in Int /\ hi \in Int /\ id \in Nat /\ lo <= hi /\ Len(LeftToSend) = hi - lo
    BY <1>3, SendNumbers, LeftTypes DEF SendTypes
  <2>2. SubSeq(LeftToSend, 1, n) = Stretch(id, lo, lo + n)
    <3>1. LeftToSend = Stretch(id, lo, hi)
      BY LeftIsStretch
    <3>2. n \in 0..(hi - lo)
      BY <2>1
    <3> HIDE DEF lo, hi, id
    <3> QED BY <2>1, <3>1, <3>2, StretchFront
  <2>3. Sent(n)
    BY <1>3, <2>2 DEF Sent
  <2>4. n \in 1..(hi - lo)
    BY <2>1
  <2>5. (n = hi - lo /\ SendDone) \/ SentPart(n)
    <3>1. CASE n = Len(LeftToSend)
      BY <1>3, <2>1, <3>1
    <3>2. CASE n # Len(LeftToSend)
      <4>1. n < hi - lo
        BY <2>1, <2>4, <3>2
      <4> QED BY <1>3, <3>2, <4>1 DEF SentPart
    <3> QED BY <3>1, <3>2
  <2> QED BY <2>3, <2>4, <2>5
<1> QED BY <1>1, <1>2, <1>3 DEF Transmit

\* SendTypes at the start.
LEMMA SendTypesInit ==
  ASSUME Init
  PROVE  SendTypes
<1>1. MaxSubmitted \in Nat /\ MaxErrors \in Nat
  BY Sizes
<1>2. /\ submitted = <<>> /\ transmitted = <<>> /\ sendBufferList = <<>> /\ sendErrors = 0
      /\ sendBuffer = [id |-> 0, totalSize |-> -1, currentSize |-> 0]
  BY DEF Init, EmptyBuffer
<1>3. ~Busy
  BY <1>2 DEF Busy
<1>4. <<>> \in Seq(PacketSizes) /\ <<>> \in Seq(Unit) /\ <<>> \in Seq(SizedPacket) /\ Len(<<>>) = 0
  BY EmptySeq
<1> QED BY <1>1, <1>2, <1>3, <1>4 DEF SendTypes

\* An assignment to sendBuffer.currentSize alone.
LEMMA CurrentSizeSet ==
  ASSUME SendTypes, NEW size \in Int,
         sendBuffer' = [sendBuffer EXCEPT !.currentSize = size]
  PROVE  /\ sendBuffer'.id = sendBuffer.id /\ sendBuffer'.totalSize = sendBuffer.totalSize
         /\ sendBuffer'.currentSize = size
         /\ sendBuffer' \in [id : 0..MaxSubmitted, totalSize : PacketSizes \cup {-1},
                             currentSize : Int]
<1>1. sendBuffer \in [id : 0..MaxSubmitted, totalSize : PacketSizes \cup {-1},
                     currentSize : Int]
  BY DEF SendTypes
<1> QED BY <1>1

\* SendTypes is kept by every step, a case for each that changes what it is about.
LEMMA SendTypesNext ==
  ASSUME SendTypes, [Next]_vars
  PROVE  SendTypes'
<1> USE SendNumbers
<1>1. CASE UNCHANGED sending
  BY <1>1 DEF SendTypes, sending, Busy
<1>2. ASSUME NEW size \in PacketSizes, SendPacket(size) PROVE SendTypes'
  <2> DEFINE id == Len(submitted) + 1
  <2>1. /\ submitted \in Seq(PacketSizes) /\ Len(submitted) < MaxSubmitted
        /\ submitted' = Append(submitted, size)
        /\ UNCHANGED <<transmitted, sendErrors>>
    BY <1>2 DEF SendTypes, SendPacket
  <2>2. submitted' \in Seq(PacketSizes) /\ Len(submitted') = id /\ id \in 1..MaxSubmitted
    BY <2>1, AppendProperties, LenProperties
  <2>3. size \in Nat /\ size > 0
    BY Sizes
  <2>4. CASE Busy
    <3>1. /\ sendBufferList' = Append(sendBufferList, [id |-> id, size |-> size])
          /\ sendBuffer' = sendBuffer
      BY <1>2, <2>4 DEF SendPacket
    <3>2. [id |-> id, size |-> size] \in SizedPacket
      BY <2>2 DEF SizedPacket
    <3>3. sendBufferList' \in Seq(SizedPacket)
      BY <3>1, <3>2, AppendProperties DEF SendTypes
    <3> QED BY <2>1, <2>2, <2>4, <3>1, <3>3 DEF SendTypes, Busy
  <2>5. CASE ~Busy
    <3>1. /\ sendBuffer' = [id |-> id, totalSize |-> size, currentSize |-> 0]
          /\ sendBufferList' = sendBufferList
      BY <1>2, <2>5 DEF SendPacket
    <3> QED BY <2>1, <2>2, <2>3, <3>1 DEF SendTypes, Busy
  <2> QED BY <2>4, <2>5
<1>3. ASSUME Busy,
             NEW n \in 1..(sendBuffer.totalSize - sendBuffer.currentSize),
             Sent(n),
             (n = sendBuffer.totalSize - sendBuffer.currentSize /\ SendDone) \/ SentPart(n)
      PROVE  SendTypes'
  <2>1. UNCHANGED <<submitted, sendErrors>>
    BY <1>3 DEF Sent
  <2>2. transmitted' \in Seq(Unit)
    <3> DEFINE lo == sendBuffer.currentSize
               id == sendBuffer.id
               piece == Stretch(id, lo, lo + n)
    <3>1. lo \in Int /\ lo + n \in Int /\ id \in Nat /\ lo <= lo + n
      OBVIOUS
    <3>2. transmitted' = transmitted \o piece /\ transmitted \in Seq(Unit)
      BY <1>3 DEF Sent, SendTypes
    <3> HIDE DEF lo, id
    <3>3. piece \in Seq(Unit)
      BY <3>1, StretchTypes
    <3> HIDE DEF piece
    <3> QED BY <3>2, <3>3, ConcatProperties
  <2>3. CASE SentPart(n)
    <3>1. /\ sendBuffer' = [sendBuffer EXCEPT !.currentSize = @ + n]
          /\ sendBufferList' = sendBufferList
          /\ n < sendBuffer.totalSize - sendBuffer.currentSize
      BY <2>3 DEF SentPart
    <3>2. /\ sendBuffer'.id = sendBuffer.id /\ sendBuffer'.totalSize = sendBuffer.totalSize
          /\ sendBuffer'.currentSize = sendBuffer.currentSize + n
          /\ sendBuffer' \in [id : 0..MaxSubmitted, totalSize : PacketSizes \cup {-1},
                              currentSize : Int]
      <4>1. sendBuffer.currentSize + n \in Int
        OBVIOUS
      <4> QED BY <3>1, <4>1, CurrentSizeSet
    <3>3. /\ -sendErrors <= sendBuffer'.currentSize
          /\ sendBuffer'.currentSize < sendBuffer'.totalSize
      <4>1. -sendErrors <= sendBuffer.currentSize /\ sendErrors \in 0..MaxErrors
        BY DEF SendTypes
      <4>2. sendBuffer.currentSize \in Int /\ sendBuffer.totalSize \in Int /\ MaxErrors \in Nat
        BY SendNumbers, Sizes
      <4> QED BY <3>1, <3>2, <4>1, <4>2
    <3>4. Busy'
      BY <1>3, <3>2 DEF Busy
    <3> QED BY <2>1, <2>2, <3>1, <3>2, <3>3, <3>4 DEF SendTypes
  <2>4. CASE SendDone /\ sendBufferList # <<>>
    <3> DEFINE p == Head(sendBufferList)
    <3>1. p \in SizedPacket /\ Tail(sendBufferList) \in Seq(SizedPacket)
      BY <2>4, HeadTailProperties DEF SendTypes
    <3>2. p.id \in 1..MaxSubmitted /\ p.size \in PacketSizes
      BY <3>1 DEF SizedPacket
    <3>3. p.size \in Nat /\ p.size > 0
      BY <3>2, Sizes
    <3>4. /\ sendBuffer' = [id |-> p.id, totalSize |-> p.size, currentSize |-> 0]
          /\ sendBufferList' = Tail(sendBufferList)
      BY <2>4 DEF SendDone, Loaded
    <3> HIDE DEF p
    <3>5. /\ sendBuffer' \in [id : 0..MaxSubmitted, totalSize : PacketSizes \cup {-1},
                              currentSize : Int]
          /\ sendBuffer'.currentSize = 0 /\ sendBuffer'.totalSize = p.size
      BY <3>2, <3>4
    <3> QED BY <2>1, <2>2, <3>1, <3>3, <3>4, <3>5 DEF SendTypes, Busy
  <2>5. CASE SendDone /\ sendBufferList = <<>>
    <3>1. /\ sendBuffer' = [id |-> 0, totalSize |-> -1, currentSize |-> 0]
          /\ sendBufferList' = <<>>
      BY <2>5 DEF SendDone, EmptyBuffer
    <3>2. ~Busy'
      BY <3>1 DEF Busy
    <3>3. sendBufferList' \in Seq(SizedPacket)
      BY <3>1, EmptySeq
    <3> QED BY <2>1, <2>2, <3>1, <3>2, <3>3 DEF SendTypes
  <2> QED BY <1>3, <2>3, <2>4, <2>5
<1>4. CASE Busy /\ SendFailed
  <2>1. /\ sendBuffer' = [sendBuffer EXCEPT !.currentSize = @ - 1]
        /\ sendErrors' = sendErrors + 1 /\ sendErrors < MaxErrors
        /\ UNCHANGED <<sendBufferList, submitted, transmitted>>
    BY <1>4 DEF SendFailed
  <2>2. /\ sendBuffer'.id = sendBuffer.id /\ sendBuffer'.totalSize = sendBuffer.totalSize
        /\ sendBuffer'.currentSize = sendBuffer.currentSize - 1
        /\ sendBuffer' \in [id : 0..MaxSubmitted, totalSize : PacketSizes \cup {-1},
                            currentSize : Int]
    <3>1. sendBuffer.currentSize - 1 \in Int
      OBVIOUS
    <3> QED BY <2>1, <3>1, CurrentSizeSet
  <2>3. /\ -sendErrors' <= sendBuffer'.currentSize
        /\ sendBuffer'.currentSize < sendBuffer'.totalSize
        /\ sendErrors' \in 0..MaxErrors
    <3>1. /\ -sendErrors <= sendBuffer.currentSize
          /\ sendBuffer.currentSize < sendBuffer.totalSize
          /\ sendErrors \in 0..MaxErrors
      BY <1>4 DEF SendTypes
    <3>2. sendBuffer.totalSize \in Int /\ MaxErrors \in Nat
      BY SendNumbers, Sizes
    <3> QED BY <2>1, <2>2, <3>1, <3>2
  <2>4. Busy'
    BY <1>4, <2>2 DEF Busy
  <2> QED BY <2>1, <2>2, <2>3, <2>4 DEF SendTypes
<1>5. CASE Transmit
  BY <1>1, <1>3, <1>4, <1>5, TransmitCases
<1>6. CASE UnInit
  <2>1. /\ UNCHANGED <<sendBuffer, submitted, transmitted, sendErrors>>
        /\ sendBufferList' = <<>>
    BY <1>6 DEF UnInit
  <2>2. sendBufferList' \in Seq(SizedPacket)
    BY <2>1, EmptySeq
  <2> QED BY <2>1, <2>2 DEF SendTypes, Busy
<1> QED BY <1>1, <1>2, <1>5, <1>6, SendingSteps

\* The sending side is well formed in every reachable state: Busy means that a
\* packet is under way and not complete, and nothing waits without one (SendPacket,
\* SendBuf: SimpleSocket.cpp).
THEOREM SendTypesAlways == Spec => []SendTypes
<1>1. Init => SendTypes
  BY SendTypesInit
<1>2. SendTypes /\ [Next]_vars => SendTypes'
  BY SendTypesNext
<1> QED BY <1>1, <1>2, PTL DEF Spec

\* The equation EachUnitOnce states, without its condition.
NoneLost == transmitted \o Unsent = FlattenSeq(Given(submitted))

\* Unsent is the rest of the packet under way and the packets that wait.
LEMMA UnsentTypes ==
  ASSUME SendTypes
  PROVE  /\ Unsent = LeftToSend \o FlattenSeq(Listed(sendBufferList))
         /\ FlattenSeq(Listed(sendBufferList)) \in Seq(Unit)
         /\ Unsent \in Seq(Unit)
<1>1. Unsent = LeftToSend \o FlattenSeq(Listed(sendBufferList))
  BY DEF Unsent, Listed
<1>2. FlattenSeq(Listed(sendBufferList)) \in Seq(Unit)
  <2>1. sendBufferList \in Seq(SizedPacket)
    BY DEF SendTypes
  <2>2. Listed(sendBufferList) \in Seq(Seq(Unit))
    BY <2>1, ListedTypes
  <2>3. <<>> \in Seq(Unit)
    BY EmptySeq
  <2> DEFINE ss == Listed(sendBufferList)
  <2>4. ss \in Seq(Seq(Unit))
    BY <2>2
  <2> HIDE DEF ss
  <2>5. FlattenSeq(ss) \in Seq(Unit)
    BY <2>3, <2>4, FlattenAppend
  <2> QED BY <2>5 DEF ss
<1>3. Unsent \in Seq(Unit)
  <2>1. CASE Busy
    BY <1>1, <1>2, <2>1, LeftTypes, ConcatProperties
  <2>2. CASE ~Busy
    BY <2>2, NothingUnsent, EmptySeq
  <2> QED BY <2>1, <2>2
<1> QED BY <1>1, <1>2, <1>3

\* The same after a step.
LEMMA UnsentNext ==
  ( SendTypes =>
      /\ LeftToSend = Stretch(sendBuffer.id, sendBuffer.currentSize, sendBuffer.totalSize)
      /\ Unsent = LeftToSend \o FlattenSeq(Listed(sendBufferList))
      /\ ~Busy => Unsent = <<>> )'
<1>1. SendTypes =>
        /\ LeftToSend = Stretch(sendBuffer.id, sendBuffer.currentSize, sendBuffer.totalSize)
        /\ Unsent = LeftToSend \o FlattenSeq(Listed(sendBufferList))
        /\ ~Busy => Unsent = <<>>
  BY LeftIsStretch, UnsentTypes, NothingUnsent
<1> QED BY <1>1, PTL

\* SendPacket puts the units of the packet behind all the others.
LEMMA NoneLostBySubmit ==
  ASSUME SendTypes, NoneLost, NEW size \in PacketSizes, SendPacket(size)
  PROVE  NoneLost'
<1> DEFINE id == Len(submitted) + 1
           u == UnitsOf(id, size)
           T == transmitted
           L == LeftToSend
           F == FlattenSeq(Listed(sendBufferList))
           G == FlattenSeq(Given(submitted))
<1>1. submitted \in Seq(PacketSizes) /\ submitted' = Append(submitted, size)
      /\ transmitted' = transmitted
  BY DEF SendTypes, SendPacket
<1>2. id \in Nat /\ size \in Nat /\ size > 0 /\ Len(submitted) < MaxSubmitted
  BY <1>1, LenProperties, Sizes DEF SendPacket
<1>3. u \in Seq(Unit)
  BY <1>2, UnitsOfTypes
<1>4. FlattenSeq(Given(submitted')) = G \o u
  BY <1>1, GivenAppend
<1>5. T \in Seq(Unit) /\ F \in Seq(Unit) /\ T \o Unsent = G /\ Unsent \in Seq(Unit)
  BY UnsentTypes DEF SendTypes, NoneLost
<1>6. SendTypes'
  BY SendTypesNext DEF Next
<1>7. (Unsent = LeftToSend \o FlattenSeq(Listed(sendBufferList)))'
  BY <1>6, UnsentNext
<1>8. \A s, t, v \in Seq(Unit) : (s \o t) \o v = s \o (t \o v)
  <2>1. Associative(Unit)
    BY ConcatIsAssociative
  <2> QED BY <2>1 DEF Associative
<1>9. CASE Busy
  <2>1. /\ sendBufferList' = Append(sendBufferList, [id |-> id, size |-> size])
        /\ sendBuffer' = sendBuffer
    BY <1>9 DEF SendPacket
  <2>2. [id |-> id, size |-> size] \in SizedPacket
    BY <1>2, Sizes DEF SizedPacket
  <2>3. FlattenSeq(Listed(sendBufferList')) = F \o u
    <3> DEFINE p == [id |-> id, size |-> size]
    <3>1. p \in SizedPacket /\ sendBufferList \in Seq(SizedPacket)
      BY <2>2 DEF SendTypes
    <3>2. p.id = id /\ p.size = size
      OBVIOUS
    <3>3. sendBufferList' = Append(sendBufferList, p)
      BY <2>1
    <3> HIDE DEF p
    <3>4. FlattenSeq(Listed(Append(sendBufferList, p)))
            = FlattenSeq(Listed(sendBufferList)) \o UnitsOf(p.id, p.size)
      BY <3>1, ListedAppend
    <3> QED BY <3>2, <3>3, <3>4
  <2>4. LeftToSend' = L
    BY <2>1 DEF LeftToSend
  <2>5. L \in Seq(Unit) /\ Unsent = L \o F
    BY <1>9, LeftTypes, UnsentTypes
  <2>6. Unsent' = L \o (F \o u)
    BY <1>7, <2>3, <2>4
  <2>7. transmitted' \o Unsent' = T \o (L \o (F \o u))
    BY <1>1, <2>6
  <2> HIDE DEF L, F, T, G, u
  <2>8. L \o F \in Seq(Unit)
    BY <1>5, <2>5
  <2>9. L \o (F \o u) = (L \o F) \o u
    <3>1. L \in Seq(Unit) /\ F \in Seq(Unit)
      BY <1>5, <2>5
    <3> QED BY <1>3, <1>8, <3>1, Zenon
  <2>10. T \o ((L \o F) \o u) = (T \o (L \o F)) \o u
    <3>1. T \in Seq(Unit)
      BY <1>5
    <3> QED BY <1>3, <1>8, <2>8, <3>1, Zenon
  <2>11. transmitted' \o Unsent' = G \o u
    BY <1>5, <2>5, <2>7, <2>9, <2>10
  <2> QED BY <1>4, <2>11 DEF NoneLost
<1>10. CASE ~Busy
  <2>1. /\ sendBuffer' = [id |-> id, totalSize |-> size, currentSize |-> 0]
        /\ sendBufferList' = <<>>
    BY <1>10 DEF SendPacket, SendTypes
  <2>2. LeftToSend' = u
    BY <2>1, WholeStretch, <1>2, LeftIsStretch DEF LeftToSend, UnitsOf, Stretch
  <2>3. FlattenSeq(Listed(sendBufferList')) = <<>>
    <3>1. <<>> \in Seq(SizedPacket) /\ Len(<<>>) = 0
      BY EmptySeq
    <3>2. Listed(<<>>) \in Seq(Seq(Unit)) /\ Len(Listed(<<>>)) = 0
      BY <3>1, ListedTypes
    <3>3. Listed(<<>>) = <<>>
      BY <3>2, EmptySeq
    <3> QED BY <2>1, <3>3, FlattenEmpty
  <2>4. Unsent' = u
    BY <1>3, <1>7, <2>2, <2>3, ConcatEmptySeq
  <2>5. T = G
    BY <1>5, <1>10, NothingUnsent, ConcatEmptySeq
  <2> QED BY <1>1, <1>4, <2>4, <2>5 DEF NoneLost
<1> QED BY <1>9, <1>10

\* Associativity on units, as a predicate, so that an instance of it is found
\* without a search.
Regroups(s, t, u) == (s \o t) \o u = s \o (t \o u)

LEMMA UnitsRegroup ==
  ASSUME NEW s \in Seq(Unit), NEW t \in Seq(Unit), NEW u \in Seq(Unit)
  PROVE  Regroups(s, t, u)
<1>1. Associative(Unit)
  BY ConcatIsAssociative
<1> QED BY <1>1 DEF Associative, Regroups

\* A send() that took n units moves them from the front of Unsent.
LEMMA NoneLostBySend ==
  ASSUME SendTypes, NoneLost, SendTypes', Busy,
         NEW n \in 1..(sendBuffer.totalSize - sendBuffer.currentSize),
         Sent(n),
         (n = sendBuffer.totalSize - sendBuffer.currentSize /\ SendDone) \/ SentPart(n)
  PROVE  NoneLost'
<1> DEFINE id == sendBuffer.id
           lo == sendBuffer.currentSize
           hi == sendBuffer.totalSize
           T == transmitted
           A == Stretch(id, lo, lo + n)
           B == Stretch(id, lo + n, hi)
           F == FlattenSeq(Listed(sendBufferList))
           G == FlattenSeq(Given(submitted))
<1>1. lo \in Int /\ hi \in Int /\ id \in Nat /\ n \in 1..(hi - lo)
  BY SendNumbers
<1>2. lo <= lo + n /\ lo + n <= hi /\ lo + n \in Int
  BY <1>1
<1>3. A \in Seq(Unit) /\ B \in Seq(Unit) /\ A \o B = LeftToSend
  <2>1. LeftToSend = Stretch(id, lo, hi)
    BY LeftIsStretch
  <2> DEFINE mid == lo + n
  <2> HIDE DEF lo, hi, id
  <2>2. mid \in Int /\ lo <= mid /\ mid <= hi
    BY <1>2
  <2> HIDE DEF mid
  <2>3. /\ Stretch(id, lo, mid) \in Seq(Unit) /\ Stretch(id, mid, hi) \in Seq(Unit)
        /\ Stretch(id, lo, mid) \o Stretch(id, mid, hi) = Stretch(id, lo, hi)
    BY <1>1, <2>2, StretchTypes, StretchSplit
  <2> QED BY <2>1, <2>3 DEF mid
<1>4. T \in Seq(Unit) /\ F \in Seq(Unit) /\ T \o ((A \o B) \o F) = G
  BY <1>3, UnsentTypes DEF SendTypes, NoneLost
<1>5. transmitted' = T \o A /\ submitted' = submitted
  BY DEF Sent
<1>6. Unsent' = B \o F
  <2>1. CASE SentPart(n)
    <3>1. sendBufferList' = sendBufferList /\ sendBuffer' = [sendBuffer EXCEPT !.currentSize = lo + n]
      BY <2>1 DEF SentPart
    <3>2. sendBuffer'.id = id /\ sendBuffer'.totalSize = hi /\ sendBuffer'.currentSize = lo + n
      BY <1>2, <3>1, CurrentSizeSet
    <3>3. LeftToSend' = B
      <4>1. (LeftToSend = Stretch(sendBuffer.id, sendBuffer.currentSize, sendBuffer.totalSize))'
        BY UnsentNext
      <4> QED BY <3>2, <4>1
    <3>4. (Unsent = LeftToSend \o FlattenSeq(Listed(sendBufferList)))'
      BY UnsentNext
    <3> QED BY <3>1, <3>3, <3>4
  <2>2. CASE n = hi - lo /\ SendDone
    <3>1. lo + n = hi
      BY <1>1, <2>2
    <3>2. B = <<>>
      <4>1. hi - hi = 0 /\ hi <= hi
        BY <1>1
      <4> DEFINE top == hi
      <4>2. B = Stretch(id, top, top) /\ top - top = 0 /\ top <= top /\ top \in Int
        BY <1>1, <3>1, <4>1
      <4> HIDE DEF B, top, id
      <4>3. B \in Seq(Unit) /\ Len(B) = 0
        BY <1>1, <4>2, StretchTypes
      <4> QED BY <4>3, EmptySeq
    <3>3. B \o F = F
      <4> HIDE DEF F, B
      <4> QED BY <1>4, <3>2, ConcatEmptySeq
    <3>4. CASE sendBufferList # <<>>
      <4> DEFINE p == Head(sendBufferList)
                 rest == Tail(sendBufferList)
      <4>1. sendBufferList \in Seq(SizedPacket)
        BY DEF SendTypes
      <4>2. p \in SizedPacket /\ rest \in Seq(SizedPacket)
        BY <3>4, <4>1, HeadTailProperties
      <4>3. p.id \in Nat /\ p.size \in Nat
        BY <4>2, SizedTypes
      <4>4. /\ sendBuffer' = [id |-> p.id, totalSize |-> p.size, currentSize |-> 0]
            /\ sendBufferList' = rest
        BY <2>2, <3>4 DEF SendDone, Loaded
      <4>5. F = UnitsOf(p.id, p.size) \o FlattenSeq(Listed(rest))
        BY <3>4, <4>1, ListedTail
      <4> HIDE DEF p, rest
      <4>6. LeftToSend' = UnitsOf(p.id, p.size)
        <5>1. (LeftToSend = Stretch(sendBuffer.id, sendBuffer.currentSize, sendBuffer.totalSize))'
          BY UnsentNext
        <5> QED BY <4>3, <4>4, <5>1, WholeStretch
      <4>7. (Unsent = LeftToSend \o FlattenSeq(Listed(sendBufferList)))'
        BY UnsentNext
      <4> QED BY <3>3, <4>4, <4>5, <4>6, <4>7
    <3>5. CASE sendBufferList = <<>>
      <4>1. sendBuffer' = EmptyBuffer
        BY <2>2, <3>5 DEF SendDone
      <4>2. ~Busy'
        BY <4>1 DEF Busy, EmptyBuffer
      <4>3. Unsent' = <<>>
        BY <4>2, UnsentNext
      <4>4. F = <<>>
        <5>1. <<>> \in Seq(SizedPacket) /\ Len(<<>>) = 0
          BY EmptySeq
        <5>2. Listed(<<>>) \in Seq(Seq(Unit)) /\ Len(Listed(<<>>)) = 0
          BY <5>1, ListedTypes
        <5>3. Listed(<<>>) = <<>>
          BY <5>2, EmptySeq
        <5> QED BY <3>5, <5>3, FlattenEmpty
      <4> QED BY <3>3, <4>3, <4>4
    <3> QED BY <3>4, <3>5
  <2> QED BY <2>1, <2>2
<1>7. (T \o A) \o (B \o F) = T \o ((A \o B) \o F)
  <2> HIDE DEF T, A, B, F
  <2>1. T \in Seq(Unit) /\ A \in Seq(Unit) /\ B \in Seq(Unit) /\ F \in Seq(Unit)
    BY <1>3, <1>4
  <2> DEFINE rest == B \o F
  <2>2. rest \in Seq(Unit)
    BY <2>1, ConcatProperties
  <2>3. Regroups(T, A, rest) /\ Regroups(A, B, F)
    <3> HIDE DEF rest
    <3> QED BY <2>1, <2>2, UnitsRegroup
  <2> QED BY <2>3 DEF Regroups
<1> QED BY <1>4, <1>5, <1>6, <1>7 DEF NoneLost

\* NoneLost at the start.
LEMMA NoneLostInit ==
  ASSUME Init
  PROVE  NoneLost
<1>1. SendTypes
  BY SendTypesInit
<1>2. ~Busy /\ transmitted = <<>> /\ submitted = <<>>
  BY DEF Init, Busy, EmptyBuffer
<1>3. Given(submitted) = <<>>
  <2>1. DOMAIN <<>> = 1..0
    BY EmptySeq, LenProperties
  <2>2. DOMAIN Given(<<>>) = 1..0 /\ Given(<<>>) = [i \in 1..0 |-> Given(<<>>)[i]]
    BY <2>1 DEF Given
  <2>3. \A i \in 1..0 : Given(<<>>)[i] \in Unit
    OBVIOUS
  <2>4. Given(<<>>) \in Seq(Unit) /\ Len(Given(<<>>)) = 0
    BY <2>2, <2>3, ByElements
  <2> QED BY <1>2, <2>4, EmptySeq
<1>4. transmitted \o Unsent = <<>> \o <<>>
  BY <1>1, <1>2, NothingUnsent
<1>5. <<>> \in Seq(Unit)
  BY EmptySeq
<1> QED BY <1>3, <1>4, <1>5, ConcatEmptySeq, FlattenEmpty DEF NoneLost

SendInv == SendTypes /\ (mode # "uninit" /\ sendErrors = 0 => NoneLost)

\* SendInv is kept: SendPacket adds units at the end of both sides, send() moves
\* them from Unsent to transmitted, the other steps touch neither.
LEMMA SendInvNext ==
  ASSUME SendInv, [Next]_vars
  PROVE  SendInv'
<1>1. SendTypes /\ SendTypes'
  BY SendTypesNext DEF SendInv
<1> SUFFICES ASSUME mode' # "uninit" /\ sendErrors' = 0 PROVE NoneLost'
  BY <1>1 DEF SendInv
<1>2. mode # "uninit"
  BY SendingSteps
<1>3. CASE UNCHANGED sending
  <2>1. sendErrors = 0 /\ UNCHANGED <<sendBuffer, sendBufferList, submitted, transmitted>>
    BY <1>3 DEF sending
  <2>2. NoneLost
    BY <1>2, <2>1 DEF SendInv
  <2> QED BY <2>1, <2>2 DEF NoneLost, Unsent, LeftToSend, Given
<1>4. ASSUME NEW size \in PacketSizes, SendPacket(size) PROVE NoneLost'
  <2>1. sendErrors = 0
    BY <1>4 DEF SendPacket
  <2> QED BY <1>1, <1>2, <1>4, <2>1, NoneLostBySubmit DEF SendInv
<1>5. ASSUME Busy,
             NEW n \in 1..(sendBuffer.totalSize - sendBuffer.currentSize),
             Sent(n),
             (n = sendBuffer.totalSize - sendBuffer.currentSize /\ SendDone) \/ SentPart(n)
      PROVE  NoneLost'
  <2>1. sendErrors = 0
    BY <1>5 DEF Sent
  <2> QED BY <1>1, <1>2, <1>5, <2>1, NoneLostBySend DEF SendInv
<1>6. ~SendFailed
  <2>1. sendErrors \in Nat
    BY <1>1, SendNumbers
  <2> QED BY <2>1 DEF SendFailed
<1>7. CASE Transmit
  BY <1>1, <1>3, <1>5, <1>6, <1>7, TransmitCases
<1>8. ~UnInit
  BY DEF UnInit
<1> QED BY <1>3, <1>4, <1>7, <1>8, SendingSteps

\* As long as no send() has failed, what was sent and what is still to be sent
\* are together the packets given to SendPacket, for every size and number of
\* packets and every way send() cuts them up (SendPacket, SendDone, UpdateServer).
THEOREM SentOnceInOrder == Spec => []EachUnitOnce
<1>1. Init => SendInv
  BY SendTypesInit, NoneLostInit DEF SendInv
<1>2. SendInv /\ [Next]_vars => SendInv'
  BY SendInvNext
<1>3. SendInv => EachUnitOnce
  BY DEF SendInv, EachUnitOnce, NoneLost, Given
<1> QED BY <1>1, <1>2, <1>3, PTL DEF Spec

-----------------------------------------------------------------------------
(* The receiving side. *)

\* The units of the packets that were sent to us, and what the buffer starts with.
SentUnits ==
  {u \in Nat \X Int : u[1] \in DOMAIN incoming /\ u[2] \in 1..(HeaderSize + incoming[u[1]])}
Blank == <<0, 0>>

RecvTypes ==
  /\ incoming \in Seq(DataSizes)
  /\ inbound \in Seq(SentUnits) /\ readOut \in Seq(SentUnits)
  /\ recvBuffer \in [totalSize : -1..BufferSize,
                     buffer : [1..BufferSize -> SentUnits \cup {Blank}]]
  /\ \A i \in 1..recvBuffer.totalSize : recvBuffer.buffer[i] \in SentUnits
  /\ taken \in Seq(Seq(SentUnits)) /\ recvBufferList \in Seq(Seq(SentUnits))

\* The parts of a unit the peer has sent.
LEMMA SentUnitIs ==
  ASSUME incoming \in Seq(DataSizes), NEW u \in SentUnits
  PROVE  /\ u \in Nat \X Int /\ u = <<u[1], u[2]>> /\ u[1] \in Nat /\ u[2] \in Nat
         /\ u[1] \in 1..Len(incoming) /\ incoming[u[1]] \in Nat
         /\ u[2] \in 1..(HeaderSize + incoming[u[1]])
<1>1. u \in Nat \X Int /\ u[1] \in DOMAIN incoming
      /\ u[2] \in 1..(HeaderSize + incoming[u[1]])
  BY DEF SentUnits
<1>2. u[1] \in 1..Len(incoming)
  BY <1>1, LenProperties
<1>3. incoming[u[1]] \in DataSizes
  BY <1>2, ElementOfSeq
<1>4. incoming[u[1]] \in Nat /\ HeaderSize \in Nat
  BY <1>3, Sizes
<1> QED BY <1>1, <1>2, <1>4

\* What RecvBuf reads as dataSize is a number, and behind a first unit it is the
\* size of that unit's packet.
LEMMA DataSizeIs ==
  ASSUME incoming \in Seq(DataSizes), NEW u \in SentUnits \cup {Blank}
  PROVE  /\ DataSize(u) \in Nat
         /\ u[2] = 1 => DataSize(u) = incoming[u[1]]
<1>1. CASE u[2] = 1
  <2>1. u \in SentUnits
    BY <1>1 DEF Blank
  <2>2. incoming[u[1]] \in Nat
    BY <2>1, SentUnitIs
  <2> QED BY <1>1, <2>2 DEF DataSize
<1>2. CASE u[2] # 1
  BY <1>2 DEF DataSize
<1> QED BY <1>1, <1>2

\* A sequence cut in two.
LEMMA Cut ==
  ASSUME NEW X, NEW s \in Seq(X), NEW n \in 0..Len(s)
  PROVE  /\ SubSeq(s, 1, n) \in Seq(X) /\ Len(SubSeq(s, 1, n)) = n
         /\ \A i \in 1..n : SubSeq(s, 1, n)[i] = s[i]
         /\ SubSeq(s, n + 1, Len(s)) \in Seq(X)
         /\ Len(SubSeq(s, n + 1, Len(s))) = Len(s) - n
         /\ \A i \in 1..(Len(s) - n) : SubSeq(s, n + 1, Len(s))[i] = s[n + i]
<1> DEFINE m == Len(s)
           a == SubSeq(s, 1, n)
           b == SubSeq(s, n + 1, m)
<1>1. m \in Nat /\ \A i \in 1..m : s[i] \in X
  BY LenProperties, ElementOfSeq
<1> HIDE DEF m
<1>2. n \in Int /\ n + 1 \in Int /\ 1 \in Int /\ m \in Int /\ 0 <= n /\ n <= m
  BY <1>1 DEF m
<1>3. (\A i \in 1..n : s[i] \in X) /\ (\A i \in (n + 1)..m : s[i] \in X)
  BY <1>1, <1>2
<1>4. /\ a \in Seq(X) /\ Len(a) = IF 1 <= n THEN n - 1 + 1 ELSE 0
      /\ \A i \in 1..(n - 1 + 1) : a[i] = s[1 + i - 1]
  BY <1>2, <1>3, SubSeqProperties
<1>5. /\ b \in Seq(X) /\ Len(b) = IF n + 1 <= m THEN m - (n + 1) + 1 ELSE 0
      /\ \A i \in 1..(m - (n + 1) + 1) : b[i] = s[n + 1 + i - 1]
  BY <1>2, <1>3, SubSeqProperties
<1> HIDE DEF a, b
<1>6. Len(a) = n /\ Len(b) = m - n
  BY <1>2, <1>4, <1>5
<1>7. ASSUME NEW i \in 1..n PROVE a[i] = s[i]
  <2>1. i \in 1..(n - 1 + 1) /\ 1 + i - 1 = i
    BY <1>2
  <2> QED BY <1>4, <2>1
<1>8. ASSUME NEW i \in 1..(m - n) PROVE b[i] = s[n + i]
  <2>1. i \in 1..(m - (n + 1) + 1) /\ n + 1 + i - 1 = n + i
    BY <1>2
  <2> QED BY <1>5, <2>1
<1> QED BY <1>4, <1>5, <1>6, <1>7, <1>8 DEF a, b, m

\* What recv returned, where it is put, and what the loop of RecvDone does.
Chunk(n) == SubSeq(inbound, 1, n)
Rest(n) == SubSeq(inbound, n + 1, Len(inbound))
HeldSize == Offset(recvBuffer.totalSize)
Filled(n) == Copied(recvBuffer.buffer, Chunk(n), HeldSize)
FrontSize(n) == HeaderSize + DataSize(Filled(n)[1])
Turns(n) == Whole(HeldSize + n, FrontSize(n))

\* What the chunk of a recv does, in the terms of Filled, Turns and Rest.
LEMMA ReceiveIs ==
  ASSUME NEW n, Receive(n)
  PROVE  /\ HeldSize + n <= BufferSize
         /\ recvBuffer' = [totalSize |-> (HeldSize + n) - Turns(n) * FrontSize(n),
                           buffer |-> Filled(n)]
         /\ recvBufferList' =
              recvBufferList \o [i \in 1..Turns(n) |-> SubSeq(Filled(n), 1, FrontSize(n))]
         /\ inbound' = Rest(n) /\ readOut' = readOut \o Chunk(n)
         /\ tidy' = (tidy /\ \A i \in 1..(n - 1) : ~EndsPacket(Chunk(n)[i]))
         /\ taken' = taken
  BY DEF Receive, RecvDone, Chunk, Rest, HeldSize, Filled, FrontSize, Turns

\* The buffer with the chunk behind what is held.
LEMMA FilledIs ==
  ASSUME RecvTypes, NEW n \in 1..Len(inbound), HeldSize + n <= BufferSize
  PROVE  /\ HeldSize \in Nat /\ HeldSize + n \in 1..BufferSize /\ n \in Nat
         /\ recvBuffer.totalSize \in Int
         /\ HeldSize = IF recvBuffer.totalSize > 0 THEN recvBuffer.totalSize ELSE 0
         /\ Chunk(n) \in Seq(SentUnits) /\ Len(Chunk(n)) = n
         /\ \A i \in 1..n : Chunk(n)[i] = inbound[i]
         /\ Rest(n) \in Seq(SentUnits) /\ Len(Rest(n)) = Len(inbound) - n
         /\ \A i \in 1..(Len(inbound) - n) : Rest(n)[i] = inbound[n + i]
         /\ Filled(n) \in [1..BufferSize -> SentUnits \cup {Blank}]
         /\ \A i \in 1..HeldSize : Filled(n)[i] = recvBuffer.buffer[i]
         /\ \A i \in 1..n : Filled(n)[HeldSize + i] = inbound[i]
         /\ \A i \in 1..(HeldSize + n) : Filled(n)[i] \in SentUnits
         /\ FrontSize(n) \in Nat \ {0}
<1>1. /\ inbound \in Seq(SentUnits) /\ recvBuffer.totalSize \in -1..BufferSize
      /\ recvBuffer.buffer \in [1..BufferSize -> SentUnits \cup {Blank}]
      /\ \A i \in 1..recvBuffer.totalSize : recvBuffer.buffer[i] \in SentUnits
      /\ incoming \in Seq(DataSizes)
  BY DEF RecvTypes
<1>2. BufferSize \in Nat /\ HeaderSize \in Nat \ {0} /\ Len(inbound) \in Nat
  BY <1>1, Sizes, LenProperties
<1>3. /\ HeldSize = IF recvBuffer.totalSize > 0 THEN recvBuffer.totalSize ELSE 0
      /\ HeldSize \in Nat /\ n \in Nat /\ HeldSize + n \in 1..BufferSize
      /\ recvBuffer.totalSize \in Int
  BY <1>1, <1>2 DEF HeldSize, Offset
<1>4. n \in 0..Len(inbound)
  BY <1>2
<1>5. /\ Chunk(n) \in Seq(SentUnits) /\ Len(Chunk(n)) = n
      /\ \A i \in 1..n : Chunk(n)[i] = inbound[i]
      /\ Rest(n) \in Seq(SentUnits) /\ Len(Rest(n)) = Len(inbound) - n
      /\ \A i \in 1..(Len(inbound) - n) : Rest(n)[i] = inbound[n + i]
  BY <1>1, <1>4, Cut DEF Chunk, Rest
<1> DEFINE off == HeldSize
           old == recvBuffer.buffer
           chunk == Chunk(n)
           b == Filled(n)
<1>6. b = [i \in 1..BufferSize |-> IF i \in (off + 1)..(off + n) THEN chunk[i - off] ELSE old[i]]
  BY <1>5 DEF Filled, Copied
<1> HIDE DEF off, old, chunk, b
<1>7. ASSUME NEW i \in 1..off PROVE i \in 1..BufferSize /\ b[i] = old[i] /\ b[i] \in SentUnits
  <2>1. i \in 1..BufferSize /\ ~ (i \in (off + 1)..(off + n)) /\ i \in 1..recvBuffer.totalSize
    BY <1>2, <1>3 DEF off
  <2>2. b[i] = old[i]
    BY <1>6, <2>1
  <2>3. old[i] \in SentUnits
    BY <1>1, <2>1 DEF old
  <2> QED BY <2>1, <2>2, <2>3
<1>8. ASSUME NEW i \in 1..n
      PROVE  off + i \in 1..BufferSize /\ b[off + i] = inbound[i] /\ b[off + i] \in SentUnits
  <2>1. /\ off + i \in 1..BufferSize /\ off + i \in (off + 1)..(off + n) /\ (off + i) - off = i
        /\ i \in 1..Len(inbound)
    <3>1. off \in Nat /\ n \in Nat /\ off + n <= BufferSize /\ n <= Len(inbound)
      BY <1>2, <1>3 DEF off
    <3> QED BY <1>2, <3>1
  <2>2. b[off + i] = inbound[i]
    BY <1>5, <1>6, <2>1 DEF chunk
  <2>3. inbound[i] \in SentUnits
    BY <1>1, <2>1, ElementOfSeq
  <2> QED BY <2>1, <2>2, <2>3
<1>9. ASSUME NEW i \in 1..(off + n) PROVE b[i] \in SentUnits
  <2>1. CASE i \in 1..off
    BY <1>7, <2>1
  <2>2. CASE ~ (i \in 1..off)
    <3>1. i - off \in 1..n /\ off + (i - off) = i
      BY <1>3, <2>2 DEF off
    <3> QED BY <1>8, <3>1
  <2> QED BY <2>1, <2>2
<1>10. b \in [1..BufferSize -> SentUnits \cup {Blank}]
  <2>1. ASSUME NEW i \in 1..BufferSize PROVE b[i] \in SentUnits \cup {Blank}
    <3>1. CASE i \in (off + 1)..(off + n)
      <4>1. i \in 1..(off + n)
        BY <1>3, <3>1 DEF off
      <4> QED BY <1>9, <4>1
    <3>2. CASE ~ (i \in (off + 1)..(off + n))
      <4>1. b[i] = old[i]
        BY <1>6, <3>2
      <4> QED BY <1>1, <4>1 DEF old
    <3> QED BY <3>1, <3>2
  <2>2. DOMAIN b = 1..BufferSize /\ b = [i \in 1..BufferSize |-> b[i]]
    BY <1>6
  <2> QED BY <2>1, <2>2
<1>11. FrontSize(n) \in Nat \ {0}
  <2>1. 1 \in 1..BufferSize
    BY <1>2, <1>3
  <2>2. b[1] \in SentUnits \cup {Blank}
    BY <1>10, <2>1
  <2>3. DataSize(b[1]) \in Nat
    BY <1>1, <2>2, DataSizeIs
  <2> QED BY <1>2, <2>3 DEF FrontSize, b
<1> QED BY <1>3, <1>5, <1>7, <1>8, <1>9, <1>10, <1>11 DEF off, b, old

\* The loop stops when less than the packet at the front is left.
LEMMA LoopEnds ==
  ASSUME NEW total \in Nat, NEW size \in Nat \ {0}
  PROVE  /\ Whole(total, size) \in Nat
         /\ total - Whole(total, size) * size \in 0..(size - 1)
         /\ total - Whole(total, size) * size <= total
         /\ Whole(total, size) > 0 => size <= total
         /\ total < size => Whole(total, size) = 0
         /\ total = size => Whole(total, size) = 1
<1> DEFINE q == total \div size
<1>1. q \in Nat
  OBVIOUS
<1>2. q * size <= total /\ total < q * size + size
  OBVIOUS
<1>3. q > 0 => size <= total
  OBVIOUS
<1>4. total < size => q = 0
  OBVIOUS
<1>5. total = size => q = 1
  OBVIOUS
<1>6. q * size \in Nat
  BY <1>1
<1> DEFINE m == q * size
<1>7. m \in Nat /\ m <= total /\ total < m + size
  BY <1>2, <1>6
<1> HIDE DEF m
<1>8. total - m \in 0..(size - 1) /\ total - m <= total
  BY <1>7
<1> QED BY <1>1, <1>3, <1>4, <1>5, <1>8 DEF Whole, m

\* The steps, by what they do to the receiving side.
LEMMA ReceivingSteps ==
  ASSUME [Next]_vars
  PROVE  \/ UNCHANGED <<receiving, inbound, incoming, peer, clientSock>>
         \/ \E size \in DataSizes : ClientSends(size)
         \/ ClientLeaves
         \/ UNCHANGED <<receiving, incoming>> /\ Accept
         \/ \E n \in 1..Len(inbound) : Receive(n) /\ UpdateReceive /\ incoming' = incoming
         \/ RecvPacket
         \/ UpdateClosed
         \/ UnInit
<1>1. CASE UNCHANGED vars
  BY <1>1 DEF vars, outside, sock
<1>2. CASE ClientArrives
  BY <1>2 DEF ClientArrives, sock
<1>3. CASE \E size \in PacketSizes : SendPacket(size)
  BY <1>3 DEF SendPacket, outside, sock
<1>4. CASE Accept
  BY <1>4 DEF Accept
<1>5. CASE AcceptFails
  BY <1>5 DEF AcceptFails
<1>6. CASE UpdateIdle
  BY <1>6 DEF UpdateIdle, outside, sock
<1>7. CASE UpdateReceive
  BY <1>7 DEF UpdateReceive
<1> QED BY <1>1, <1>2, <1>3, <1>4, <1>5, <1>6, <1>7 DEF Next, Update

\* RecvTypes at the start.
LEMMA RecvTypesInit ==
  ASSUME Init
  PROVE  RecvTypes
<1>1. BufferSize \in Nat
  BY Sizes
<1>2. /\ incoming = <<>> /\ inbound = <<>> /\ readOut = <<>> /\ taken = <<>>
      /\ recvBufferList = <<>>
      /\ recvBuffer = [totalSize |-> -1, buffer |-> [i \in 1..BufferSize |-> Blank]]
  BY DEF Init, Blank
<1>3. /\ <<>> \in Seq(DataSizes) /\ <<>> \in Seq(SentUnits) /\ <<>> \in Seq(Seq(SentUnits))
  BY EmptySeq
<1>4. /\ recvBuffer \in [totalSize : -1..BufferSize,
                         buffer : [1..BufferSize -> SentUnits \cup {Blank}]]
      /\ recvBuffer.totalSize = -1
  BY <1>1, <1>2
<1>5. \A i \in 1..recvBuffer.totalSize : recvBuffer.buffer[i] \in SentUnits
  BY <1>4
<1> QED BY <1>2, <1>3, <1>4, <1>5 DEF RecvTypes

\* More packets leave the units of the earlier ones what they are.
LEMMA MoreUnits ==
  ASSUME incoming \in Seq(DataSizes), NEW size \in DataSizes, incoming' = Append(incoming, size)
  PROVE  /\ incoming' \in Seq(DataSizes) /\ Len(incoming') = Len(incoming) + 1
         /\ incoming'[Len(incoming) + 1] = size
         /\ \A p \in 1..Len(incoming) : p \in 1..Len(incoming') /\ incoming'[p] = incoming[p]
         /\ SentUnits \subseteq SentUnits'
<1>1. /\ incoming' \in Seq(DataSizes) /\ Len(incoming') = Len(incoming) + 1
      /\ incoming'[Len(incoming) + 1] = size
      /\ \A p \in 1..Len(incoming) : incoming'[p] = incoming[p]
  BY AppendProperties
<1>2. /\ DOMAIN incoming = 1..Len(incoming) /\ DOMAIN incoming' = 1..Len(incoming')
      /\ Len(incoming) \in Nat
  BY <1>1, LenProperties
<1>3. \A p \in 1..Len(incoming) : p \in 1..Len(incoming')
  BY <1>1, <1>2
<1>4. SentUnits \subseteq SentUnits'
  BY <1>1, <1>2, <1>3 DEF SentUnits
<1> QED BY <1>1, <1>3, <1>4

\* The units a client sends are in SentUnits from then on.
LEMMA NewUnits ==
  ASSUME incoming \in Seq(DataSizes), NEW size \in DataSizes, incoming' = Append(incoming, size)
  PROVE  LET id == Len(incoming) + 1
             new == UnitsOf(id, HeaderSize + size)
         IN /\ id \in Nat /\ size \in Nat /\ HeaderSize + size \in Nat \ {0}
            /\ new \in Seq(SentUnits') /\ Len(new) = HeaderSize + size
            /\ \A i \in 1..(HeaderSize + size) : new[i] = <<id, i>>
<1> DEFINE id == Len(incoming) + 1
           n == HeaderSize + size
           new == UnitsOf(id, n)
<1>1. size \in Nat /\ HeaderSize \in Nat \ {0} /\ Len(incoming) \in Nat
  BY Sizes, LenProperties
<1>2. id \in Nat /\ n \in Nat \ {0}
  BY <1>1
<1>3. incoming' \in Seq(DataSizes) /\ Len(incoming') = id /\ incoming'[id] = size
  BY MoreUnits
<1>4. id \in DOMAIN incoming'
  BY <1>2, <1>3, LenProperties
<1>5. new = [i \in 1..n |-> <<id, i>>]
  BY DEF UnitsOf
<1>6. n = HeaderSize + incoming'[id]
  BY <1>3
<1> HIDE DEF id, n, new
<1>7. \A i \in 1..n : new[i] \in SentUnits'
  BY <1>2, <1>4, <1>5, <1>6 DEF SentUnits
<1>8. DOMAIN new = 1..n /\ new = [i \in 1..n |-> new[i]]
  BY <1>5
<1>9. new \in Seq(SentUnits') /\ Len(new) = n
  BY <1>2, <1>7, <1>8, ByElements
<1> QED BY <1>1, <1>2, <1>5, <1>9 DEF id, n, new

\* RecvTypes after the peer sent: only inbound and incoming grow.
LEMMA RecvTypesBySending ==
  ASSUME RecvTypes, NEW size \in DataSizes, ClientSends(size)
  PROVE  RecvTypes'
<1> DEFINE id == Len(incoming) + 1
           new == UnitsOf(id, HeaderSize + size)
           S == SentUnits
           T == SentUnits'
<1>1. /\ incoming \in Seq(DataSizes) /\ incoming' = Append(incoming, size)
      /\ inbound' = inbound \o new
      /\ UNCHANGED <<recvBuffer, recvBufferList, readOut, taken>>
  BY DEF RecvTypes, ClientSends, receiving, UnitsOf
<1>2. S \subseteq T /\ new \in Seq(T) /\ incoming' \in Seq(DataSizes)
  BY <1>1, MoreUnits, NewUnits
<1>3. /\ inbound \in Seq(S) /\ readOut \in Seq(S)
      /\ taken \in Seq(Seq(S)) /\ recvBufferList \in Seq(Seq(S))
      /\ recvBuffer \in [totalSize : -1..BufferSize, buffer : [1..BufferSize -> S \cup {Blank}]]
      /\ \A i \in 1..recvBuffer.totalSize : recvBuffer.buffer[i] \in S
  BY DEF RecvTypes
<1> HIDE DEF S, T, new
<1>4. Seq(S) \subseteq Seq(T)
  BY <1>2, SeqMonotonic
<1>5. inbound \in Seq(T) /\ readOut \in Seq(T)
  BY <1>3, <1>4
<1>6. taken \in Seq(Seq(T)) /\ recvBufferList \in Seq(Seq(T))
  BY <1>3, <1>4, SeqMonotonic
<1>7. inbound' \in Seq(T)
  BY <1>1, <1>2, <1>5, ConcatProperties
<1>8. /\ recvBuffer \in [totalSize : -1..BufferSize, buffer : [1..BufferSize -> T \cup {Blank}]]
      /\ \A i \in 1..recvBuffer.totalSize : recvBuffer.buffer[i] \in T
  BY <1>2, <1>3
<1> QED BY <1>1, <1>2, <1>5, <1>6, <1>7, <1>8 DEF RecvTypes, T

\* RecvTypes after a recv: what is held is a part of what was filled.
LEMMA RecvTypesByReceive ==
  ASSUME RecvTypes, NEW n \in 1..Len(inbound), Receive(n), incoming' = incoming
  PROVE  /\ RecvTypes'
         /\ recvBuffer'.totalSize \in 0..(FrontSize(n) - 1)
         /\ recvBuffer'.totalSize <= HeldSize + n
         /\ recvBuffer'.buffer = Filled(n)
<1> DEFINE total == HeldSize + n
           size == FrontSize(n)
           turns == Turns(n)
           b == Filled(n)
           S == SentUnits
<1>1. /\ recvBuffer' = [totalSize |-> total - turns * size, buffer |-> b]
      /\ recvBufferList' = recvBufferList \o [i \in 1..turns |-> SubSeq(b, 1, size)]
      /\ inbound' = Rest(n) /\ readOut' = readOut \o Chunk(n) /\ taken' = taken
      /\ total <= BufferSize
  BY ReceiveIs
<1>2. /\ total \in 1..BufferSize /\ total \in Nat /\ size \in Nat \ {0}
      /\ b \in [1..BufferSize -> S \cup {Blank}]
      /\ \A i \in 1..total : b[i] \in S
      /\ Chunk(n) \in Seq(S) /\ Rest(n) \in Seq(S)
  BY <1>1, FilledIs
<1>3. turns = Whole(total, size)
  BY DEF Turns
<1> HIDE DEF total, size, turns, b
<1>4. /\ turns \in Nat /\ total - turns * size \in 0..(size - 1)
      /\ total - turns * size <= total
      /\ turns > 0 => size <= total
  BY <1>2, <1>3, LoopEnds
<1> DEFINE left == total - turns * size
<1>5. left \in 0..(size - 1) /\ left <= total
  BY <1>4
<1>6. recvBuffer' = [totalSize |-> left, buffer |-> b]
  BY <1>1
<1> HIDE DEF left
<1>7. S' = S
  BY DEF SentUnits
<1>8. \A i \in 1..left : b[i] \in S
  <2>1. \A i \in 1..left : i \in 1..total
    BY <1>2, <1>5
  <2> QED BY <1>2, <2>1
<1>9. recvBuffer' \in [totalSize : -1..BufferSize, buffer : [1..BufferSize -> S \cup {Blank}]]
      /\ recvBuffer'.totalSize = left /\ recvBuffer'.buffer = b
  <2>1. left \in -1..BufferSize
    BY <1>2, <1>5, Sizes
  <2> QED BY <1>2, <1>6, <2>1
<1>10. [i \in 1..turns |-> SubSeq(b, 1, size)] \in Seq(Seq(S))
  <2> DEFINE new == [i \in 1..turns |-> SubSeq(b, 1, size)]
  <2>1. ASSUME turns > 0 PROVE SubSeq(b, 1, size) \in Seq(S)
    <3>1. \A i \in 1..size : b[i] \in S
      BY <1>2, <1>4, <2>1
    <3>2. 1 \in Int /\ size \in Int
      BY <1>2
    <3> QED BY <3>1, <3>2, SubSeqProperties
  <2>2. \A i \in 1..turns : new[i] \in Seq(S)
    <3>1. \A i \in 1..turns : turns > 0
      BY <1>4
    <3> QED BY <2>1, <3>1
  <2>3. DOMAIN new = 1..turns /\ new = [i \in 1..turns |-> new[i]]
    OBVIOUS
  <2> HIDE DEF new
  <2>4. new \in Seq(Seq(S))
    BY <1>4, <2>2, <2>3, ByElements
  <2> QED BY <2>4 DEF new
<1>11. recvBufferList' \in Seq(Seq(S))
  <2> DEFINE new == [i \in 1..turns |-> SubSeq(b, 1, size)]
  <2>1. new \in Seq(Seq(S)) /\ recvBufferList \in Seq(Seq(S)) /\ recvBufferList' = recvBufferList \o new
    BY <1>1, <1>10 DEF RecvTypes
  <2> HIDE DEF new
  <2> QED BY <2>1, ConcatProperties
<1>12. readOut' \in Seq(S)
  <2>1. readOut \in Seq(S)
    BY DEF RecvTypes
  <2> QED BY <1>1, <1>2, <2>1, ConcatProperties
<1>13. RecvTypes'
  BY <1>1, <1>2, <1>7, <1>8, <1>9, <1>11, <1>12 DEF RecvTypes
<1> QED BY <1>5, <1>9, <1>13 DEF b, total, size

\* RecvTypes is kept by every step.
LEMMA RecvTypesNext ==
  ASSUME RecvTypes, [Next]_vars
  PROVE  RecvTypes'
<1>1. CASE UNCHANGED <<receiving, inbound, incoming>>
  BY <1>1 DEF RecvTypes, receiving, SentUnits
<1>2. ASSUME NEW size \in DataSizes, ClientSends(size) PROVE RecvTypes'
  BY <1>2, RecvTypesBySending
<1>3. ASSUME UNCHANGED <<recvBuffer, readOut, incoming>>,
             inbound' = inbound \/ inbound' = <<>>,
             taken' \in Seq(Seq(SentUnits)), recvBufferList' \in Seq(Seq(SentUnits))
      PROVE  RecvTypes'
  <2>1. inbound' \in Seq(SentUnits)
    BY <1>3, EmptySeq DEF RecvTypes
  <2>2. SentUnits' = SentUnits
    BY <1>3 DEF SentUnits
  <2> QED BY <1>3, <2>1, <2>2 DEF RecvTypes
<1>4. taken \in Seq(Seq(SentUnits)) /\ recvBufferList \in Seq(Seq(SentUnits))
  BY DEF RecvTypes
<1>5. CASE ClientLeaves
  BY <1>3, <1>4, <1>5 DEF ClientLeaves, receiving
<1>6. CASE UNCHANGED <<receiving, incoming>> /\ Accept
  BY <1>3, <1>4, <1>6 DEF Accept, receiving
<1>7. ASSUME NEW n \in 1..Len(inbound), Receive(n), incoming' = incoming PROVE RecvTypes'
  BY <1>7, RecvTypesByReceive
<1>8. CASE RecvPacket
  <2> DEFINE S == Seq(SentUnits)
  <2>1. /\ taken \in Seq(S) /\ recvBufferList \in Seq(S) /\ recvBufferList # <<>>
        /\ taken' = Append(taken, Head(recvBufferList))
        /\ recvBufferList' = Tail(recvBufferList)
    BY <1>4, <1>8 DEF RecvPacket
  <2> HIDE DEF S
  <2>2. Head(recvBufferList) \in S /\ Tail(recvBufferList) \in Seq(S)
    BY <2>1, HeadTailProperties
  <2>3. Append(taken, Head(recvBufferList)) \in Seq(S)
    BY <2>1, <2>2, AppendProperties
  <2> QED BY <1>3, <1>8, <2>1, <2>2, <2>3 DEF RecvPacket, outside, S
<1>9. CASE UpdateClosed
  BY <1>3, <1>4, <1>9 DEF UpdateClosed
<1>10. CASE UnInit
  <2>1. <<>> \in Seq(Seq(SentUnits))
    BY EmptySeq
  <2> QED BY <1>3, <1>4, <1>10, <2>1 DEF UnInit
<1> QED BY <1>1, <1>2, <1>5, <1>6, <1>7, <1>8, <1>9, <1>10, ReceivingSteps

\* The receiving side is well formed in every reachable state: the part
\* of the buffer that totalSize says is held lies in it and was sent by the peer
\* (RecvBuf).
THEOREM RecvTypesAlways == Spec => []RecvTypes
<1>1. Init => RecvTypes
  BY RecvTypesInit
<1>2. RecvTypes /\ [Next]_vars => RecvTypes'
  BY RecvTypesNext
<1> QED BY <1>1, <1>2, PTL DEF Spec

\* The packet at the front is the one it was after a step that leaves the
\* buffer alone, although other packets may have been sent to us since.
LEMMA SameFront ==
  ASSUME RecvTypes, [Next]_vars, recvBuffer' = recvBuffer, recvBuffer.totalSize >= 1
  PROVE  DataSize(recvBuffer.buffer[1])' = DataSize(recvBuffer.buffer[1])
<1> DEFINE u == recvBuffer.buffer[1]
<1>1. /\ incoming \in Seq(DataSizes) /\ recvBuffer.totalSize \in -1..BufferSize
      /\ \A i \in 1..recvBuffer.totalSize : recvBuffer.buffer[i] \in SentUnits
  BY DEF RecvTypes
<1>2. u \in SentUnits
  <2>1. 1 \in 1..recvBuffer.totalSize
    BY <1>1, Sizes
  <2> QED BY <1>1, <2>1
<1>3. u' = u
  OBVIOUS
<1> HIDE DEF u
<1>4. u[1] \in 1..Len(incoming)
  BY <1>1, <1>2, SentUnitIs
<1>5. incoming'[u[1]] = incoming[u[1]]
  <2>1. CASE incoming' = incoming
    BY <2>1
  <2>2. ASSUME NEW size \in DataSizes, ClientSends(size) PROVE incoming'[u[1]] = incoming[u[1]]
    <3>1. incoming' = Append(incoming, size)
      BY <2>2 DEF ClientSends
    <3> QED BY <1>1, <1>4, <3>1, MoreUnits
  <2>3. CASE ClientLeaves \/ RecvPacket \/ UpdateClosed \/ UnInit
    BY <2>1, <2>3 DEF ClientLeaves, RecvPacket, UpdateClosed, UnInit, outside
  <2> QED BY <2>1, <2>2, <2>3, ReceivingSteps
<1> QED BY <1>3, <1>5 DEF DataSize, u

\* Between two Updates no whole packet, by the header at the front, waits in
\* recvBuffer, for every size of header, buffer and data (RecvDone).
THEOREM LoopTakesAll == Spec => []NoWholePacketWaits
<1>1. Init => NoWholePacketWaits
  <2> SUFFICES ASSUME Init PROVE ~ (recvBuffer.totalSize >= HeaderSize)
    BY DEF NoWholePacketWaits
  <2>1. recvBuffer.totalSize = -1
    BY DEF Init
  <2> QED BY <2>1, Sizes
<1>2. ASSUME RecvTypes, NoWholePacketWaits, [Next]_vars PROVE NoWholePacketWaits'
  <2>1. CASE recvBuffer' = recvBuffer
    <3> SUFFICES ASSUME recvBuffer.totalSize >= HeaderSize
                 PROVE  recvBuffer.totalSize < HeaderSize + DataSize(recvBuffer.buffer[1])'
      BY <2>1 DEF NoWholePacketWaits
    <3>1. recvBuffer.totalSize >= 1
      <4>1. recvBuffer.totalSize \in -1..BufferSize /\ HeaderSize \in Nat \ {0} /\ BufferSize \in Nat
        BY <1>2, Sizes DEF RecvTypes
      <4> QED BY <4>1
    <3>2. DataSize(recvBuffer.buffer[1])' = DataSize(recvBuffer.buffer[1])
      BY <1>2, <2>1, <3>1, SameFront
    <3> QED BY <1>2, <3>2 DEF NoWholePacketWaits
  <2>2. ASSUME NEW n \in 1..Len(inbound), Receive(n), incoming' = incoming
        PROVE  NoWholePacketWaits'
    <3>1. /\ recvBuffer'.totalSize \in 0..(FrontSize(n) - 1)
          /\ recvBuffer'.buffer = Filled(n)
      BY <1>2, <2>2, RecvTypesByReceive
    <3>2. FrontSize(n) \in Nat \ {0}
      BY <1>2, <2>2, ReceiveIs, FilledIs
    <3>3. FrontSize(n) = HeaderSize + DataSize(recvBuffer.buffer[1])'
      BY <2>2, <3>1 DEF FrontSize, DataSize
    <3> QED BY <3>1, <3>2, <3>3 DEF NoWholePacketWaits
  <2>3. CASE ClientLeaves \/ RecvPacket \/ UpdateClosed \/ UnInit
    BY <2>1, <2>3 DEF ClientLeaves, RecvPacket, UpdateClosed, UnInit, receiving
  <2>4. ASSUME NEW size \in DataSizes, ClientSends(size) PROVE NoWholePacketWaits'
    BY <2>1, <2>4 DEF ClientSends, receiving
  <2>5. CASE UNCHANGED receiving
    BY <2>1, <2>5 DEF receiving
  <2> QED BY <1>2, <2>2, <2>3, <2>4, <2>5, ReceivingSteps
<1> QED BY <1>1, <1>2, RecvTypesAlways, PTL DEF Spec

-----------------------------------------------------------------------------
(* Streams: whole packets one after the other, the last perhaps cut. *)

Ends(u, sizes) == u[2] = HeaderSize + sizes[u[1]]

Stream(w, sizes) ==
  /\ w # <<>> => w[1][2] = 1
  /\ \A i \in 1..(Len(w) - 1) :
       IF Ends(w[i], sizes) THEN w[i + 1][2] = 1 ELSE w[i + 1] = <<w[i][1], w[i][2] + 1>>

\* Up to the first end a stream is one packet.
LEMMA OnePacket ==
  ASSUME NEW w \in Seq(Unit), NEW sizes, Stream(w, sizes), NEW t \in 1..Len(w),
         \A i \in 1..(t - 1) : ~Ends(w[i], sizes)
  PROVE  \A i \in 1..t : w[i] = <<w[1][1], i>>
<1> DEFINE p == w[1][1]
           Good == {k \in Nat : k + 1 <= t => w[k + 1] = <<p, k + 1>>}
<1>1. Len(w) \in Nat /\ t \in Nat /\ t >= 1 /\ \A i \in 1..Len(w) : w[i] \in Unit
  BY LenProperties, ElementOfSeq
<1>2. w # <<>>
  BY <1>1, EmptySeq
<1>3. w[1] = <<p, 1>>
  <2>1. w[1] \in Nat \X Int /\ w[1][2] = 1
    BY <1>1, <1>2 DEF Unit, Stream
  <2> QED BY <2>1
<1>4. 0 \in Good
  BY <1>3
<1> HIDE DEF p
<1>5. ASSUME NEW k \in Good PROVE k + 1 \in Good
  <2>1. k \in Nat
    OBVIOUS
  <2> SUFFICES ASSUME (k + 1) + 1 <= t PROVE w[(k + 1) + 1] = <<p, (k + 1) + 1>>
    OBVIOUS
  <2>2. w[k + 1] = <<p, k + 1>>
    BY <1>1, <2>1
  <2>3. k + 1 \in 1..(t - 1) /\ k + 1 \in 1..(Len(w) - 1)
    BY <1>1, <2>1
  <2>4. ~Ends(w[k + 1], sizes)
    BY <2>3
  <2>5. w[(k + 1) + 1] = <<w[k + 1][1], w[k + 1][2] + 1>>
    BY <2>3, <2>4 DEF Stream
  <2> QED BY <2>2, <2>5
<1>6. Good = Nat
  <2>1. Good \in SUBSET Nat
    OBVIOUS
  <2> HIDE DEF Good
  <2> QED BY <1>4, <1>5, <2>1, SetInduction
<1>7. ASSUME NEW i \in 1..t PROVE w[i] = <<p, i>>
  <2> DEFINE k == i - 1
  <2>1. k \in Nat /\ k + 1 = i /\ i <= t
    BY <1>1
  <2>2. k \in Good
    <3> HIDE DEF Good, k
    <3> QED BY <1>6, <2>1
  <2> HIDE DEF k
  <2> QED BY <2>1, <2>2
<1> QED BY <1>7 DEF p

\* What follows an end is a stream.
LEMMA StreamAfterEnd ==
  ASSUME NEW w \in Seq(Unit), NEW sizes, Stream(w, sizes),
         NEW t \in 1..Len(w), Ends(w[t], sizes),
         NEW r \in Seq(Unit), Len(r) = Len(w) - t, \A i \in 1..(Len(w) - t) : r[i] = w[t + i]
  PROVE  Stream(r, sizes)
<1>1. Len(w) \in Nat /\ t \in Nat /\ t >= 1 /\ Len(r) \in Nat
  BY LenProperties
<1>2. ASSUME r # <<>> PROVE r[1][2] = 1
  <2>1. Len(r) \in Nat \ {0}
    BY <1>2, EmptySeq
  <2>2. 1 \in 1..(Len(w) - t) /\ t \in 1..(Len(w) - 1)
    BY <1>1, <2>1
  <2>3. r[1] = w[t + 1] /\ w[t + 1][2] = 1
    BY <2>2 DEF Stream
  <2> QED BY <2>3
<1>3. ASSUME NEW i \in 1..(Len(r) - 1)
      PROVE  IF Ends(r[i], sizes) THEN r[i + 1][2] = 1 ELSE r[i + 1] = <<r[i][1], r[i][2] + 1>>
  <2>1. /\ i \in 1..(Len(w) - t) /\ i + 1 \in 1..(Len(w) - t)
        /\ t + i \in 1..(Len(w) - 1) /\ t + (i + 1) = (t + i) + 1
    BY <1>1
  <2>2. r[i] = w[t + i] /\ r[i + 1] = w[(t + i) + 1]
    BY <2>1
  <2> DEFINE j == t + i
  <2>3. IF Ends(w[j], sizes) THEN w[j + 1][2] = 1 ELSE w[j + 1] = <<w[j][1], w[j][2] + 1>>
    BY <2>1 DEF Stream
  <2> QED BY <2>2, <2>3
<1> QED BY <1>2, <1>3 DEF Stream

\* The front of a stream is one.
LEMMA StreamFront ==
  ASSUME NEW w \in Seq(Unit), NEW sizes, Stream(w, sizes),
         NEW r \in Seq(Unit), Len(r) <= Len(w), \A i \in 1..Len(r) : r[i] = w[i]
  PROVE  Stream(r, sizes)
<1>1. Len(w) \in Nat /\ Len(r) \in Nat
  BY LenProperties
<1>2. ASSUME r # <<>> PROVE r[1][2] = 1
  <2>1. Len(r) \in Nat \ {0}
    BY <1>2, EmptySeq
  <2>2. w # <<>> /\ 1 \in 1..Len(r)
    BY <1>1, <2>1, EmptySeq
  <2> QED BY <2>2 DEF Stream
<1>3. ASSUME NEW i \in 1..(Len(r) - 1)
      PROVE  IF Ends(r[i], sizes) THEN r[i + 1][2] = 1 ELSE r[i + 1] = <<r[i][1], r[i][2] + 1>>
  <2>1. i \in 1..Len(r) /\ i + 1 \in 1..Len(r) /\ i \in 1..(Len(w) - 1)
    BY <1>1
  <2>2. r[i] = w[i] /\ r[i + 1] = w[i + 1]
    BY <2>1
  <2> QED BY <2>1, <2>2 DEF Stream
<1> QED BY <1>2, <1>3 DEF Stream

\* A place behind the first m of m + n, counted from there.
LEMMA Beyond ==
  ASSUME NEW m \in Nat, NEW n \in Nat, NEW i \in 1..(m + n - 1), i > m
  PROVE  /\ i - m \in 1..n /\ (i - m) + 1 \in 1..n /\ i - m # n
         /\ m + (i - m) = i /\ m + ((i - m) + 1) = i + 1
  OBVIOUS

\* A whole packet behind a stream that is empty or has ended; the sizes of the
\* packets in the stream are the same in both tables.
LEMMA StreamGrows ==
  ASSUME NEW w \in Seq(Unit), NEW sizes, NEW more, Stream(w, sizes),
         \A i \in 1..Len(w) : Ends(w[i], more) <=> Ends(w[i], sizes),
         w = <<>> \/ Ends(w[Len(w)], sizes),
         NEW id \in Nat, NEW n \in Nat \ {0}, n = HeaderSize + more[id],
         NEW new \in Seq(Unit), Len(new) = n, \A i \in 1..n : new[i] = <<id, i>>
  PROVE  /\ Stream(w \o new, more)
         /\ w \o new # <<>> /\ Ends((w \o new)[Len(w \o new)], more)
<1> DEFINE m == Len(w)
           v == w \o new
<1>1. m \in Nat /\ n \in Nat /\ n >= 1
  BY LenProperties
<1>2. /\ v \in Seq(Unit) /\ Len(v) = m + n
      /\ \A i \in 1..(m + n) : v[i] = IF i <= m THEN w[i] ELSE new[i - m]
  <2>1. /\ v \in Seq(Unit) /\ Len(v) = Len(w) + Len(new)
        /\ \A i \in 1..(Len(w) + Len(new)) : v[i] = IF i <= Len(w) THEN w[i] ELSE new[i - Len(w)]
    BY ConcatProperties
  <2> HIDE DEF v
  <2> QED BY <2>1
<1>3. w = <<>> \/ m >= 1
  BY <1>1, EmptySeq
<1>4. w = <<>> => m = 0
  BY EmptySeq
<1> HIDE DEF m, v
<1>5. ASSUME NEW i \in 1..m PROVE v[i] = w[i]
  <2>1. i \in 1..(m + n) /\ i <= m
    BY <1>1
  <2> QED BY <1>2, <2>1
<1>6. ASSUME NEW i \in 1..n PROVE v[m + i] = <<id, i>>
  <2>1. m + i \in 1..(m + n) /\ ~ (m + i <= m) /\ (m + i) - m = i
    BY <1>1
  <2> QED BY <1>2, <2>1
<1>7. v[1][2] = 1
  <2>1. CASE w = <<>>
    <3>1. 1 \in 1..n /\ m + 1 = 1
      BY <1>1, <1>4, <2>1
    <3> QED BY <1>6, <3>1
  <2>2. CASE w # <<>>
    <3>1. 1 \in 1..m
      BY <1>1, <1>3, <2>2
    <3> QED BY <1>5, <2>2, <3>1 DEF Stream
  <2> QED BY <2>1, <2>2
<1>8. ASSUME NEW i \in 1..(m + n - 1)
      PROVE  IF Ends(v[i], more) THEN v[i + 1][2] = 1 ELSE v[i + 1] = <<v[i][1], v[i][2] + 1>>
  <2>1. CASE i < m
    <3>1. i \in 1..m /\ i + 1 \in 1..m /\ i \in 1..(m - 1)
      BY <1>1, <2>1
    <3>2. v[i] = w[i] /\ v[i + 1] = w[i + 1]
      BY <1>5, <3>1
    <3>3. Ends(w[i], more) <=> Ends(w[i], sizes)
      BY <3>1 DEF m
    <3>4. IF Ends(w[i], sizes) THEN w[i + 1][2] = 1 ELSE w[i + 1] = <<w[i][1], w[i][2] + 1>>
      BY <3>1 DEF Stream, m
    <3> QED BY <3>2, <3>3, <3>4
  <2>2. CASE i = m
    <3>1. m \in 1..m /\ 1 \in 1..n /\ w # <<>>
      BY <1>1, <1>4, <2>2
    <3>2. v[i] = w[m] /\ v[i + 1] = <<id, 1>>
      BY <1>5, <1>6, <2>2, <3>1
    <3>3. Ends(w[m], sizes)
      BY <3>1 DEF m
    <3>4. Ends(w[m], more)
      BY <3>1, <3>3 DEF m
    <3> QED BY <3>2, <3>4
  <2>3. CASE i > m
    <3> DEFINE j == i - m
    <3> HIDE DEF j
    <3>2. j \in 1..n /\ j + 1 \in 1..n
      BY <1>1, <2>3, Beyond DEF j
    <3>3. m + j = i /\ m + (j + 1) = i + 1 /\ j # n
      BY <1>1, <2>3, Beyond DEF j
    <3>4. v[i] = <<id, j>>
      BY <1>6, <3>2, <3>3
    <3>5. v[i + 1] = <<id, j + 1>>
      BY <1>6, <3>2, <3>3
    <3>6. ~Ends(v[i], more)
      BY <3>3, <3>4 DEF Ends
    <3> QED BY <3>4, <3>5, <3>6
  <2>4. i < m \/ i = m \/ i > m
    BY <1>1
  <2> QED BY <2>1, <2>2, <2>3, <2>4
<1>9. v # <<>>
  BY <1>1, <1>2, EmptySeq
<1>10. Ends(v[Len(v)], more)
  <2>1. n \in 1..n
    BY <1>1
  <2>2. v[m + n] = <<id, n>>
    BY <1>6, <2>1
  <2> QED BY <1>2, <2>2 DEF Ends
<1>11. Stream(v, more)
  <2>1. Len(v) - 1 = m + n - 1
    BY <1>1, <1>2
  <2> QED BY <1>7, <1>8, <2>1 DEF Stream
<1> QED BY <1>9, <1>10, <1>11 DEF v

-----------------------------------------------------------------------------
(* What is held and what is on the way are a stream. *)

Line == Held \o inbound

\* What the peer sent is units.
LEMMA UnitsAreUnits ==
  ASSUME NEW s \in Seq(SentUnits)
  PROVE  s \in Seq(Unit)
<1>1. SentUnits \subseteq Unit
  BY DEF SentUnits, Unit
<1> QED BY <1>1, SeqMonotonic

\* Line is what is held, then what is in the socket.
LEMMA LineIs ==
  RecvTypes =>
    /\ HeldSize \in Nat /\ HeldSize <= BufferSize
    /\ HeldSize = IF recvBuffer.totalSize > 0 THEN recvBuffer.totalSize ELSE 0
    /\ recvBuffer.totalSize \in Int
    /\ Held \in Seq(SentUnits) /\ Len(Held) = HeldSize
    /\ \A i \in 1..HeldSize : Held[i] = recvBuffer.buffer[i]
    /\ Line \in Seq(SentUnits) /\ Line \in Seq(Unit) /\ Len(Line) = HeldSize + Len(inbound)
    /\ \A i \in 1..HeldSize : Line[i] = recvBuffer.buffer[i]
    /\ \A i \in 1..Len(inbound) : Line[HeldSize + i] = inbound[i]
<1> SUFFICES ASSUME RecvTypes
             PROVE
    /\ HeldSize \in Nat /\ HeldSize <= BufferSize
    /\ HeldSize = IF recvBuffer.totalSize > 0 THEN recvBuffer.totalSize ELSE 0
    /\ recvBuffer.totalSize \in Int
    /\ Held \in Seq(SentUnits) /\ Len(Held) = HeldSize
    /\ \A i \in 1..HeldSize : Held[i] = recvBuffer.buffer[i]
    /\ Line \in Seq(SentUnits) /\ Line \in Seq(Unit) /\ Len(Line) = HeldSize + Len(inbound)
    /\ \A i \in 1..HeldSize : Line[i] = recvBuffer.buffer[i]
    /\ \A i \in 1..Len(inbound) : Line[HeldSize + i] = inbound[i]
  OBVIOUS
<1> DEFINE n == recvBuffer.totalSize
           h == HeldSize
           m == Len(inbound)
<1>1. /\ inbound \in Seq(SentUnits) /\ n \in -1..BufferSize /\ BufferSize \in Nat
      /\ \A i \in 1..n : recvBuffer.buffer[i] \in SentUnits
  BY Sizes DEF RecvTypes
<1>2. h = (IF n > 0 THEN n ELSE 0) /\ h \in Nat /\ h <= BufferSize /\ n \in Int /\ m \in Nat
  BY <1>1, LenProperties DEF HeldSize, Offset
<1>3. /\ Held \in Seq(SentUnits) /\ Len(Held) = IF 1 <= n THEN n - 1 + 1 ELSE 0
      /\ \A i \in 1..(n - 1 + 1) : Held[i] = recvBuffer.buffer[1 + i - 1]
  <2>1. 1 \in Int /\ n \in Int
    BY <1>2
  <2> QED BY <1>1, <2>1, SubSeqProperties DEF Held
<1> HIDE DEF n, h, m
<1>4. Len(Held) = h
  BY <1>2, <1>3
<1>5. ASSUME NEW i \in 1..h PROVE Held[i] = recvBuffer.buffer[i]
  <2>1. i \in 1..(n - 1 + 1) /\ 1 + i - 1 = i
    BY <1>2
  <2> QED BY <1>3, <2>1
<1>6. /\ Line \in Seq(SentUnits) /\ Len(Line) = Len(Held) + Len(inbound)
      /\ \A i \in 1..(Len(Held) + Len(inbound)) :
           Line[i] = IF i <= Len(Held) THEN Held[i] ELSE inbound[i - Len(Held)]
  BY <1>1, <1>3, ConcatProperties DEF Line
<1>7. Len(Line) = h + m
  BY <1>4, <1>6 DEF m
<1>8. ASSUME NEW i \in 1..h PROVE Line[i] = recvBuffer.buffer[i]
  <2>1. i \in 1..(h + m) /\ i <= h
    BY <1>2
  <2> QED BY <1>4, <1>5, <1>6, <2>1 DEF m
<1>9. ASSUME NEW i \in 1..m PROVE Line[h + i] = inbound[i]
  <2>1. h + i \in 1..(h + m) /\ ~ (h + i <= h) /\ (h + i) - h = i
    BY <1>2
  <2> QED BY <1>4, <1>6, <2>1 DEF m
<1>10. Line \in Seq(Unit)
  BY <1>6, UnitsAreUnits
<1> QED BY <1>2, <1>3, <1>4, <1>5, <1>6, <1>7, <1>8, <1>9, <1>10 DEF n, h, m

\* The same after a step.
LEMMA LineNext ==
  ( RecvTypes =>
    /\ HeldSize \in Nat /\ HeldSize <= BufferSize
    /\ HeldSize = IF recvBuffer.totalSize > 0 THEN recvBuffer.totalSize ELSE 0
    /\ recvBuffer.totalSize \in Int
    /\ Held \in Seq(SentUnits) /\ Len(Held) = HeldSize
    /\ \A i \in 1..HeldSize : Held[i] = recvBuffer.buffer[i]
    /\ Line \in Seq(SentUnits) /\ Line \in Seq(Unit) /\ Len(Line) = HeldSize + Len(inbound)
    /\ \A i \in 1..HeldSize : Line[i] = recvBuffer.buffer[i]
    /\ \A i \in 1..Len(inbound) : Line[HeldSize + i] = inbound[i] )'
  BY LineIs, PTL

HandedWhole ==
  \A k \in 1..Len(handed) :
    \E p \in 1..Len(incoming) : handed[k] = UnitsOf(p, HeaderSize + incoming[p])

\* What holds as long as no chunk went on after the end of a packet and no
\* client left in the middle of one.
Kept ==
  /\ ~clientSock => recvBuffer.totalSize <= 0
  /\ Stream(Line, incoming)
  /\ \A i \in 1..HeldSize : ~Ends(Line[i], incoming)
  /\ peer = "open" => Line = <<>> \/ Ends(Line[Len(Line)], incoming)
  /\ FlattenSeq(handed) \o Held = readOut
  /\ HandedWhole

\* The units recv returned and those before them, as they lie in the buffer.
LEMMA FrontIs ==
  ASSUME RecvTypes, NEW n \in 1..Len(inbound), HeldSize + n <= BufferSize
  PROVE  /\ HeldSize + n \in 1..Len(Line)
         /\ \A i \in 1..(HeldSize + n) : Filled(n)[i] = Line[i]
         /\ SubSeq(Filled(n), 1, HeldSize + n) = Held \o Chunk(n)
         /\ Held \o Chunk(n) \in Seq(SentUnits) /\ Len(Held \o Chunk(n)) = HeldSize + n
         /\ \A i \in 1..(HeldSize + n) : (Held \o Chunk(n))[i] = Line[i]
<1> DEFINE h == HeldSize
           t == h + n
           m == Len(inbound)
           b == Filled(n)
           P == Held \o Chunk(n)
           Q == SubSeq(b, 1, t)
<1>1. /\ h \in Nat /\ n \in Nat /\ t \in 1..BufferSize
      /\ Chunk(n) \in Seq(SentUnits) /\ Len(Chunk(n)) = n
      /\ \A i \in 1..n : Chunk(n)[i] = inbound[i]
      /\ \A i \in 1..h : b[i] = recvBuffer.buffer[i]
      /\ \A i \in 1..n : b[h + i] = inbound[i]
      /\ \A i \in 1..t : b[i] \in SentUnits
  BY FilledIs
<1>2. /\ Held \in Seq(SentUnits) /\ Len(Held) = h
      /\ \A i \in 1..h : Held[i] = recvBuffer.buffer[i]
      /\ Len(Line) = h + m
      /\ \A i \in 1..h : Line[i] = recvBuffer.buffer[i]
      /\ \A i \in 1..m : Line[h + i] = inbound[i]
  BY LineIs
<1>3. m \in Nat /\ n <= m
  BY LenProperties DEF RecvTypes
<1>4. /\ P \in Seq(SentUnits) /\ Len(P) = Len(Held) + Len(Chunk(n))
      /\ \A i \in 1..(Len(Held) + Len(Chunk(n))) :
           P[i] = IF i <= Len(Held) THEN Held[i] ELSE Chunk(n)[i - Len(Held)]
  <2> DEFINE c == Chunk(n)
  <2>1. c \in Seq(SentUnits) /\ Held \in Seq(SentUnits)
    BY <1>1, <1>2
  <2> HIDE DEF c
  <2>2. /\ Held \o c \in Seq(SentUnits) /\ Len(Held \o c) = Len(Held) + Len(c)
        /\ \A i \in 1..(Len(Held) + Len(c)) :
             (Held \o c)[i] = IF i <= Len(Held) THEN Held[i] ELSE c[i - Len(Held)]
    BY <2>1, ConcatProperties
  <2> QED BY <2>2 DEF c
<1>5. /\ Q \in Seq(SentUnits) /\ Len(Q) = IF 1 <= t THEN t - 1 + 1 ELSE 0
      /\ \A i \in 1..(t - 1 + 1) : Q[i] = b[1 + i - 1]
  <2>1. 1 \in Int /\ t \in Int
    BY <1>1
  <2> HIDE DEF t, b
  <2> QED BY <1>1, <2>1, SubSeqProperties
<1> HIDE DEF h, m, b, P, Q
<1>6. t \in 1..Len(Line)
  BY <1>1, <1>2, <1>3
<1>7. ASSUME NEW i \in 1..t PROVE b[i] = Line[i] /\ P[i] = Line[i] /\ Q[i] = Line[i]
  <2>1. Q[i] = b[i]
    <3>1. i \in 1..(t - 1 + 1) /\ 1 + i - 1 = i
      BY <1>1
    <3> QED BY <1>5, <3>1
  <2>2. CASE i <= h
    <3>1. i \in 1..h /\ i \in 1..(h + n)
      BY <1>1, <2>2
    <3>2. b[i] = Line[i]
      BY <1>1, <1>2, <3>1
    <3>3. P[i] = Held[i] /\ Held[i] = Line[i]
      <4>1. i \in 1..(Len(Held) + Len(Chunk(n))) /\ i <= Len(Held)
        BY <1>1, <1>2, <3>1
      <4> QED BY <1>2, <1>4, <3>1, <4>1
    <3> QED BY <2>1, <3>2, <3>3
  <2>3. CASE ~ (i <= h)
    <3> DEFINE j == i - h
    <3>1. j \in 1..n /\ j \in 1..m /\ h + j = i /\ i \in 1..(h + n)
      BY <1>1, <1>3, <2>3
    <3>2. P[i] = Chunk(n)[j]
      BY <1>1, <1>2, <1>4, <2>3, <3>1
    <3> HIDE DEF j
    <3>3. Chunk(n)[j] = inbound[j] /\ b[h + j] = inbound[j]
      BY <1>1, <3>1
    <3>4. Line[h + j] = inbound[j]
      BY <1>2, <3>1
    <3> QED BY <2>1, <3>1, <3>2, <3>3, <3>4
  <2> QED BY <2>2, <2>3
<1>8. Len(P) = t /\ Len(Q) = t
  BY <1>1, <1>2, <1>4, <1>5
<1>9. Q = P
  <2> HIDE DEF t
  <2> QED BY <1>4, <1>5, <1>7, <1>8, SeqEqual
<1> QED BY <1>4, <1>6, <1>7, <1>8, <1>9 DEF h, t, b, P, Q

\* What a tidy chunk brings: the beginning of one packet, or all of it.
LEMMA TidyChunk ==
  ASSUME RecvTypes, Kept, NEW n \in 1..Len(inbound), Receive(n), tidy'
  PROVE  LET t == HeldSize + n
             p == Line[1][1]
         IN /\ t \in 1..Len(Line) /\ t <= FrontSize(n)
            /\ \A i \in 1..t : Line[i] = <<p, i>>
            /\ p \in 1..Len(incoming) /\ FrontSize(n) = HeaderSize + incoming[p]
            /\ \A i \in 1..(t - 1) : ~Ends(Line[i], incoming)
            /\ Ends(Line[t], incoming) <=> t = FrontSize(n)
<1> DEFINE t == HeldSize + n
           p == Line[1][1]
           size == FrontSize(n)
<1>1. t <= BufferSize /\ \A i \in 1..(n - 1) : ~EndsPacket(Chunk(n)[i])
  BY ReceiveIs
<1>2. /\ HeldSize \in Nat /\ n \in Nat /\ t \in 1..BufferSize
      /\ \A i \in 1..n : Chunk(n)[i] = inbound[i]
  BY <1>1, FilledIs
<1>3. t \in 1..Len(Line) /\ \A i \in 1..t : Filled(n)[i] = Line[i]
  BY <1>1, FrontIs
<1>4. /\ Line \in Seq(SentUnits) /\ Line \in Seq(Unit)
      /\ \A i \in 1..Len(inbound) : Line[HeldSize + i] = inbound[i]
      /\ Len(Line) \in Nat
  BY LineIs, LenProperties
<1>5. ASSUME NEW i \in 1..(t - 1) PROVE ~Ends(Line[i], incoming)
  <2>1. CASE i <= HeldSize
    <3>1. i \in 1..HeldSize
      BY <1>2, <2>1
    <3> QED BY <3>1 DEF Kept
  <2>2. CASE ~ (i <= HeldSize)
    <3> DEFINE j == i - HeldSize
    <3>1. j \in 1..(n - 1) /\ j \in 1..n /\ HeldSize + j = i /\ j \in 1..Len(inbound)
      <4>1. inbound \in Seq(SentUnits) /\ Len(inbound) \in Nat
        BY LenProperties DEF RecvTypes
      <4>2. n <= Len(inbound)
        BY <4>1
      <4> QED BY <1>2, <2>2, <4>1, <4>2
    <3> HIDE DEF j
    <3>2. Line[i] = Chunk(n)[j]
      BY <1>2, <1>4, <3>1
    <3> QED BY <1>1, <3>1, <3>2 DEF EndsPacket, Ends
  <2> QED BY <2>1, <2>2
<1> HIDE DEF t
<1>6. \A i \in 1..t : Line[i] = <<p, i>>
  <2>1. Stream(Line, incoming)
    BY DEF Kept
  <2> DEFINE w == Line
  <2>2. w \in Seq(Unit) /\ Stream(w, incoming) /\ t \in 1..Len(w)
        /\ \A i \in 1..(t - 1) : ~Ends(w[i], incoming)
    BY <1>3, <1>4, <1>5, <2>1
  <2> HIDE DEF w
  <2>3. \A i \in 1..t : w[i] = <<w[1][1], i>>
    BY <2>2, OnePacket
  <2> QED BY <2>3 DEF w
<1>7. incoming \in Seq(DataSizes)
  BY DEF RecvTypes
<1>8. 1 \in 1..t /\ t \in 1..t /\ t \in Nat
  BY <1>2
<1>9. Line[1] \in SentUnits /\ Line[t] \in SentUnits
  <2>1. 1 \in 1..Len(Line)
    BY <1>3, <1>4, <1>8
  <2> QED BY <1>3, <1>4, <2>1, ElementOfSeq
<1>10. p \in 1..Len(incoming) /\ incoming[p] \in Nat
  BY <1>7, <1>9, SentUnitIs
<1>11. size = HeaderSize + incoming[p]
  <2>1. Filled(n)[1] = Line[1] /\ Line[1] = <<p, 1>>
    BY <1>3, <1>6, <1>8
  <2>2. Line[1][2] = 1
    BY <2>1
  <2>3. DataSize(Line[1]) = incoming[p]
    BY <2>2 DEF DataSize
  <2> QED BY <2>1, <2>3 DEF FrontSize
<1>12. Line[t] = <<p, t>>
  BY <1>6, <1>8
<1>13. Line[t][1] = p /\ Line[t][2] = t
  BY <1>12
<1>14. t <= size
  <2>1. Line[t][2] \in 1..(HeaderSize + incoming[Line[t][1]])
    BY <1>7, <1>9, SentUnitIs
  <2> QED BY <1>11, <1>13, <2>1
<1>15. Ends(Line[t], incoming) <=> t = size
  BY <1>11, <1>13 DEF Ends
<1> QED BY <1>3, <1>5, <1>6, <1>10, <1>11, <1>14, <1>15 DEF t

\* The packets handed over are sequences of units.
LEMMA HandedTypes ==
  ASSUME RecvTypes
  PROVE  handed \in Seq(Seq(SentUnits)) /\ handed \in Seq(Seq(Unit)) /\ Len(handed) \in Nat
<1>1. taken \in Seq(Seq(SentUnits)) /\ recvBufferList \in Seq(Seq(SentUnits))
  BY DEF RecvTypes
<1> DEFINE S == Seq(SentUnits)
<1>2. S \subseteq Seq(Unit)
  BY UnitsAreUnits
<1>3. taken \in Seq(S) /\ recvBufferList \in Seq(S)
  BY <1>1
<1> HIDE DEF S
<1>4. handed \in Seq(S)
  BY <1>3, ConcatProperties DEF handed
<1>5. handed \in Seq(Seq(Unit))
  BY <1>2, <1>4, SeqMonotonic
<1>6. Len(handed) \in Nat
  BY <1>4, LenProperties
<1> QED BY <1>4, <1>5, <1>6 DEF S

\* The chunk does not end the packet: nothing is handed out.
LEMMA KeptByPart ==
  ASSUME RecvTypes, RecvTypes', Kept, NEW n \in 1..Len(inbound), Receive(n), tidy',
         UNCHANGED <<incoming, peer, clientSock>>, clientSock,
         HeldSize + n < FrontSize(n)
  PROVE  Kept'
<1> DEFINE t == HeldSize + n
           size == FrontSize(n)
           b == Filled(n)
           P == Held \o Chunk(n)
           m == Len(inbound)
<1>1. /\ recvBuffer' = [totalSize |-> t - Turns(n) * size, buffer |-> b]
      /\ recvBufferList' = recvBufferList \o [i \in 1..Turns(n) |-> SubSeq(b, 1, size)]
      /\ inbound' = Rest(n) /\ readOut' = readOut \o Chunk(n) /\ taken' = taken
      /\ t <= BufferSize
  BY ReceiveIs
<1>2. /\ t \in 1..Len(Line) /\ \A i \in 1..(t - 1) : ~Ends(Line[i], incoming)
      /\ Ends(Line[t], incoming) <=> t = size
  BY TidyChunk
<1>3. /\ t \in Nat /\ t >= 1 /\ size \in Nat \ {0} /\ HeldSize \in Nat /\ n \in Nat
      /\ Rest(n) \in Seq(SentUnits) /\ Len(Rest(n)) = m - n
      /\ \A i \in 1..(m - n) : Rest(n)[i] = inbound[n + i]
      /\ Chunk(n) \in Seq(SentUnits)
  <2>1. HeldSize + n <= BufferSize
    BY <1>1
  <2>2. /\ HeldSize + n \in 1..BufferSize /\ HeldSize \in Nat /\ n \in Nat
        /\ FrontSize(n) \in Nat \ {0}
        /\ Rest(n) \in Seq(SentUnits) /\ Len(Rest(n)) = Len(inbound) - n
        /\ \A i \in 1..(Len(inbound) - n) : Rest(n)[i] = inbound[n + i]
        /\ Chunk(n) \in Seq(SentUnits)
    BY <2>1, FilledIs
  <2>3. HeldSize + n \in Nat /\ HeldSize + n >= 1
    BY <2>2
  <2> QED BY <2>2, <2>3
<1>4. Turns(n) = 0
  <2>1. t \in Nat /\ size \in Nat \ {0} /\ t < size
    BY <1>3
  <2> HIDE DEF t, size
  <2>2. Whole(t, size) = 0
    BY <2>1, LoopEnds
  <2> QED BY <2>2 DEF Turns, t, size
<1>5. recvBuffer'.totalSize = t /\ recvBuffer'.buffer = b
  <2> HIDE DEF b
  <2>1. t - 0 * size = t
    BY <1>3
  <2>2. recvBuffer' = [totalSize |-> t, buffer |-> b]
    BY <1>1, <1>4, <2>1
  <2> QED BY <2>2
<1>6. recvBufferList' = recvBufferList
  <2>1. [i \in 1..0 |-> SubSeq(b, 1, size)] = <<>>
    <3> DEFINE e == [i \in 1..0 |-> SubSeq(b, 1, size)]
    <3>1. DOMAIN e = 1..0 /\ e = [i \in 1..0 |-> e[i]] /\ \A i \in 1..0 : e[i] \in Unit
      OBVIOUS
    <3> HIDE DEF e
    <3>2. e \in Seq(Unit) /\ Len(e) = 0
      BY <3>1, ByElements
    <3>3. e = <<>>
      BY <3>2, EmptySeq
    <3> QED BY <3>3 DEF e
  <2>2. recvBufferList' = recvBufferList \o <<>>
    BY <1>1, <1>4, <2>1
  <2>3. recvBufferList \in Seq(Seq(SentUnits))
    BY DEF RecvTypes
  <2> QED BY <2>2, <2>3, ConcatEmptySeq
<1>7. handed' = handed
  BY <1>1, <1>6 DEF handed
<1>8. Held' = P
  <2>1. SubSeq(b, 1, t) = P
    BY <1>1, FrontIs
  <2> HIDE DEF b, P, t
  <2> QED BY <1>5, <2>1 DEF Held
<1>9. HeldSize' = t
  BY <1>3, <1>5 DEF HeldSize, Offset
<1>10. /\ P \in Seq(SentUnits) /\ Len(P) = t /\ \A i \in 1..t : P[i] = Line[i]
  BY <1>1, FrontIs
<1>11. /\ Line \in Seq(SentUnits) /\ Line \in Seq(Unit) /\ Len(Line) = HeldSize + m
       /\ \A i \in 1..m : Line[HeldSize + i] = inbound[i]
       /\ Held \in Seq(SentUnits) /\ m \in Nat
  BY LineIs, LenProperties DEF RecvTypes
<1>12. Line' = Line
  <2> DEFINE R == Rest(n)
             w == Line
             v == P \o R
  <2>1. Line' = v
    BY <1>1, <1>8 DEF Line
  <2>2. R \in Seq(SentUnits) /\ Len(R) = m - n /\ \A i \in 1..(m - n) : R[i] = inbound[n + i]
    BY <1>3
  <2>3. w \in Seq(SentUnits) /\ Len(w) = HeldSize + m
        /\ (\A i \in 1..m : w[HeldSize + i] = inbound[i]) /\ (\A i \in 1..t : P[i] = w[i])
        /\ P \in Seq(SentUnits) /\ Len(P) = t
    BY <1>10, <1>11
  <2>4. t = HeldSize + n /\ n <= m
    BY <1>11
  <2> HIDE DEF R, P, w, t, m
  <2>5. /\ v \in Seq(SentUnits) /\ Len(v) = Len(P) + Len(R)
        /\ \A i \in 1..(Len(P) + Len(R)) : v[i] = IF i <= Len(P) THEN P[i] ELSE R[i - Len(P)]
    BY <2>2, <2>3, ConcatProperties
  <2> HIDE DEF v
  <2>6. Len(v) = Len(w) /\ Len(P) + Len(R) = HeldSize + m
    <3>1. n \in Nat /\ m \in Nat /\ HeldSize \in Nat
      BY <1>3, <1>11
    <3>2. Len(P) + Len(R) = HeldSize + m
      BY <2>2, <2>3, <2>4, <3>1
    <3> QED BY <2>3, <2>5, <3>2
  <2>7. ASSUME NEW i \in 1..Len(v) PROVE v[i] = w[i]
    <3>1. i \in 1..(HeldSize + m) /\ i \in 1..(Len(P) + Len(R))
      BY <2>5, <2>6
    <3>2. CASE i <= t
      <4>1. i \in 1..t
        BY <1>3, <3>1, <3>2
      <4>2. v[i] = P[i]
        BY <2>3, <2>5, <3>1, <3>2
      <4> QED BY <2>3, <4>1, <4>2
    <3>3. CASE ~ (i <= t)
      <4> DEFINE j == i - t
      <4>1. j \in 1..(m - n) /\ n + j \in 1..m /\ HeldSize + (n + j) = i
        BY <1>3, <1>11, <2>4, <3>1, <3>3
      <4>2. v[i] = R[j]
        BY <2>3, <2>5, <3>1, <3>3
      <4> HIDE DEF j
      <4>3. R[j] = inbound[n + j] /\ w[HeldSize + (n + j)] = inbound[n + j]
        BY <2>2, <2>3, <4>1
      <4> QED BY <4>1, <4>2, <4>3
    <3> QED BY <3>2, <3>3
  <2>8. v = w
    BY <2>3, <2>5, <2>6, <2>7, SeqEqual
  <2> QED BY <2>1, <2>8 DEF w
<1>13. FlattenSeq(handed') \o Held' = readOut'
  <2> DEFINE F == FlattenSeq(handed)
             c == Chunk(n)
  <2>1. F \in Seq(Unit)
    <3>1. handed \in Seq(Seq(Unit)) /\ <<>> \in Seq(Unit)
      BY HandedTypes, EmptySeq
    <3> DEFINE ss == handed
    <3>2. ss \in Seq(Seq(Unit))
      BY <3>1
    <3> HIDE DEF ss
    <3>3. FlattenSeq(ss) \in Seq(Unit)
      BY <3>1, <3>2, FlattenAppend
    <3> QED BY <3>3 DEF ss
  <2>2. Held \in Seq(Unit) /\ c \in Seq(Unit)
    BY <1>3, <1>11, UnitsAreUnits
  <2>3. F \o Held = readOut
    BY DEF Kept
  <2>4. \A u, v, w \in Seq(Unit) : (u \o v) \o w = u \o (v \o w)
    <3>1. Associative(Unit)
      BY ConcatIsAssociative
    <3> QED BY <3>1 DEF Associative
  <2> HIDE DEF F, c
  <2>5. F \o (Held \o c) = (F \o Held) \o c
    BY <2>1, <2>2, <2>4, Zenon
  <2>6. readOut' = readOut \o c /\ Held' = Held \o c
    BY <1>1, <1>8 DEF c
  <2> QED BY <1>7, <2>3, <2>5, <2>6 DEF F
<1>14. ASSUME NEW i \in 1..t PROVE ~Ends(Line[i], incoming)
  <2>1. CASE i = t
    BY <1>2, <2>1
  <2>2. CASE i # t
    <3>1. i \in 1..(t - 1)
      BY <1>3, <2>2
    <3> QED BY <1>2, <3>1
  <2> QED BY <2>1, <2>2
<1> HIDE DEF t, size, b, P, m
<1> QED BY <1>7, <1>9, <1>12, <1>13, <1>14 DEF Kept, HandedWhole

\* The chunk ends the packet: it is handed out and nothing is held.
LEMMA KeptByWhole ==
  ASSUME RecvTypes, RecvTypes', Kept, NEW n \in 1..Len(inbound), Receive(n), tidy',
         UNCHANGED <<incoming, peer, clientSock>>, clientSock,
         HeldSize + n = FrontSize(n)
  PROVE  Kept'
<1> DEFINE t == HeldSize + n
           size == FrontSize(n)
           b == Filled(n)
           P == Held \o Chunk(n)
           R == Rest(n)
           p == Line[1][1]
           m == Len(inbound)
<1>1. /\ recvBuffer' = [totalSize |-> t - Turns(n) * size, buffer |-> b]
      /\ recvBufferList' = recvBufferList \o [i \in 1..Turns(n) |-> SubSeq(b, 1, size)]
      /\ inbound' = R /\ readOut' = readOut \o Chunk(n) /\ taken' = taken
      /\ t <= BufferSize
  BY ReceiveIs
<1>2. /\ t \in 1..Len(Line) /\ \A i \in 1..t : Line[i] = <<p, i>>
      /\ p \in 1..Len(incoming) /\ size = HeaderSize + incoming[p]
      /\ Ends(Line[t], incoming) <=> t = size
  BY TidyChunk
<1>3. /\ t \in Nat /\ t >= 1 /\ size \in Nat \ {0} /\ HeldSize \in Nat /\ n \in Nat
      /\ R \in Seq(SentUnits) /\ Len(R) = m - n
      /\ \A i \in 1..(m - n) : R[i] = inbound[n + i]
      /\ Chunk(n) \in Seq(SentUnits)
  BY <1>1, FilledIs
<1>4. Turns(n) = 1
  <2>1. t \in Nat /\ size \in Nat \ {0} /\ t = size
    BY <1>3
  <2> HIDE DEF t, size
  <2>2. Whole(t, size) = 1
    BY <2>1, LoopEnds
  <2> QED BY <2>2 DEF Turns, t, size
<1>5. recvBuffer'.totalSize = 0 /\ recvBuffer'.buffer = b
  <2> HIDE DEF b
  <2>1. t - 1 * size = 0
    BY <1>3
  <2>2. recvBuffer' = [totalSize |-> 0, buffer |-> b]
    BY <1>1, <1>4, <2>1
  <2> QED BY <2>2
<1>6. /\ P = SubSeq(b, 1, size) /\ P \in Seq(SentUnits) /\ Len(P) = t
      /\ \A i \in 1..t : P[i] = Line[i]
  BY <1>1, FrontIs
<1>7. handed' = Append(handed, P)
  <2> DEFINE S == Seq(SentUnits)
  <2>1. P \in S /\ taken \in Seq(S) /\ recvBufferList \in Seq(S)
    BY <1>6 DEF RecvTypes
  <2>2. recvBufferList' = recvBufferList \o <<P>>
    <3>1. [i \in 1..1 |-> SubSeq(b, 1, size)] = <<P>>
      BY <1>6
    <3> HIDE DEF b, size, P
    <3> QED BY <1>1, <1>4, <3>1
  <2> HIDE DEF P, S
  <2>3. <<P>> \in Seq(S)
    BY <2>1
  <2>4. \A u, v, w \in Seq(S) : (u \o v) \o w = u \o (v \o w)
    <3>1. Associative(S)
      BY ConcatIsAssociative
    <3> QED BY <3>1 DEF Associative
  <2>5. (taken \o recvBufferList) \o <<P>> = taken \o (recvBufferList \o <<P>>)
    BY <2>1, <2>3, <2>4, Zenon
  <2>6. handed \in Seq(S)
    BY HandedTypes DEF S
  <2>7. Append(handed, P) = handed \o <<P>>
    BY <2>1, <2>6, AppendIsConcat
  <2> QED BY <1>1, <2>2, <2>5, <2>7 DEF handed
<1>8. HeldSize' = 0 /\ Held' = <<>>
  <2>1. HeldSize' = 0
    BY <1>5 DEF HeldSize, Offset
  <2>2. Held' \in Seq(SentUnits') /\ Len(Held') = HeldSize'
    BY LineNext
  <2> QED BY <2>1, <2>2, EmptySeq
<1>9. Line' = R
  <2> HIDE DEF R
  <2> QED BY <1>1, <1>3, <1>8, ConcatEmptySeq DEF Line
<1>10. /\ Line \in Seq(Unit) /\ Len(Line) = HeldSize + m /\ R \in Seq(Unit)
       /\ \A i \in 1..m : Line[HeldSize + i] = inbound[i]
       /\ Held \in Seq(SentUnits) /\ m \in Nat /\ n <= m
  <2>1. inbound \in Seq(SentUnits) /\ m \in Nat
    BY LenProperties DEF RecvTypes
  <2>2. n <= m
    BY <2>1
  <2>3. R \in Seq(Unit)
    BY <1>3, UnitsAreUnits
  <2> QED BY <2>1, <2>2, <2>3, LineIs
<1>11. Len(R) = Len(Line) - t /\ \A i \in 1..(Len(Line) - t) : R[i] = Line[t + i]
  <2>1. Len(Line) - t = m - n
    BY <1>3, <1>10
  <2>2. ASSUME NEW i \in 1..(m - n) PROVE R[i] = Line[t + i]
    <3>1. n + i \in 1..m /\ HeldSize + (n + i) = t + i
      <4>1. n \in Nat /\ m \in Nat /\ HeldSize \in Nat
        BY <1>3, <1>10
      <4>2. HeldSize + (n + i) = t + i
        BY <4>1
      <4> HIDE DEF m
      <4> QED BY <4>1, <4>2
    <3>2. Line[HeldSize + (n + i)] = inbound[n + i]
      BY <1>10, <3>1
    <3> QED BY <1>3, <3>1, <3>2
  <2> QED BY <1>3, <2>1, <2>2
<1>12. Stream(R, incoming)
  <2> DEFINE w == Line
  <2>1. /\ w \in Seq(Unit) /\ Stream(w, incoming) /\ t \in 1..Len(w) /\ Ends(w[t], incoming)
        /\ R \in Seq(Unit) /\ Len(R) = Len(w) - t
        /\ \A i \in 1..(Len(w) - t) : R[i] = w[t + i]
    BY <1>2, <1>10, <1>11 DEF Kept
  <2> HIDE DEF w, t, R
  <2> QED BY <2>1, StreamAfterEnd
<1>13. ASSUME peer = "open" PROVE R = <<>> \/ Ends(R[Len(R)], incoming)
  <2> SUFFICES ASSUME R # <<>> PROVE Ends(R[Len(R)], incoming)
    OBVIOUS
  <2>1. Len(R) \in Nat \ {0}
    BY <1>10, EmptySeq
  <2>2. Len(R) \in 1..(Len(Line) - t) /\ t + Len(R) = Len(Line) /\ Len(Line) \in Nat \ {0}
    BY <1>3, <1>10, <1>11, <2>1
  <2>3. R[Len(R)] = Line[Len(Line)]
    BY <1>11, <2>2
  <2>4. Line # <<>>
    BY <2>2, EmptySeq
  <2> QED BY <1>13, <2>3, <2>4 DEF Kept
<1>14. FlattenSeq(handed') \o Held' = readOut'
  <2> DEFINE ss == handed
             c == Chunk(n)
  <2>1. ss \in Seq(Seq(Unit)) /\ P \in Seq(Unit) /\ Held \in Seq(Unit) /\ c \in Seq(Unit)
    BY <1>3, <1>6, <1>10, HandedTypes, UnitsAreUnits
  <2>2. FlattenSeq(ss) \o Held = readOut
    BY DEF Kept
  <2>3. \A u, v, w \in Seq(Unit) : (u \o v) \o w = u \o (v \o w)
    <3>1. Associative(Unit)
      BY ConcatIsAssociative
    <3> QED BY <3>1 DEF Associative
  <2>4. readOut' = readOut \o c /\ P = Held \o c
    BY <1>1
  <2> HIDE DEF ss, c, P
  <2>5. FlattenSeq(ss) \in Seq(Unit) /\ FlattenSeq(Append(ss, P)) = FlattenSeq(ss) \o P
    BY <2>1, FlattenAppend
  <2> DEFINE F == FlattenSeq(ss)
  <2>6. F \in Seq(Unit)
    BY <2>5
  <2> HIDE DEF F
  <2>7. F \o (Held \o c) = (F \o Held) \o c
    BY <2>1, <2>3, <2>6, Zenon
  <2>8. F \o P \in Seq(Unit)
    BY <2>1, <2>6, ConcatProperties
  <2>9. (F \o P) \o <<>> = F \o P
    BY <2>8, ConcatEmptySeq
  <2> QED BY <1>7, <1>8, <2>2, <2>4, <2>5, <2>7, <2>9 DEF F, ss
<1>15. HandedWhole'
  <2> DEFINE N == Len(handed)
             u == UnitsOf(p, HeaderSize + incoming[p])
  <2>1. P = u
    <3>1. t \in Nat /\ p \in Nat
      BY <1>2, <1>3
    <3>2. UnitsOf(p, t) \in Seq(Unit) /\ Len(UnitsOf(p, t)) = t
      BY <3>1, UnitsOfTypes
    <3>3. \A i \in 1..t : UnitsOf(p, t)[i] = <<p, i>>
      BY DEF UnitsOf
    <3>4. P \in Seq(Unit) /\ Len(P) = t /\ \A i \in 1..t : P[i] = <<p, i>>
      BY <1>2, <1>6, UnitsAreUnits
    <3> DEFINE v == UnitsOf(p, t)
    <3>5. v \in Seq(Unit) /\ Len(v) = t /\ \A i \in 1..t : v[i] = <<p, i>>
      BY <3>2, <3>3
    <3> HIDE DEF v, P, t
    <3>6. \A i \in 1..Len(P) : P[i] = v[i]
      BY <3>4, <3>5
    <3>7. P = v
      BY <3>4, <3>5, <3>6, SeqEqual
    <3> QED BY <1>2, <3>7 DEF v, t
  <2>2. /\ Len(handed') = N + 1 /\ N \in Nat
        /\ handed'[N + 1] = P /\ \A k \in 1..N : handed'[k] = handed[k]
    <3>1. handed \in Seq(Seq(Unit)) /\ P \in Seq(Unit) /\ N \in Nat
      BY <1>6, HandedTypes, UnitsAreUnits
    <3> HIDE DEF P
    <3> QED BY <1>7, <3>1, AppendProperties
  <2> HIDE DEF P, p, N
  <2>3. \A k \in 1..(N + 1) : k = N + 1 \/ k \in 1..N
    BY <2>2
  <2>4. p \in 1..Len(incoming)
    BY <1>2
  <2>5. ASSUME NEW k \in 1..N
        PROVE  \E q \in 1..Len(incoming) : handed[k] = UnitsOf(q, HeaderSize + incoming[q])
    BY DEF Kept, HandedWhole, N
  <2> QED BY <2>1, <2>2, <2>3, <2>4, <2>5 DEF HandedWhole
<1>16. \A i \in 1..0 : FALSE
  OBVIOUS
<1> HIDE DEF t, size, b, P, R, p, m
<1> QED BY <1>5, <1>8, <1>9, <1>12, <1>13, <1>14, <1>15, <1>16 DEF Kept

\* What a client sends is a packet behind those on the way.
LEMMA KeptBySending ==
  ASSUME RecvTypes, RecvTypes', Kept, NEW size \in DataSizes, ClientSends(size)
  PROVE  Kept'
<1> DEFINE id == Len(incoming) + 1
           n == HeaderSize + size
           new == UnitsOf(id, n)
           w == Line
           v == w \o new
<1>1. /\ incoming \in Seq(DataSizes) /\ incoming' = Append(incoming, size)
      /\ inbound' = inbound \o new /\ peer = "open"
      /\ UNCHANGED <<recvBuffer, recvBufferList, readOut, taken, peer, clientSock>>
  BY DEF RecvTypes, ClientSends, receiving, sock, UnitsOf
<1>2. /\ id \in Nat /\ n \in Nat \ {0} /\ Len(new) = n
      /\ new \in Seq(SentUnits') /\ \A i \in 1..n : new[i] = <<id, i>>
  BY <1>1, NewUnits
<1>3. incoming'[id] = size /\ Len(incoming') = id
      /\ \A p \in 1..Len(incoming) : p \in 1..Len(incoming') /\ incoming'[p] = incoming[p]
  BY <1>1, MoreUnits
<1>4. new \in Seq(Unit)
  <2>1. SentUnits' \subseteq Unit
    BY DEF SentUnits, Unit
  <2> HIDE DEF new
  <2> QED BY <1>2, <2>1, SeqMonotonic
<1>5. /\ w \in Seq(Unit) /\ w \in Seq(SentUnits) /\ Len(w) \in Nat
      /\ Held \in Seq(SentUnits) /\ inbound \in Seq(SentUnits)
      /\ HeldSize \in Nat /\ Len(w) = HeldSize + Len(inbound) /\ Len(inbound) \in Nat
  BY LineIs, LenProperties DEF RecvTypes
<1>6. ASSUME NEW i \in 1..Len(w) PROVE Ends(w[i], incoming') <=> Ends(w[i], incoming)
  <2> DEFINE u == w[i]
  <2>1. u \in SentUnits
    BY <1>5, ElementOfSeq
  <2> HIDE DEF u
  <2>2. u[1] \in 1..Len(incoming)
    BY <1>1, <2>1, SentUnitIs
  <2>3. incoming'[u[1]] = incoming[u[1]]
    BY <1>3, <2>2
  <2>4. Ends(u, incoming') <=> Ends(u, incoming)
    BY <2>3 DEF Ends
  <2> QED BY <2>4 DEF u
<1>7. n = HeaderSize + incoming'[id]
  BY <1>3
<1>8. Stream(w, incoming) /\ (w = <<>> \/ Ends(w[Len(w)], incoming))
  BY <1>1 DEF Kept
<1>9. Stream(v, incoming') /\ v # <<>> /\ Ends(v[Len(v)], incoming')
  <2> DEFINE more == incoming'
  <2>1. \A i \in 1..Len(w) : Ends(w[i], more) <=> Ends(w[i], incoming)
    BY <1>6
  <2>2. n = HeaderSize + more[id]
    BY <1>7
  <2> HIDE DEF more, id, n, new, w
  <2>3. Stream(w \o new, more) /\ w \o new # <<>> /\ Ends((w \o new)[Len(w \o new)], more)
    BY <1>2, <1>4, <1>5, <1>8, <2>1, <2>2, StreamGrows
  <2> QED BY <2>3 DEF more
<1>10. Held' = Held /\ HeldSize' = HeldSize /\ handed' = handed
  BY <1>1 DEF Held, HeldSize, handed
<1>11. Line' = v
  <2>1. Line' = Held \o (inbound \o new)
    BY <1>1, <1>10 DEF Line
  <2>2. Held \in Seq(Unit) /\ inbound \in Seq(Unit)
    BY <1>5, UnitsAreUnits
  <2>3. \A r, s, u \in Seq(Unit) : (r \o s) \o u = r \o (s \o u)
    <3>1. Associative(Unit)
      BY ConcatIsAssociative
    <3> QED BY <3>1 DEF Associative
  <2> HIDE DEF new
  <2>4. (Held \o inbound) \o new = Held \o (inbound \o new)
    BY <1>4, <2>2, <2>3, Zenon
  <2> QED BY <2>1, <2>4 DEF Line
<1>12. ASSUME NEW i \in 1..HeldSize PROVE ~Ends(Line'[i], incoming')
  <2>1. i \in 1..Len(w)
    BY <1>5
  <2>2. v[i] = w[i]
    <3>1. i \in 1..(Len(w) + Len(new)) /\ i <= Len(w)
      BY <1>2, <1>5, <2>1
    <3> HIDE DEF w, new
    <3> QED BY <1>4, <1>5, <3>1, ConcatProperties
  <2>3. ~Ends(w[i], incoming)
    BY DEF Kept
  <2> QED BY <1>6, <1>11, <2>1, <2>2, <2>3
<1>13. HandedWhole'
  <2>1. ASSUME NEW k \in 1..Len(handed)
        PROVE  \E p \in 1..Len(incoming') : handed[k] = UnitsOf(p, HeaderSize + incoming'[p])
    <3>1. PICK p \in 1..Len(incoming) : handed[k] = UnitsOf(p, HeaderSize + incoming[p])
      BY DEF Kept, HandedWhole
    <3> QED BY <1>3, <3>1
  <2> QED BY <1>10, <2>1 DEF HandedWhole
<1> HIDE DEF v, w, new, n, id
<1> QED BY <1>1, <1>9, <1>10, <1>11, <1>12, <1>13 DEF Kept

\* A client that leaves can take with it what is on the way, and the next one
\* starts with nothing on the way.
LEMMA KeptByFront ==
  ASSUME RecvTypes, RecvTypes', Kept,
         UNCHANGED <<recvBuffer, recvBufferList, readOut, taken, incoming>>,
         inbound' = inbound \/ inbound' = <<>>,
         peer' = "open" => inbound' = <<>> /\ recvBuffer.totalSize <= 0,
         ~clientSock' => recvBuffer.totalSize <= 0
  PROVE  Kept'
<1>1. Held' = Held /\ HeldSize' = HeldSize /\ handed' = handed
  BY DEF Held, HeldSize, handed
<1>2. /\ Line \in Seq(Unit) /\ Held \in Seq(SentUnits) /\ Len(Held) = HeldSize
      /\ HeldSize \in Nat /\ Len(Line) = HeldSize + Len(inbound) /\ Len(inbound) \in Nat
      /\ HeldSize = IF recvBuffer.totalSize > 0 THEN recvBuffer.totalSize ELSE 0
      /\ recvBuffer.totalSize \in Int
      /\ \A i \in 1..HeldSize : Held[i] = recvBuffer.buffer[i]
      /\ \A i \in 1..HeldSize : Line[i] = recvBuffer.buffer[i]
  BY LineIs, LenProperties DEF RecvTypes
<1>3. /\ Stream(Line, incoming) /\ \A i \in 1..HeldSize : ~Ends(Line[i], incoming)
      /\ FlattenSeq(handed) \o Held = readOut /\ HandedWhole
  BY DEF Kept
<1>4. HandedWhole'
  BY <1>1, <1>3 DEF HandedWhole
<1>5. CASE inbound' = inbound /\ inbound' # <<>>
  <2>1. Line' = Line
    BY <1>1, <1>5 DEF Line
  <2> QED BY <1>1, <1>3, <1>4, <1>5, <2>1 DEF Kept
<1>6. CASE inbound' = <<>>
  <2>1. Line' = Held
    BY <1>1, <1>2, <1>6, ConcatEmptySeq DEF Line
  <2>2. Held \in Seq(Unit)
    BY <1>2, UnitsAreUnits
  <2>3. \A i \in 1..HeldSize : Held[i] = Line[i]
    BY <1>2
  <2>4. Stream(Held, incoming)
    <3> DEFINE w == Line
               r == Held
    <3>1. /\ w \in Seq(Unit) /\ Stream(w, incoming) /\ r \in Seq(Unit) /\ Len(r) <= Len(w)
          /\ \A i \in 1..Len(r) : r[i] = w[i]
      BY <1>2, <1>3, <2>2, <2>3
    <3> HIDE DEF w, r
    <3>2. Stream(r, incoming)
      BY <3>1, StreamFront
    <3> QED BY <3>2 DEF r
  <2>5. \A i \in 1..HeldSize : ~Ends(Held[i], incoming)
    BY <1>3, <2>3
  <2>6. ASSUME peer' = "open" PROVE Line' = <<>>
    <3>1. Len(Held) = 0
      BY <1>2, <2>6
    <3> QED BY <1>2, <2>1, <3>1, EmptySeq
  <2> QED BY <1>1, <1>3, <1>4, <2>1, <2>4, <2>5, <2>6 DEF Kept
<1> QED BY <1>5, <1>6

IntactInv == RecvTypes /\ (mode # "uninit" /\ tidy => Kept)

\* IntactInv at the start.
LEMMA IntactInit ==
  ASSUME Init
  PROVE  IntactInv
<1>1. RecvTypes
  BY RecvTypesInit
<1>2. /\ recvBuffer.totalSize = -1 /\ inbound = <<>> /\ readOut = <<>> /\ taken = <<>>
      /\ recvBufferList = <<>>
  BY DEF Init
<1>3. HeldSize = 0
  BY <1>2 DEF HeldSize, Offset
<1>4. Held = <<>> /\ Line = <<>> /\ Len(Line) = 0
  <2>1. /\ Held \in Seq(SentUnits) /\ Len(Held) = 0
        /\ Line \in Seq(SentUnits) /\ Len(Line) = 0 + Len(inbound)
    BY <1>1, <1>3, LineIs
  <2>2. Len(inbound) = 0
    BY <1>2, EmptySeq
  <2> QED BY <2>1, <2>2, EmptySeq
<1>5. <<>> \in Seq(Unit) /\ Len(<<>>) = 0
  BY EmptySeq
<1>6. handed = <<>>
  BY <1>2, <1>5, ConcatEmptySeq DEF handed
<1>7. FlattenSeq(handed) \o Held = readOut
  BY <1>2, <1>4, <1>5, <1>6, FlattenEmpty, ConcatEmptySeq
<1>8. HandedWhole
  BY <1>5, <1>6 DEF HandedWhole
<1>9. Stream(Line, incoming)
  BY <1>4 DEF Stream
<1>10. \A i \in 1..0 : FALSE
  OBVIOUS
<1> QED BY <1>1, <1>2, <1>3, <1>4, <1>7, <1>8, <1>9, <1>10 DEF IntactInv, Kept

\* IntactInv is kept by every step, a case for each.
LEMMA IntactNext ==
  ASSUME IntactInv, [Next]_vars
  PROVE  IntactInv'
<1>1. RecvTypes /\ RecvTypes'
  BY RecvTypesNext DEF IntactInv
<1> SUFFICES ASSUME mode' # "uninit", tidy' PROVE Kept'
  BY <1>1 DEF IntactInv
<1>2. mode # "uninit"
  BY SendingSteps
<1>3. CASE UNCHANGED <<receiving, inbound, incoming, peer, clientSock>>
  <2>1. Kept
    BY <1>2, <1>3 DEF IntactInv, receiving
  <2>2. /\ UNCHANGED <<recvBuffer, recvBufferList, readOut, taken, tidy>>
        /\ UNCHANGED <<inbound, incoming, peer, clientSock>>
    BY <1>3 DEF receiving
  <2>3. Line' = Line /\ HeldSize' = HeldSize /\ Held' = Held /\ handed' = handed
    BY <2>2 DEF Line, HeldSize, Held, handed
  <2> QED BY <2>1, <2>2, <2>3 DEF Kept, HandedWhole
<1>4. ASSUME NEW size \in DataSizes, ClientSends(size) PROVE Kept'
  <2>1. tidy
    BY <1>4 DEF ClientSends, receiving
  <2> QED BY <1>1, <1>2, <1>4, <2>1, KeptBySending DEF IntactInv
<1>5. CASE ClientLeaves
  <2>1. /\ tidy /\ peer' = "gone" /\ inbound' \in {inbound, <<>>}
        /\ UNCHANGED <<recvBuffer, recvBufferList, readOut, taken, incoming, clientSock>>
    BY <1>5 DEF ClientLeaves, receiving, sock
  <2>2. Kept
    BY <1>2, <2>1 DEF IntactInv
  <2>3. ~clientSock => recvBuffer.totalSize <= 0
    BY <2>2 DEF Kept
  <2> QED BY <1>1, <2>1, <2>2, <2>3, KeptByFront
<1>6. CASE UNCHANGED <<receiving, incoming>> /\ Accept
  <2>1. /\ tidy /\ ~clientSock /\ inbound' = <<>> /\ clientSock'
        /\ UNCHANGED <<recvBuffer, recvBufferList, readOut, taken, incoming>>
    BY <1>6 DEF Accept, receiving
  <2>2. Kept
    BY <1>2, <2>1 DEF IntactInv
  <2>3. recvBuffer.totalSize <= 0
    BY <2>1, <2>2 DEF Kept
  <2> QED BY <1>1, <2>1, <2>2, <2>3, KeptByFront
<1>7. ASSUME NEW n \in 1..Len(inbound), Receive(n), UpdateReceive, incoming' = incoming
      PROVE  Kept'
  <2>1. tidy
    BY <1>7, ReceiveIs
  <2>2. Kept
    BY <1>2, <2>1 DEF IntactInv
  <2>3. UNCHANGED <<incoming, peer, clientSock>> /\ clientSock
    BY <1>7 DEF UpdateReceive, sock
  <2>4. HeldSize + n <= FrontSize(n)
    BY <1>1, <1>7, <2>2, TidyChunk
  <2>5. HeldSize + n \in Nat /\ FrontSize(n) \in Nat
    <3>1. HeldSize + n <= BufferSize
      BY <1>7, ReceiveIs
    <3>2. HeldSize \in Nat /\ n \in Nat /\ FrontSize(n) \in Nat \ {0}
      BY <1>1, <3>1, FilledIs
    <3> QED BY <3>2
  <2>6. CASE HeldSize + n < FrontSize(n)
    BY <1>1, <1>7, <2>2, <2>3, <2>6, KeptByPart
  <2>7. CASE HeldSize + n = FrontSize(n)
    BY <1>1, <1>7, <2>2, <2>3, <2>7, KeptByWhole
  <2> QED BY <2>4, <2>5, <2>6, <2>7
<1>8. CASE RecvPacket
  <2>1. /\ tidy /\ recvBufferList # <<>>
        /\ taken' = Append(taken, Head(recvBufferList))
        /\ recvBufferList' = Tail(recvBufferList)
        /\ UNCHANGED <<recvBuffer, readOut, inbound, incoming, peer, clientSock>>
    BY <1>8 DEF RecvPacket, outside, sock
  <2>2. Kept
    BY <1>2, <2>1 DEF IntactInv
  <2>3. handed' = handed
    <3> DEFINE S == Seq(SentUnits)
               h == Head(recvBufferList)
               r == Tail(recvBufferList)
    <3>1. taken \in Seq(S) /\ recvBufferList \in Seq(S)
      BY <1>1 DEF RecvTypes
    <3> HIDE DEF S
    <3>2. h \in S /\ r \in Seq(S) /\ <<h>> \in Seq(S)
      BY <2>1, <3>1, HeadTailProperties
    <3>3. recvBufferList = <<h>> \o r
      BY <2>1, <3>1, <3>2
    <3>4. Append(taken, h) = taken \o <<h>>
      BY <3>1, <3>2, AppendIsConcat
    <3>5. \A u, v, w \in Seq(S) : (u \o v) \o w = u \o (v \o w)
      <4>1. Associative(S)
        BY ConcatIsAssociative
      <4> QED BY <4>1 DEF Associative
    <3> HIDE DEF h, r
    <3>6. (taken \o <<h>>) \o r = taken \o (<<h>> \o r)
      BY <3>1, <3>2, <3>5, Zenon
    <3>7. handed' = Append(taken, h) \o r
      BY <2>1 DEF handed, h, r
    <3> QED BY <3>3, <3>4, <3>6, <3>7 DEF handed
  <2>4. Line' = Line /\ HeldSize' = HeldSize /\ Held' = Held
    BY <2>1 DEF Line, HeldSize, Held
  <2> QED BY <2>1, <2>2, <2>3, <2>4 DEF Kept, HandedWhole
<1>9. CASE UpdateClosed
  <2>1. /\ tidy /\ recvBuffer.totalSize <= 0 /\ inbound' = inbound /\ peer' = "none"
        /\ UNCHANGED <<recvBuffer, recvBufferList, readOut, taken, incoming>>
    BY <1>9 DEF UpdateClosed
  <2>2. Kept
    BY <1>2, <2>1 DEF IntactInv
  <2> QED BY <1>1, <2>1, <2>2, KeptByFront
<1>10. ~UnInit
  BY DEF UnInit
<1> QED BY <1>3, <1>4, <1>5, <1>6, <1>7, <1>8, <1>9, <1>10, ReceivingSteps

\* As long as no chunk goes on after the end of a packet and no client leaves in
\* the middle of one, RecvDone is right although it moves nothing to the front:
\* what recv returned is what was handed out, packet by packet, and what is held.
THEOREM TidyIsIntact == Spec => []UnbatchedIsIntact
<1>1. Init => IntactInv
  BY IntactInit
<1>2. IntactInv /\ [Next]_vars => IntactInv'
  BY IntactNext
<1>3. IntactInv => UnbatchedIsIntact
  <2> SUFFICES ASSUME RecvTypes, Kept PROVE UnbatchedIsIntact
    BY DEF IntactInv, UnbatchedIsIntact
  <2>1. FlattenSeq(handed) \o Held = readOut
    BY DEF Kept
  <2>2. handed \in Seq(Seq(Unit)) /\ DOMAIN handed = 1..Len(handed)
    BY HandedTypes, LenProperties
  <2>3. ASSUME NEW k \in DOMAIN handed
        PROVE  /\ handed[k] = UnitsOf(handed[k][1][1], Len(handed[k]))
               /\ EndsPacket(Last(handed[k]))
    <3>1. PICK p \in 1..Len(incoming) : handed[k] = UnitsOf(p, HeaderSize + incoming[p])
      BY <2>2, <2>3 DEF Kept, HandedWhole
    <3> DEFINE n == HeaderSize + incoming[p]
               s == handed[k]
    <3>2. incoming[p] \in Nat /\ p \in Nat
      <4>1. incoming \in Seq(DataSizes)
        BY DEF RecvTypes
      <4>2. incoming[p] \in DataSizes
        BY <4>1, ElementOfSeq
      <4> QED BY <4>2, Sizes
    <3>3. n \in Nat \ {0}
      BY <3>2, Sizes
    <3>4. s = UnitsOf(p, n)
      BY <3>1
    <3> HIDE DEF n, s
    <3>5. s \in Seq(Unit) /\ Len(s) = n
      BY <3>2, <3>3, <3>4, UnitsOfTypes
    <3>6. \A i \in 1..n : s[i] = <<p, i>>
      BY <3>4 DEF UnitsOf
    <3>7. s[1] = <<p, 1>> /\ s[n] = <<p, n>>
      BY <3>3, <3>6
    <3>8. s = UnitsOf(s[1][1], Len(s))
      BY <3>4, <3>5, <3>7
    <3>9. Last(s) = <<p, n>>
      BY <3>5, <3>7 DEF Last
    <3>10. EndsPacket(Last(s))
      BY <3>9 DEF EndsPacket, n
    <3> QED BY <3>8, <3>10 DEF s
  <2> QED BY <2>1, <2>3 DEF UnbatchedIsIntact
<1> QED BY <1>1, <1>2, <1>3, PTL DEF Spec

-----------------------------------------------------------------------------
(* The types. *)

\* A packet given to SendPacket fits into sendBuffer: SendPacket copies it there
\* without a check (SimpleSocket.cpp:399).
PacketsFit == \A size \in PacketSizes : size <= BufferSize

\* The sockets; no more clients are in the backlog than have come.
SockTypes ==
  /\ mode \in {"running", "stopped", "uninit"}
  /\ clientSock \in BOOLEAN /\ nonBlocking \in BOOLEAN /\ clientNonBlocking \in BOOLEAN
  /\ tidy \in BOOLEAN
  /\ clients \in 0..MaxClients /\ backlog \in 0..clients
  /\ peer \in {"none", "open", "gone"}

\* The rest of TypeOK is kept by every step.
LEMMA SockTypesNext ==
  ASSUME SockTypes, [Next]_vars
  PROVE  SockTypes'
<1>1. MaxClients \in Nat
  BY Sizes
<1>2. CASE UNCHANGED vars
  BY <1>2 DEF SockTypes, vars, sock, receiving, outside
<1>3. CASE ClientArrives
  BY <1>1, <1>3 DEF SockTypes, ClientArrives, sock, receiving
<1>4. CASE ClientLeaves
  BY <1>4 DEF SockTypes, ClientLeaves, sock, receiving
<1>5. ASSUME NEW size \in DataSizes, ClientSends(size) PROVE SockTypes'
  BY <1>5 DEF SockTypes, ClientSends, sock, receiving
<1>6. ASSUME NEW size \in PacketSizes, SendPacket(size) PROVE SockTypes'
  BY <1>6 DEF SockTypes, SendPacket, sock, receiving, outside
<1>7. CASE RecvPacket
  BY <1>7 DEF SockTypes, RecvPacket, sock, outside
<1>8. CASE Accept
  <2>1. /\ backlog > 0 /\ backlog' = backlog - 1 /\ UNCHANGED <<clients, tidy>>
        /\ clientSock' = TRUE /\ peer' = "open" /\ clientNonBlocking' = nonBlocking
    BY <1>8 DEF Accept, receiving
  <2>2. nonBlocking' \in BOOLEAN /\ (mode' = "stopped" \/ mode' = mode)
    BY <1>8 DEF Accept
  <2>3. clients' \in 0..MaxClients /\ backlog' \in 0..clients'
    BY <1>1, <2>1 DEF SockTypes
  <2> QED BY <2>1, <2>2, <2>3 DEF SockTypes
<1>9. CASE AcceptFails
  BY <1>1, <1>9 DEF SockTypes, AcceptFails, receiving
<1>10. CASE UpdateIdle
  BY <1>10 DEF SockTypes, UpdateIdle, sock, receiving, outside
<1>11. CASE UpdateReceive
  <2>1. UNCHANGED <<mode, clientSock, nonBlocking, clientNonBlocking, clients, backlog, peer>>
    BY <1>11 DEF UpdateReceive, sock
  <2>2. tidy' \in BOOLEAN
    BY <1>11, ReceiveIs DEF UpdateReceive
  <2> QED BY <2>1, <2>2 DEF SockTypes
<1>12. CASE UpdateClosed
  <2>1. /\ UNCHANGED <<mode, nonBlocking, clientNonBlocking, clients, backlog>>
        /\ clientSock' = FALSE /\ peer' = "none" /\ tidy' = (tidy /\ recvBuffer.totalSize <= 0)
    BY <1>12 DEF UpdateClosed
  <2> QED BY <2>1 DEF SockTypes
<1>13. CASE UnInit
  <2>1. /\ mode' = "uninit" /\ clientSock' = FALSE /\ peer' = "none" /\ backlog' = 0
        /\ UNCHANGED <<nonBlocking, clientNonBlocking, clients, tidy>>
    BY <1>13 DEF UnInit
  <2>2. clients' \in 0..MaxClients /\ backlog' \in 0..clients'
    BY <1>1, <2>1 DEF SockTypes
  <2> QED BY <2>1, <2>2 DEF SockTypes
<1> QED
  BY <1>2, <1>3, <1>4, <1>5, <1>6, <1>7, <1>8, <1>9, <1>10, <1>11, <1>12, <1>13
     DEF Next, Update

\* With packets that fit the type invariant holds: the buffers keep their size
\* and currentSize stays inside sendBuffer, but for what failed sends take off it.
THEOREM TypeCorrect == ASSUME PacketsFit PROVE Spec => []TypeOK
<1>1. Init => SockTypes
  <2>1. MaxClients \in Nat
    BY Sizes
  <2> SUFFICES ASSUME Init PROVE SockTypes
    OBVIOUS
  <2>2. clients \in 0..MaxClients /\ backlog \in 0..clients
    BY <2>1 DEF Init
  <2>3. /\ mode = "running" /\ peer = "none" /\ tidy = TRUE
        /\ clientSock = FALSE /\ nonBlocking = FALSE /\ clientNonBlocking = FALSE
    BY DEF Init
  <2> QED BY <2>2, <2>3 DEF SockTypes
<1>2. SockTypes /\ [Next]_vars => SockTypes'
  BY SockTypesNext
<1>3. SockTypes /\ SendTypes /\ RecvTypes => TypeOK
  <2> SUFFICES ASSUME SockTypes, SendTypes, RecvTypes PROVE TypeOK
    OBVIOUS
  <2>1. BufferSize \in Nat /\ MaxClients \in Nat /\ MaxErrors \in Nat
    BY Sizes
  <2>2. SentUnits \subseteq Unit
    BY DEF SentUnits, Unit
  <2>3. Seq(SentUnits) \subseteq Seq(Unit)
    BY UnitsAreUnits
  <2>4. /\ taken \in Seq(Seq(Unit)) /\ recvBufferList \in Seq(Seq(Unit))
        /\ inbound \in Seq(Unit) /\ readOut \in Seq(Unit)
    BY <2>3, SeqMonotonic DEF RecvTypes
  <2>5. recvBuffer.buffer \in Seq(Unit) /\ Len(recvBuffer.buffer) = BufferSize
    <3> DEFINE b == recvBuffer.buffer
    <3>1. Blank \in Unit
      BY DEF Blank, Unit
    <3>2. b \in [1..BufferSize -> SentUnits \cup {Blank}]
      BY DEF RecvTypes
    <3>3. DOMAIN b = 1..BufferSize /\ b = [i \in 1..BufferSize |-> b[i]]
          /\ \A i \in 1..BufferSize : b[i] \in Unit
      BY <2>2, <3>1, <3>2
    <3> HIDE DEF b
    <3>4. b \in Seq(Unit) /\ Len(b) = BufferSize
      BY <2>1, <3>3, ByElements
    <3> QED BY <3>4 DEF b
  <2>6. sendBuffer \in [id : 0..MaxSubmitted, totalSize : PacketSizes \cup {-1},
                        currentSize : (-MaxErrors)..BufferSize]
    <3>1. sendBuffer.currentSize \in (-MaxErrors)..BufferSize
      <4>1. /\ sendBuffer.currentSize \in Int /\ sendErrors \in 0..MaxErrors
            /\ sendBuffer.totalSize \in Int
        BY SendNumbers DEF SendTypes
      <4>2. -sendErrors <= sendBuffer.currentSize
        BY DEF SendTypes
      <4>3. sendBuffer.currentSize <= BufferSize
        <5>1. CASE Busy
          <6>1. sendBuffer.currentSize < sendBuffer.totalSize
            BY <5>1 DEF SendTypes
          <6>2. sendBuffer.totalSize \in PacketSizes
            BY <5>1, SendNumbers DEF Busy
          <6>3. sendBuffer.totalSize <= BufferSize
            BY <6>2 DEF PacketsFit
          <6> QED BY <2>1, <4>1, <6>1, <6>3
        <5>2. CASE ~Busy
          BY <2>1, <5>2 DEF SendTypes
        <5> QED BY <5>1, <5>2
      <4> QED BY <2>1, <4>1, <4>2, <4>3
    <3>2. sendBuffer \in [id : 0..MaxSubmitted, totalSize : PacketSizes \cup {-1},
                          currentSize : Int]
      BY DEF SendTypes
    <3> QED BY <3>1, <3>2
  <2>7. backlog \in 0..MaxClients /\ clients \in 0..MaxClients
    BY <2>1 DEF SockTypes
  <2>8. /\ sendBufferList \in Seq(SizedPacket) /\ sendErrors \in 0..MaxErrors
        /\ submitted \in Seq(PacketSizes) /\ transmitted \in Seq(Unit)
    BY DEF SendTypes
  <2>9. recvBuffer.totalSize \in -1..BufferSize /\ incoming \in Seq(DataSizes)
    BY DEF RecvTypes
  <2>10. /\ mode \in {"running", "stopped", "uninit"}
         /\ {clientSock, nonBlocking, clientNonBlocking, tidy} \subseteq BOOLEAN
         /\ peer \in {"none", "open", "gone"}
    BY DEF SockTypes
  <2> QED BY <2>4, <2>5, <2>6, <2>7, <2>8, <2>9, <2>10 DEF TypeOK
<1> QED BY <1>1, <1>2, <1>3, SendTypesAlways, RecvTypesAlways, PTL DEF Spec
=============================================================================
