--------------------------- MODULE NetServerProofs ---------------------------
(***************************************************************************)
(* Proofs about NetServer, for any number of clients and of messages: what *)
(* the main thread's broadcasts and removals and the context thread's      *)
(* accepts leave of the container they share without a lock.               *)
(***************************************************************************)
EXTENDS NetServer, SequenceTheorems, NatSets

LEMMA Constants ==
  /\ MaxConns \in Nat /\ MaxMessages \in Nat
  /\ Nil \notin Conns /\ Conns \subseteq Nat /\ 0 \notin Conns
BY NetServerAssumption DEF NetServerAssumption, Conns

-----------------------------------------------------------------------------
(* The erase-remove of the null entries.                                   *)

Some(s, x) == \E i \in 1..Len(s) : s[i] = x
NoRepeats(s) == \A i, j \in 1..Len(s) : s[i] = s[j] /\ s[i] # Nil => i = j
LastOf(s) == s[Len(s)]

\* The recursion that Erased is defined by has a solution.
LEMMA ErasedRecursion ==
  ASSUME NEW X, NEW s \in Seq(X)
  PROVE  \E f \in [0..Len(s) -> Seq(X \ {Nil})] :
           /\ f[0] = <<>>
           /\ \A i \in 1..Len(s) :
                f[i] = IF s[i] = Nil THEN f[i - 1] ELSE Append(f[i - 1], s[i])
           /\ Erased(s) = f[Len(s)]
<1> DEFINE n == Len(s)
           S == Seq(X \ {Nil})
           Rec(f) == [i \in 0..n |-> IF i = 0 THEN <<>>
                                     ELSE IF s[i] = Nil THEN f[i - 1]
                                                        ELSE Append(f[i - 1], s[i])]
           step == [i \in 1..n |-> [r \in S |-> IF s[i] = Nil THEN r ELSE Append(r, s[i])]]
           kept == CHOOSE f : f = Rec(f)
<1>1. n \in Nat /\ \A i \in 1..n : s[i] \in X
  BY LenProperties, ElementOfSeq
<1>2. <<>> \in S
  BY EmptySeq
<1>3. step \in [1..n -> [S -> S]]
  <2>1. ASSUME NEW i \in 1..n, NEW r \in S
        PROVE  (IF s[i] = Nil THEN r ELSE Append(r, s[i])) \in S
    BY <1>1, AppendProperties
  <2> QED BY <2>1
<1>4. PICK f \in [0..n -> S] : f[0] = <<>> /\ \A i \in 1..n : f[i] = step[i][f[i - 1]]
  <2>1. n \in Nat /\ <<>> \in S
    BY <1>1, <1>2
  <2> HIDE DEF n, S, step
  <2>2. \E f : FollowsFrom(f, S, n, <<>>, step)
    BY <1>3, <2>1, RecursionExists
  <2> QED BY <2>2 DEF FollowsFrom
<1>5. \A i \in 1..n : i - 1 \in 0..n /\ i \in 0..n /\ i # 0
  BY <1>1
<1>6. ASSUME NEW i \in 1..n
      PROVE  f[i] = IF s[i] = Nil THEN f[i - 1] ELSE Append(f[i - 1], s[i])
  <2>1. f[i - 1] \in S
    BY <1>5
  <2> QED BY <1>4, <2>1
<1>7. f = Rec(f)
  <2>1. \A i \in 0..n : i = 0 \/ i \in 1..n
    BY <1>1
  <2>2. DOMAIN f = 0..n /\ DOMAIN Rec(f) = 0..n
    OBVIOUS
  <2>3. ASSUME NEW i \in 0..n PROVE f[i] = Rec(f)[i]
    BY <1>4, <1>6, <2>1
  <2> QED BY <2>3
<1>8. kept = Rec(kept)
  <2> HIDE DEF Rec
  <2> QED BY <1>7
<1>9. kept[0] = <<>> /\ \A i \in 1..n : kept[i] = IF s[i] = Nil THEN kept[i - 1]
                                                  ELSE Append(kept[i - 1], s[i])
  <2> HIDE DEF kept
  <2>1. 0 \in 0..n
    BY <1>1
  <2>2. kept[0] = <<>>
    BY <1>8, <2>1
  <2>3. ASSUME NEW i \in 1..n
        PROVE  kept[i] = IF s[i] = Nil THEN kept[i - 1] ELSE Append(kept[i - 1], s[i])
    BY <1>5, <1>8
  <2> QED BY <2>2, <2>3
<1>10. Erased(s) = kept[n]
  BY DEF Erased
<1> HIDE DEF kept, Rec, step
<1> DEFINE Agree == {k \in Nat : k <= n => kept[k] = f[k]}
<1>11. 0 \in Agree
  BY <1>4, <1>9
<1>12. ASSUME NEW k \in Agree PROVE k + 1 \in Agree
  <2> SUFFICES ASSUME k + 1 <= n PROVE kept[k + 1] = f[k + 1]
    OBVIOUS
  <2>1. k + 1 \in 1..n /\ (k + 1) - 1 = k /\ kept[k] = f[k]
    BY <1>1
  <2> QED BY <1>6, <1>9, <2>1
<1>13. Agree = Nat
  <2>1. Agree \in SUBSET Nat
    OBVIOUS
  <2> HIDE DEF Agree
  <2> QED BY <1>11, <1>12, <2>1, SetInduction
<1>14. Erased(s) = f[n]
  BY <1>1, <1>10, <1>13
<1> HIDE DEF n, S
<1> QED BY <1>4, <1>6, <1>14 DEF n, S

\* What is not null stays, in its order and once if it was there once.
LEMMA ErasedProperties ==
  ASSUME NEW X, NEW s \in Seq(X)
  PROVE  /\ Erased(s) \in Seq(X \ {Nil})
         /\ Len(Erased(s)) <= Len(s)
         /\ \A i \in 1..Len(s) : s[i] # Nil => Some(Erased(s), s[i])
         /\ \A j \in 1..Len(Erased(s)) : Some(s, Erased(s)[j])
         /\ NoRepeats(s) => NoRepeats(Erased(s))
         /\ s # <<>> /\ LastOf(s) # Nil =>
              Erased(s) # <<>> /\ LastOf(Erased(s)) = LastOf(s)
<1> DEFINE n == Len(s)
           S == Seq(X \ {Nil})
<1>1. PICK f \in [0..n -> S] :
        /\ f[0] = <<>>
        /\ \A i \in 1..n : f[i] = IF s[i] = Nil THEN f[i - 1] ELSE Append(f[i - 1], s[i])
        /\ Erased(s) = f[n]
  BY ErasedRecursion
<1>2. n \in Nat /\ \A i \in 1..n : s[i] \in X
  BY LenProperties, ElementOfSeq
<1> DEFINE Kept(k) == \A i \in 1..k : s[i] # Nil => Some(f[k], s[i])
           From(k) == \A j \in 1..Len(f[k]) : \E i \in 1..k : f[k][j] = s[i]
           Once(k) == NoRepeats(s) => NoRepeats(f[k])
           Short(k) == Len(f[k]) <= k
           Good == {k \in Nat : k <= n => Kept(k) /\ From(k) /\ Once(k) /\ Short(k)}
<1>3. 0 \in Good
  <2>1. Len(f[0]) = 0
    BY <1>1
  <2> QED BY <2>1 DEF NoRepeats
<1>4. ASSUME NEW k \in Good PROVE k + 1 \in Good
  <2> SUFFICES ASSUME k + 1 <= n
               PROVE  Kept(k + 1) /\ From(k + 1) /\ Once(k + 1) /\ Short(k + 1)
    OBVIOUS
  <2> DEFINE x == s[k + 1]
  <2>1. k \in Nat /\ k + 1 \in 1..n /\ k <= n /\ (k + 1) - 1 = k /\ k \in 0..n
    BY <1>2
  <2>2. Kept(k) /\ From(k) /\ Once(k) /\ Short(k)
    BY <2>1
  <2>3. f[k + 1] = IF x = Nil THEN f[k] ELSE Append(f[k], x)
    BY <1>1, <2>1
  <2>4. f[k] \in S /\ Len(f[k]) \in Nat
    BY <2>1, LenProperties
  <2>5. \A i \in 1..(k + 1) : i \in 1..k \/ i = k + 1
    BY <2>1
  <2>6. \A i \in 1..k : i \in 1..(k + 1)
    BY <2>1
  <2>7. CASE x = Nil
    <3>1. f[k + 1] = f[k]
      BY <2>3, <2>7
    <3>2. Kept(k + 1)
      BY <2>2, <2>5, <2>7, <3>1
    <3>3. From(k + 1)
      BY <2>2, <2>6, <3>1
    <3>4. Short(k + 1)
      BY <2>1, <2>2, <2>4, <3>1
    <3> QED BY <2>2, <3>1, <3>2, <3>3, <3>4
  <2>8. CASE x # Nil
    <3> DEFINE t == f[k]
               m == Len(f[k])
               u == f[k + 1]
    <3>1. u = Append(t, x) /\ x \in X \ {Nil}
      BY <1>2, <2>1, <2>3, <2>8
    <3>2. Len(u) = m + 1 /\ u[m + 1] = x /\ \A j \in 1..m : u[j] = t[j]
      BY <2>4, <3>1, AppendProperties
    <3>3. \A j \in 1..(m + 1) : j \in 1..m \/ j = m + 1
      BY <2>4
    <3>4. m + 1 \in 1..(m + 1) /\ \A j \in 1..m : j \in 1..(m + 1)
      BY <2>4
    <3>8. Short(k + 1)
      BY <2>1, <2>2, <2>4, <3>2
    <3> HIDE DEF t, m, u, x
    <3>5. Kept(k + 1)
      <4> SUFFICES ASSUME NEW i \in 1..(k + 1), s[i] # Nil
                   PROVE  \E j \in 1..(m + 1) : u[j] = s[i]
        BY <3>2 DEF Some, u
      <4>1. CASE i \in 1..k
        <5>1. \E j \in 1..m : t[j] = s[i]
          BY <2>2, <4>1 DEF Some, t, m
        <5> QED BY <3>2, <3>4, <5>1
      <4>2. CASE i = k + 1
        BY <3>2, <3>4, <4>2 DEF x
      <4> QED BY <2>5, <4>1, <4>2
    <3>6. From(k + 1)
      <4> SUFFICES ASSUME NEW j \in 1..(m + 1)
                   PROVE  \E i \in 1..(k + 1) : u[j] = s[i]
        BY <3>2 DEF u
      <4>1. CASE j \in 1..m
        <5>1. \E i \in 1..k : t[j] = s[i]
          BY <2>2, <4>1 DEF t, m
        <5> QED BY <2>6, <3>2, <4>1, <5>1
      <4>2. CASE j = m + 1
        <5>1. k + 1 \in 1..(k + 1)
          BY <2>1
        <5> QED BY <3>2, <4>2, <5>1 DEF x
      <4> QED BY <3>3, <4>1, <4>2
    <3>7. Once(k + 1)
      <4> SUFFICES ASSUME NoRepeats(s), NEW i \in 1..(m + 1), NEW j \in 1..(m + 1),
                          u[i] = u[j]
                   PROVE  i = j
        BY <3>2 DEF NoRepeats, u
      <4>1. ASSUME NEW h \in 1..m, t[h] = x PROVE FALSE
        <5>1. PICK l \in 1..k : t[h] = s[l]
          BY <2>2 DEF t, m
        <5>2. l \in 1..n /\ l # k + 1
          BY <1>2, <2>1
        <5> QED BY <2>1, <2>8, <4>1, <5>1, <5>2 DEF NoRepeats, x
      <4>2. \A h \in 1..m : t[h] # Nil
        <5>1. t \in Seq(X \ {Nil})
          BY <2>4 DEF t
        <5>2. \A h \in 1..m : t[h] \in X \ {Nil}
          BY <5>1, ElementOfSeq DEF t, m
        <5> QED BY <5>2
      <4>3. CASE i \in 1..m /\ j \in 1..m
        <5>1. NoRepeats(t)
          BY <2>2 DEF t
        <5>2. t[i] = t[j] /\ t[i] # Nil
          BY <3>2, <4>2, <4>3
        <5> QED BY <4>3, <5>1, <5>2 DEF NoRepeats, t, m
      <4>4. CASE i \in 1..m /\ j = m + 1
        BY <3>2, <4>1, <4>4
      <4>5. CASE i = m + 1 /\ j \in 1..m
        BY <3>2, <4>1, <4>5
      <4> QED BY <3>3, <4>3, <4>4, <4>5
    <3> QED BY <3>5, <3>6, <3>7, <3>8
  <2> QED BY <2>7, <2>8
<1>5. Good = Nat
  <2>1. Good \in SUBSET Nat
    OBVIOUS
  <2> HIDE DEF Good
  <2> QED BY <1>3, <1>4, <2>1, SetInduction
<1>6. Kept(n) /\ From(n) /\ Once(n) /\ Short(n)
  BY <1>2, <1>5
<1>7. n \in 0..n
  BY <1>2
<1>8. Erased(s) \in S
  BY <1>1, <1>7
<1>9. ASSUME s # <<>>, LastOf(s) # Nil
      PROVE  Erased(s) # <<>> /\ LastOf(Erased(s)) = LastOf(s)
  <2>1. n > 0 /\ n \in 1..n /\ n - 1 \in 0..n
    BY <1>2, <1>9, EmptySeq
  <2>2. f[n] = Append(f[n - 1], s[n]) /\ f[n - 1] \in S /\ s[n] \in X \ {Nil}
    BY <1>1, <1>2, <1>9, <2>1 DEF LastOf
  <2>3. Len(f[n]) = Len(f[n - 1]) + 1 /\ Len(f[n - 1]) \in Nat /\ f[n][Len(f[n])] = s[n]
    BY <2>2, AppendProperties, LenProperties
  <2> QED BY <1>1, <2>3, EmptySeq DEF LastOf
<1>10. \A i \in 1..n : s[i] # Nil => Some(Erased(s), s[i])
  BY <1>1, <1>6
<1>11. \A j \in 1..Len(Erased(s)) : Some(s, Erased(s)[j])
  BY <1>1, <1>6 DEF Some
<1>12. NoRepeats(s) => NoRepeats(Erased(s))
  BY <1>1, <1>6
<1>13. Len(Erased(s)) <= n
  BY <1>1, <1>6
<1> QED BY <1>8, <1>9, <1>10, <1>11, <1>12, <1>13

LEMMA SeqMonotone ==
  ASSUME NEW X, NEW Y, X \subseteq Y, NEW s \in Seq(X)
  PROVE  s \in Seq(Y)
<1>1. s \in [1..Len(s) -> X] /\ Len(s) \in Nat
  BY LenProperties
<1>2. s \in [1..Len(s) -> Y]
  BY <1>1
<1> QED BY <1>1, <1>2, SeqDef

LEMMA PrefixProperties ==
  ASSUME NEW X, NEW s \in Seq(X), NEW n \in 0..Len(s)
  PROVE  /\ SubSeq(s, 1, n) \in Seq(X)
         /\ Len(SubSeq(s, 1, n)) = n
         /\ \A i \in 1..n : SubSeq(s, 1, n)[i] = s[i]
<1>1. Len(s) \in Nat /\ n \in Int /\ 1 \in Int /\ n >= 0
  BY LenProperties
<1>2. \A i \in 1..n : s[i] \in X
  BY <1>1, ElementOfSeq
<1>3. /\ SubSeq(s, 1, n) \in Seq(X)
      /\ Len(SubSeq(s, 1, n)) = IF 1 <= n THEN n - 1 + 1 ELSE 0
      /\ \A i \in 1..(n - 1 + 1) : SubSeq(s, 1, n)[i] = s[1 + i - 1]
  BY <1>1, <1>2, SubSeqProperties
<1>4. n - 1 + 1 = n /\ \A i \in 1..n : 1 + i - 1 = i
  BY <1>1
<1>5. Len(SubSeq(s, 1, n)) = n
  BY <1>1, <1>3
<1> QED BY <1>3, <1>4, <1>5

\* How many of the first n entries std::remove keeps.
KeptOf(s, n) == Len(Erased(SubSeq(s, 1, n)))

\* std::remove loses nothing but nulls: what it keeps is in front, null behind
\* it up to n, and the rest is as it was.
\* t is s with what is not null of its first n entries moved to its first k, and
\* null behind them.
Packed(s, n, t, k) ==
  /\ Len(t) = Len(s)
  /\ k \in 0..n
  /\ \A i \in 1..k : t[i] # Nil
  /\ \A i \in 1..n : i > k => t[i] = Nil
  /\ \A i \in 1..Len(s) : i > n => t[i] = s[i]
  /\ \A i \in 1..Len(s) : s[i] # Nil => Some(t, s[i])
  /\ \A i \in 1..Len(s) : t[i] # Nil => Some(s, t[i])
  /\ NoRepeats(s) => NoRepeats(t)
  /\ n > 0 /\ s[n] # Nil => k > 0 /\ t[k] = s[n]

LEMMA CompactedProperties ==
  ASSUME NEW X, Nil \in X, NEW s \in Seq(X), NEW n \in 0..Len(s),
         NEW t, t = Compacted(s, n), NEW k, k = KeptOf(s, n)
  PROVE  t \in Seq(X) /\ Packed(s, n, t, k)
<1> DEFINE p == SubSeq(s, 1, n)
           e == Erased(p)
           N == Len(s)
<1>0. k = Len(e)
  BY DEF KeptOf
<1>1. N \in Nat /\ n \in Nat /\ n <= N /\ DOMAIN s = 1..N /\ \A i \in 1..N : s[i] \in X
  BY LenProperties, ElementOfSeq
<1>2. p \in Seq(X) /\ Len(p) = n /\ \A i \in 1..n : p[i] = s[i]
  BY PrefixProperties
<1>3. /\ e \in Seq(X \ {Nil})
      /\ k <= n
      /\ \A i \in 1..n : p[i] # Nil => Some(e, p[i])
      /\ \A j \in 1..k : Some(p, e[j])
      /\ NoRepeats(p) => NoRepeats(e)
      /\ p # <<>> /\ LastOf(p) # Nil => e # <<>> /\ LastOf(e) = LastOf(p)
  <2> HIDE DEF p
  <2>1. /\ e \in Seq(X \ {Nil})
        /\ Len(e) <= Len(p)
        /\ \A i \in 1..Len(p) : p[i] # Nil => Some(e, p[i])
        /\ \A j \in 1..Len(e) : Some(p, e[j])
        /\ NoRepeats(p) => NoRepeats(e)
        /\ p # <<>> /\ LastOf(p) # Nil => e # <<>> /\ LastOf(e) = LastOf(p)
    BY <1>2, ErasedProperties
  <2> HIDE DEF e
  <2> QED BY <1>0, <1>2, <2>1
<1>4. k \in Nat /\ \A j \in 1..k : e[j] \in X /\ e[j] # Nil
  <2>1. \A j \in 1..k : e[j] \in X \ {Nil}
    BY <1>0, <1>3, ElementOfSeq
  <2> QED BY <1>0, <1>3, <2>1, LenProperties
<1>5. t = [i \in 1..N |-> IF i <= k THEN e[i] ELSE IF i <= n THEN Nil ELSE s[i]]
  <2>1. Compacted(s, n) =
          [i \in DOMAIN s |-> IF i <= Len(e) THEN e[i] ELSE IF i <= n THEN Nil ELSE s[i]]
    BY Zenon DEF Compacted
  <2> HIDE DEF e
  <2> QED BY <1>0, <1>1, <2>1
<1> HIDE DEF e, p, N
<1>7. t \in [1..N -> X]
  <2>1. ASSUME NEW i \in 1..N
        PROVE  (IF i <= k THEN e[i] ELSE IF i <= n THEN Nil ELSE s[i]) \in X
    BY <1>1, <1>4
  <2> QED BY <1>5, <2>1
<1>8. t \in Seq(X) /\ Len(t) = N
  BY <1>1, <1>7, SeqDef
<1>9. /\ \A i \in 1..k : i \in 1..N /\ t[i] = e[i]
      /\ \A i \in 1..n : i \in 1..N /\ (i > k => t[i] = Nil)
      /\ \A i \in 1..N : i > n => t[i] = s[i]
  <2>1. \A i \in 1..k : i \in 1..N /\ i <= k
    BY <1>1, <1>3, <1>4
  <2>2. \A i \in 1..n : i \in 1..N /\ i <= n /\ (i > k => ~ (i <= k))
    BY <1>1, <1>3, <1>4
  <2>3. \A i \in 1..N : i > n => ~ (i <= n) /\ ~ (i <= k)
    BY <1>1, <1>3, <1>4
  <2> QED BY <1>5, <2>1, <2>2, <2>3
<1>10. \A j \in 1..k : \E i \in 1..n : s[i] = e[j]
  BY <1>2, <1>3 DEF Some
<1>11. \A i \in 1..n : s[i] # Nil => \E j \in 1..k : e[j] = s[i]
  BY <1>0, <1>2, <1>3 DEF Some
<1>12. ASSUME NEW i \in 1..N, s[i] # Nil PROVE Some(t, s[i])
  <2>1. CASE i <= n
    <3>1. i \in 1..n
      BY <1>1, <2>1
    <3>2. PICK j \in 1..k : e[j] = s[i]
      BY <1>11, <1>12, <3>1
    <3> QED BY <1>8, <1>9, <3>2 DEF Some
  <2>2. CASE i > n
    BY <1>8, <1>9, <2>2 DEF Some
  <2> QED BY <1>1, <2>1, <2>2
<1>13. \A i \in 1..N : t[i] # Nil => i \in 1..k \/ i > n
  <2>1. \A i \in 1..N : i \in 1..k \/ i > n \/ (i \in 1..n /\ i > k)
    BY <1>1, <1>3, <1>4
  <2> QED BY <1>9, <2>1
<1>14. ASSUME NEW i \in 1..N, t[i] # Nil PROVE \E j \in 1..N : s[j] = t[i] /\ (i \in 1..k => j <= n) /\ (i > n => j = i)
  <2>1. CASE i \in 1..k
    <3>1. PICK j \in 1..n : s[j] = e[i]
      BY <1>10, <2>1
    <3>2. j \in 1..N /\ j <= n /\ ~ (i > n)
      BY <1>1, <1>3, <1>4, <2>1
    <3> QED BY <1>9, <2>1, <3>1, <3>2
  <2>2. CASE i > n
    <3>1. ~ (i \in 1..k)
      BY <1>1, <1>3, <1>4, <2>2
    <3> QED BY <1>9, <2>2, <3>1
  <2> QED BY <1>13, <1>14, <2>1, <2>2
<1>15. ASSUME NoRepeats(s) PROVE NoRepeats(t)
  <2>1. NoRepeats(p)
    <3>1. \A i \in 1..n : i \in 1..N
      BY <1>1
    <3> QED BY <1>2, <1>15, <3>1 DEF NoRepeats, N
  <2>2. \A i, j \in 1..k : e[i] = e[j] => i = j
    BY <1>0, <1>3, <1>4, <2>1 DEF NoRepeats
  <2>3. \A i, j \in 1..N : s[i] = s[j] /\ s[i] # Nil => i = j
    BY <1>15 DEF NoRepeats, N
  <2> SUFFICES ASSUME NEW i \in 1..N, NEW j \in 1..N, t[i] = t[j], t[i] # Nil
               PROVE  i = j
    BY <1>8 DEF NoRepeats
  <2>4. PICK a \in 1..N : s[a] = t[i] /\ (i \in 1..k => a <= n) /\ (i > n => a = i)
    BY <1>14
  <2>5. PICK b \in 1..N : s[b] = t[j] /\ (j \in 1..k => b <= n) /\ (j > n => b = j)
    BY <1>14
  <2>6. a = b
    BY <2>3, <2>4, <2>5
  <2>7. CASE i \in 1..k /\ j \in 1..k
    BY <1>9, <2>2, <2>7
  <2>8. CASE i > n /\ j > n
    BY <2>4, <2>5, <2>6, <2>8
  <2>9. ~ (i \in 1..k /\ j > n) /\ ~ (j \in 1..k /\ i > n)
    BY <1>1, <2>4, <2>5, <2>6
  <2> QED BY <1>13, <2>7, <2>8, <2>9
<1>16. ASSUME n > 0, s[n] # Nil PROVE k > 0 /\ t[k] = s[n]
  <2>1. n \in 1..n /\ p # <<>> /\ LastOf(p) = s[n]
    BY <1>1, <1>2, <1>16, EmptySeq DEF LastOf
  <2>2. e # <<>> /\ e[k] = s[n]
    BY <1>0, <1>3, <1>16, <2>1 DEF LastOf
  <2>3. k > 0
    BY <1>0, <1>3, <2>2, EmptySeq
  <2>4. k \in 1..k
    BY <1>4, <2>3
  <2> QED BY <1>9, <2>2, <2>3, <2>4
<1>17. k \in 0..n
  BY <1>1, <1>3, <1>4
<1>18. \A i \in 1..k : t[i] # Nil
  BY <1>4, <1>9
<1>19. \A i \in 1..N : t[i] # Nil => Some(s, t[i])
  BY <1>14 DEF Some, N
<1> QED BY <1>8, <1>9, <1>12, <1>15, <1>16, <1>17, <1>18, <1>19 DEF N, Packed

\* What is left of s without the entries from a + 1 to b.
CutOut(s, a, b) == SubSeq(s, 1, a) \o SubSeq(s, b + 1, Len(s))

LEMMA CutProperties ==
  ASSUME NEW X, NEW s \in Seq(X), NEW a \in Nat, NEW b \in Nat,
         a <= b, b <= Len(s)
  PROVE  /\ CutOut(s, a, b) \in Seq(X) /\ Len(CutOut(s, a, b)) = a + (Len(s) - b)
         /\ \A i \in 1..Len(CutOut(s, a, b)) :
              (i <= a => CutOut(s, a, b)[i] = s[i]) /\ (i > a => CutOut(s, a, b)[i] = s[i + (b - a)])
         /\ \A i \in 1..Len(s) : i <= a \/ i > b => Some(CutOut(s, a, b), s[i])
         /\ NoRepeats(s) => NoRepeats(CutOut(s, a, b))
<1> DEFINE N == Len(s)
           r == CutOut(s, a, b)
           u == SubSeq(s, 1, a)
           v == SubSeq(s, b + 1, N)
<1>1. N \in Nat /\ a \in Nat /\ b \in Nat /\ a <= b /\ b <= N /\ \A i \in 1..N : s[i] \in X
  BY LenProperties, ElementOfSeq
<1>2. u \in Seq(X) /\ Len(u) = a /\ \A i \in 1..a : u[i] = s[i]
  <2>1. a \in 0..Len(s)
    BY <1>1
  <2> QED BY <2>1, PrefixProperties
<1>3. v \in Seq(X) /\ Len(v) = N - b /\ \A i \in 1..(N - b) : v[i] = s[b + i]
  <2>1. b + 1 \in Int /\ N \in Int /\ \A i \in (b + 1)..N : s[i] \in X
    BY <1>1
  <2> HIDE DEF N
  <2>2. /\ v \in Seq(X)
        /\ Len(v) = IF b + 1 <= N THEN N - (b + 1) + 1 ELSE 0
        /\ \A i \in 1..(N - (b + 1) + 1) : v[i] = s[(b + 1) + i - 1]
    BY <2>1, SubSeqProperties
  <2>3. N - (b + 1) + 1 = N - b /\ \A i \in 1..(N - b) : (b + 1) + i - 1 = b + i
    BY <1>1
  <2>4. Len(v) = N - b
    BY <1>1, <2>2
  <2> QED BY <2>2, <2>3, <2>4
<1> HIDE DEF r, u, v, N
<1>4. r \in Seq(X) /\ Len(r) = a + (N - b)
        /\ \A i \in 1..(a + (N - b)) : r[i] = IF i <= a THEN u[i] ELSE v[i - a]
  <2>1. r = u \o v
    BY DEF r, u, v, N, CutOut
  <2>2. /\ u \o v \in Seq(X) /\ Len(u \o v) = Len(u) + Len(v)
        /\ \A i \in 1..(Len(u) + Len(v)) :
             (u \o v)[i] = IF i <= Len(u) THEN u[i] ELSE v[i - Len(u)]
    BY <1>2, <1>3, ConcatProperties
  <2> QED BY <1>2, <1>3, <2>1, <2>2
<1> DEFINE M == a + (N - b)
<1>5. ASSUME NEW i \in 1..M
      PROVE  (i <= a => r[i] = s[i]) /\ (i > a => r[i] = s[i + (b - a)])
  <2>1. CASE i <= a
    <3>1. i \in 1..a /\ ~ (i > a)
      BY <1>1, <2>1
    <3> QED BY <1>2, <1>4, <2>1, <3>1
  <2>2. CASE i > a
    <3>1. i - a \in 1..(N - b) /\ b + (i - a) = i + (b - a) /\ ~ (i <= a)
      BY <1>1, <2>2
    <3> QED BY <1>3, <1>4, <2>2, <3>1
  <2> QED BY <1>1, <2>1, <2>2
<1>6. ASSUME NEW i \in 1..N, i <= a \/ i > b PROVE \E j \in 1..M : r[j] = s[i]
  <2>1. CASE i <= a
    <3>1. i \in 1..M
      BY <1>1, <2>1
    <3> QED BY <1>5, <2>1, <3>1
  <2>2. CASE i > b
    <3>1. i - (b - a) \in 1..M /\ i - (b - a) > a /\ i - (b - a) + (b - a) = i
      BY <1>1, <2>2
    <3> QED BY <1>5, <3>1
  <2> QED BY <1>6, <2>1, <2>2
<1>7. ASSUME NoRepeats(s) PROVE NoRepeats(r)
  <2> DEFINE f(i) == IF i <= a THEN i ELSE i + (b - a)
  <2>1. ASSUME NEW i \in 1..M PROVE f(i) \in 1..N /\ r[i] = s[f(i)]
    <3>1. f(i) \in 1..N
      BY <1>1
    <3>2. CASE i <= a
      BY <1>5, <3>1, <3>2
    <3>3. CASE ~ (i <= a)
      <4>1. i > a
        BY <1>1, <3>3
      <4> QED BY <1>5, <3>1, <3>3, <4>1
    <3> QED BY <3>1, <3>2, <3>3
  <2>2. \A i, j \in 1..M : f(i) = f(j) => i = j
    BY <1>1
  <2> HIDE DEF f, M
  <2>3. \A i, j \in 1..N : s[i] = s[j] /\ s[i] # Nil => i = j
    BY <1>7 DEF NoRepeats, N
  <2>4. ASSUME NEW i \in 1..M, NEW j \in 1..M, r[i] = r[j], r[i] # Nil PROVE i = j
    BY <2>1, <2>2, <2>3, <2>4
  <2> QED BY <1>4, <2>4 DEF NoRepeats, M
<1> QED BY <1>4, <1>5, <1>6, <1>7 DEF Some, N, r

-----------------------------------------------------------------------------
(* The inductive invariant.                                                *)

ClientTypes ==
  /\ backlog \in Nat /\ accepted \in Nat /\ backlog + accepted <= MaxConns
  /\ peer \in [Conns -> {"up", "gone"}]
  /\ wire \in [Conns -> Seq(Kinds)]
  /\ said \in [Conns -> 0..MaxMessages]

AcceptTypes ==
  /\ armed \in BOOLEAN
  /\ ctx \in {"run", "approved", "pushed", "connected", "dead"}
  /\ newconn \in Conns \cup {Nil}
  /\ ids \in Seq(Accepted)

ObjectTypes ==
  /\ sock \in [Conns -> {"open", "closed"}]
  /\ posted \in [Conns -> Nat]
  /\ sendDeq \in [Conns -> Nat]
  /\ writing \in [Conns -> BOOLEAN]
  /\ \A c \in Conns : writing[c] => sendDeq[c] > 0
  /\ reading \in [Conns -> Nat]

SharedTypes ==
  /\ conns \in Seq(Accepted \cup {Nil})
  /\ qIn \in Seq([remote : Accepted, kind : Kinds])

MainTypes ==
  /\ main \in {"update", "broadcast", "remove"}
  /\ remote \in Accepted \cup {Nil}
  /\ idx \in Nat /\ last \in Nat
  /\ invalid \in BOOLEAN

RemovalTypes ==
  /\ evaluated \subseteq {"range", "remove", "end"}
  /\ removeEnd \in Nat /\ newEnd \in Nat /\ eraseEnd \in Nat

HistoryTypes ==
  /\ round \in Nat
  /\ told \in [Conns -> Seq(0..round)]
  /\ notified \in [Conns -> Nat]
  /\ torn \in BOOLEAN

Types ==
  /\ ClientTypes /\ AcceptTypes /\ ObjectTypes
  /\ SharedTypes /\ MainTypes /\ RemovalTypes /\ HistoryTypes

\* Where the accept handler is: the newcomer it holds is not in the container
\* yet, and no handler runs meanwhile that could close it.
Accepting ==
  /\ ctx = "approved" => newconn = accepted /\ ~ Some(conns, accepted)
  /\ ctx \notin {"approved", "dead"} => newconn = Nil
  /\ ctx \in {"approved", "pushed", "connected"} => accepted > 0 /\ sock[accepted] = "open"

\* std::remove has moved the last entry, and none was pushed after it.
Moved == "remove" \in evaluated /\ Len(conns) = removeEnd

\* Where the newcomer is, from push_back to the end of the accept handler.
Newcomer ==
  ctx \in {"pushed", "connected"} /\ ~ torn =>
    IF Moved THEN newEnd > 0 /\ conns[newEnd] = accepted
             ELSE conns # <<>> /\ LastOf(conns) = accepted

\* The ids given out are those of the connections accepted so far, less that of
\* a newcomer on its way to ConnectToClient.
Numbering ==
  ~ torn =>
    /\ \A k \in 1..Len(ids) : ids[k] = k
    /\ ctx \in {"run", "connected"} => Len(ids) = accepted
    /\ ctx \in {"approved", "pushed"} => Len(ids) + 1 = accepted

\* Where the main thread's loop is; no connection is in the container twice.
Iterating ==
  /\ NoRepeats(conns)
  /\ main = "broadcast" => idx \in 1..(last + 1) /\ last <= Len(conns)
                             /\ remote # Nil /\ round > 0

\* Null entries are behind the index, and flagged, or in the range that is
\* being removed.
Holes ==
  ~ torn => \A i \in 1..Len(conns) : conns[i] = Nil =>
              \/ main = "broadcast" /\ i < idx /\ invalid
              \/ main = "remove" /\ ("range" \in evaluated => i <= removeEnd)

\* Where the removal is: between its new end and the end std::remove was given
\* all is null, and in front of them nothing.
Shrinking ==
  /\ main # "remove" => evaluated = {}
  /\ "remove" \in evaluated => "range" \in evaluated
  /\ "range" \in evaluated => removeEnd <= Len(conns)
  /\ "end" \in evaluated => eraseEnd <= Len(conns)
  /\ "remove" \in evaluated =>
       newEnd <= removeEnd /\ \A i \in 1..removeEnd : conns[i] = Nil <=> i > newEnd

InOrder(t) ==
  /\ t # <<>> /\ t[1] = 0
  /\ \A j, k \in 1..Len(t) : j < k /\ t[j] # 0 /\ t[k] # 0 => t[j] < t[k]

Before(t, r) == \A k \in 1..Len(t) : t[k] < r

\* What the connections have been told: those behind the index have the
\* broadcast that is under way, those ahead of it, the newcomer included, have
\* only earlier ones.
Telling ==
  /\ \A c \in Conns : IF c <= accepted THEN InOrder(told[c]) ELSE told[c] = <<>>
  /\ ctx = "approved" => Before(told[accepted], 1)
  /\ main = "broadcast" =>
       \A i \in 1..Len(conns) : conns[i] # Nil =>
         IF i < idx THEN Some(told[conns[i]], round) <=> conns[i] # remote
                    ELSE Before(told[conns[i]], round)

Container ==
  /\ Accepting /\ Newcomer /\ Numbering
  /\ Iterating /\ Holes /\ Shrinking
  /\ Telling

\* Nobody who is in the container, or about to be, has been reported.
Unreported ==
  /\ \A i \in 1..Len(conns) : conns[i] # Nil => notified[conns[i]] = 0
  /\ ctx = "approved" => notified[accepted] = 0
  /\ \A c \in Conns : c > accepted => notified[c] = 0

USE DEF clients, accepting, objects, mainLocal, removal, history

-----------------------------------------------------------------------------
(* Types.                                                                  *)

LEMMA TypesInit == Init => Types
<1> SUFFICES ASSUME Init PROVE Types
  OBVIOUS
<1>1. \A X : <<>> \in Seq(X)
  BY EmptySeq
<1>2. ClientTypes
  BY <1>1, Constants DEF Init, ClientTypes
<1>3. AcceptTypes /\ ObjectTypes
  BY <1>1, Constants DEF Init, AcceptTypes, ObjectTypes
<1>4. SharedTypes /\ MainTypes /\ RemovalTypes /\ HistoryTypes
  BY <1>1 DEF Init, SharedTypes, MainTypes, RemovalTypes, HistoryTypes
<1> QED BY <1>2, <1>3, <1>4 DEF Types

\* An entry of the container is a connection or null.
LEMMA EntryType ==
  ASSUME Types, NEW i \in 1..Len(conns)
  PROVE  conns[i] \in Accepted \cup {Nil}
BY ElementOfSeq DEF Types, SharedTypes

LEMMA AcceptedAreConns == Types => Accepted \subseteq Conns /\ Nil \notin Accepted
BY Constants DEF Types, ClientTypes, Accepted, Conns

LEMMA QueueType ==
  ASSUME Types, qIn # <<>>
  PROVE  /\ Head(qIn).remote \in Accepted
         /\ Head(qIn).kind \in Kinds
         /\ Tail(qIn) \in Seq([remote : Accepted, kind : Kinds])
<1>1. Head(qIn) \in [remote : Accepted, kind : Kinds]
  BY HeadTailProperties DEF Types, SharedTypes
<1>2. Tail(qIn) \in Seq([remote : Accepted, kind : Kinds])
  BY HeadTailProperties DEF Types, SharedTypes
<1> QED BY <1>1, <1>2

\* Post makes one connection's history longer by one entry.
LEMMA PostType ==
  ASSUME Types, NEW c \in Conns, NEW m \in 0..round, Post(c, m)
  PROVE  posted' \in [Conns -> Nat] /\ told' \in [Conns -> Seq(0..round)]
<1>1. Append(told[c], m) \in Seq(0..round)
  BY AppendProperties DEF Types, HistoryTypes
<1>2. told' \in [Conns -> Seq(0..round)]
  BY <1>1 DEF Types, HistoryTypes, Post
<1>3. posted' \in [Conns -> Nat]
  BY DEF Types, ObjectTypes, Post
<1> QED BY <1>2, <1>3

LEMMA ReportType ==
  ASSUME Types, NEW c \in Conns, OnClientDisconnect(c)
  PROVE  notified' \in [Conns -> Nat]
BY DEF Types, HistoryTypes, OnClientDisconnect

\* The groups whose variables do not change.
LEMMA TypesSame ==
  ASSUME Types
  PROVE  /\ UNCHANGED <<clients, accepted>> => ClientTypes'
         /\ UNCHANGED <<accepting, ctx>> => AcceptTypes'
         /\ UNCHANGED objects => ObjectTypes'
         /\ UNCHANGED <<accepted, conns, qIn>> => SharedTypes'
         /\ UNCHANGED <<accepted, main, mainLocal>> => MainTypes'
         /\ UNCHANGED removal => RemovalTypes'
         /\ UNCHANGED history => HistoryTypes'
<1>1. UNCHANGED <<clients, accepted>> => ClientTypes'
  BY DEF Types, ClientTypes
<1>2. UNCHANGED <<accepting, ctx>> => AcceptTypes'
  BY DEF Types, AcceptTypes, Accepted
<1>3. UNCHANGED objects => ObjectTypes'
  BY DEF Types, ObjectTypes
<1>4. UNCHANGED <<accepted, conns, qIn>> => SharedTypes'
  BY DEF Types, SharedTypes, Accepted
<1>5. UNCHANGED <<accepted, main, mainLocal>> => MainTypes'
  BY DEF Types, MainTypes, Accepted
<1>6. UNCHANGED removal => RemovalTypes'
  BY DEF Types, RemovalTypes
<1>7. UNCHANGED history => HistoryTypes'
  BY DEF Types, HistoryTypes
<1> QED BY <1>1, <1>2, <1>3, <1>4, <1>5, <1>6, <1>7

LEMMA TypesClients ==
  ASSUME Types,
         \/ ClientConnects
         \/ \E c \in Conns : (\E kind \in Kinds : ClientSends(c, kind)) \/ ClientLeaves(c)
  PROVE  Types'
<1> USE TypesSame
<1>1. CASE ClientConnects
  <2>1. ClientTypes'
    BY <1>1, Constants DEF Types, ClientTypes, ClientConnects
  <2> QED BY <1>1, <2>1 DEF Types, ClientConnects
<1>2. ASSUME NEW c \in Conns, NEW kind \in Kinds, ClientSends(c, kind) PROVE Types'
  <2>1. Append(wire[c], kind) \in Seq(Kinds)
    BY AppendProperties DEF Types, ClientTypes
  <2>2. wire' \in [Conns -> Seq(Kinds)]
    BY <1>2, <2>1 DEF Types, ClientTypes, ClientSends
  <2>3. said' \in [Conns -> 0..MaxMessages]
    BY <1>2, Constants DEF Types, ClientTypes, ClientSends
  <2>4. ClientTypes'
    BY <1>2, <2>2, <2>3 DEF Types, ClientTypes, ClientSends
  <2> QED BY <1>2, <2>4 DEF Types, ClientSends
<1>3. ASSUME NEW c \in Conns, ClientLeaves(c) PROVE Types'
  <2>1. ClientTypes'
    BY <1>3 DEF Types, ClientTypes, ClientLeaves
  <2> QED BY <1>3, <2>1 DEF Types, ClientLeaves
<1> QED BY <1>1, <1>2, <1>3

\* What back() refers to when it is not null.
LEMMA BackType ==
  ASSUME Types, BackIsThere
  PROVE  Back \in Accepted /\ Back \in Conns
<1>1. Len(conns) \in 1..Len(conns)
  BY LenProperties, EmptySeq DEF Types, SharedTypes, BackIsThere
<1>2. conns[Len(conns)] \in Accepted \cup {Nil}
  BY <1>1, EntryType
<1> QED BY <1>2, AcceptedAreConns DEF BackIsThere, Back

\* The process ends.
LEMMA TypesCrash ==
  ASSUME Types, Crash,
         UNCHANGED <<clients, accepting, objects, conns, qIn, main, mainLocal, removal, history>>
  PROVE  Types'
<1>1. AcceptTypes'
  BY DEF Types, AcceptTypes, Crash, Accepted
<1> QED BY <1>1, TypesSame DEF Types

\* A client leaves the backlog.
LEMMA OneLess ==
  ASSUME Types, backlog > 0
  PROVE  backlog - 1 \in Nat /\ backlog - 1 + accepted <= MaxConns
<1>1. backlog \in Nat /\ accepted \in Nat /\ backlog + accepted <= MaxConns
        /\ MaxConns \in Nat
  BY Constants DEF Types, ClientTypes
<1> QED BY <1>1

LEMMA TypesAccept ==
  ASSUME Types, Container, AcceptStep \/ AcceptThrows
  PROVE  Types'
<1> USE TypesSame
<1>1. CASE Accept
  <2> DEFINE c == accepted + 1
  <2>1. c \in Conns /\ c \in Nat /\ accepted' = c /\ backlog' \in Nat
          /\ backlog' + accepted' <= MaxConns
    BY <1>1, Constants DEF Types, ClientTypes, Accept, Conns
  <2>2. Accepted \subseteq Accepted'
    BY <2>1 DEF Types, ClientTypes, Accepted
  <2>3. posted' \in [Conns -> Nat] /\ told' \in [Conns -> Seq(0..round)]
    BY <1>1, <2>1, PostType DEF Accept, OnClientConnect, Types, HistoryTypes
  <2>4. ClientTypes'
    BY <1>1, <2>1 DEF Types, ClientTypes, Accept
  <2>5. AcceptTypes'
    <3>1. ids' \in Seq(Accepted')
      BY <1>1, <2>2, SeqMonotone DEF Types, AcceptTypes, Accept
    <3> QED BY <1>1, <2>1, <3>1 DEF Types, AcceptTypes, Accept
  <2>6. ObjectTypes'
    BY <1>1, <2>3 DEF Types, ObjectTypes, Accept
  <2>7. SharedTypes'
    <3>1. conns' \in Seq(Accepted' \cup {Nil})
      BY <1>1, <2>2, SeqMonotone DEF Types, SharedTypes, Accept
    <3>2. [remote : Accepted, kind : Kinds] \subseteq [remote : Accepted', kind : Kinds]
      BY <2>2
    <3>3. qIn' \in Seq([remote : Accepted', kind : Kinds])
      BY <1>1, <3>2, SeqMonotone DEF Types, SharedTypes, Accept
    <3> QED BY <3>1, <3>3 DEF SharedTypes
  <2>8. MainTypes'
    BY <1>1, <2>2 DEF Types, MainTypes, Accept
  <2>9. HistoryTypes'
    BY <1>1, <2>3 DEF Types, HistoryTypes, Accept
  <2>10. RemovalTypes'
    BY <1>1 DEF Accept
  <2> QED BY <2>4, <2>5, <2>6, <2>7, <2>8, <2>9, <2>10 DEF Types
<1>2. CASE AcceptDenied \/ AcceptError
  <2>1. backlog' \in Nat /\ backlog' + accepted <= MaxConns
    BY <1>2, OneLess DEF AcceptDenied, AcceptError
  <2>2. UNCHANGED <<peer, wire, said, newconn, accepted, ids, ctx, objects, conns, qIn, main,
                    mainLocal, removal, history>> /\ armed' \in BOOLEAN
    BY <1>2 DEF AcceptDenied, AcceptError, WaitForClientConnection
  <2>3. ClientTypes'
    BY <2>1, <2>2 DEF Types, ClientTypes
  <2>4. AcceptTypes'
    BY <2>2 DEF Types, AcceptTypes, Accepted
  <2> QED BY <2>2, <2>3, <2>4 DEF Types
<1>3. CASE PushBack
  <2>1. newconn \in Accepted
    BY <1>3 DEF Container, Accepting, Types, ClientTypes, PushBack, Accepted
  <2>2. conns' \in Seq(Accepted \cup {Nil}) /\ Len(conns') \in Nat
    BY <1>3, <2>1, AppendProperties, LenProperties DEF Types, SharedTypes, PushBack, Pushed
  <2>3. last' \in Nat
    BY <1>3, <2>2 DEF Types, MainTypes, PushBack
  <2>4. SharedTypes'
    BY <1>3, <2>2 DEF Types, SharedTypes, PushBack, Accepted
  <2>5. MainTypes'
    BY <1>3, <2>3 DEF Types, MainTypes, PushBack, Accepted
  <2>6. AcceptTypes'
    BY <1>3 DEF Types, AcceptTypes, PushBack, Accepted
  <2> QED BY <1>3, <2>4, <2>5, <2>6 DEF Types, PushBack
<1>4. CASE ConnectBack
  <2>1. Back \in Accepted /\ Back \in Conns
    BY <1>4, BackType DEF ConnectBack
  <2>2. AcceptTypes'
    <3>1. ids' \in Seq(Accepted)
      BY <1>4, <2>1, AppendProperties DEF Types, AcceptTypes, ConnectBack
    <3> QED BY <1>4, <3>1 DEF Types, AcceptTypes, ConnectBack, Accepted
  <2>3. ObjectTypes'
    BY <1>4, <2>1 DEF Types, ObjectTypes, ConnectBack
  <2> QED BY <1>4, <2>2, <2>3 DEF Types, ConnectBack
<1>5. CASE AcceptThrows
  <2>1. backlog' \in Nat /\ backlog' + accepted <= MaxConns
    BY <1>5, OneLess DEF AcceptThrows
  <2>2. UNCHANGED <<peer, wire, said, newconn, accepted, ids, objects, conns, qIn, main,
                    mainLocal, removal, history>>
    BY <1>5 DEF AcceptThrows
  <2>3. ClientTypes'
    BY <2>1, <2>2 DEF Types, ClientTypes
  <2>4. AcceptTypes'
    BY <1>5, <2>2 DEF Types, AcceptTypes, AcceptThrows, Crash, Accepted
  <2> QED BY <2>2, <2>3, <2>4 DEF Types
<1>6. CASE PrintBack
  <2>1. AcceptTypes'
    BY <1>6 DEF Types, AcceptTypes, PrintBack, WaitForClientConnection, Accepted
  <2> QED BY <1>6, <2>1 DEF Types, PrintBack
<1>7. CASE BackIsNull
  BY <1>7, TypesCrash DEF BackIsNull
<1> QED BY <1>1, <1>2, <1>3, <1>4, <1>5, <1>6, <1>7 DEF AcceptStep

LEMMA TypesHandlers ==
  ASSUME Types, NEW c \in Conns, HandlerStep(c)
  PROVE  Types'
<1> USE TypesSame
<1>1. CASE RunSend(c)
  <2>1. ObjectTypes'
    BY <1>1 DEF Types, ObjectTypes, RunSend
  <2> QED BY <1>1, <2>1 DEF Types, RunSend
<1>2. CASE WriteDone(c)
  <2>1. UNCHANGED <<clients, accepting, ctx, posted, reading, conns, qIn, main, mainLocal,
                    removal, history>> /\ writing[c]
    BY <1>2 DEF WriteDone
  <2>2. CASE /\ sendDeq' = [sendDeq EXCEPT ![c] = @ - 1]
             /\ writing' = [writing EXCEPT ![c] = MoreToWrite(c)]
             /\ UNCHANGED sock
    <3>1. sendDeq[c] \in Nat /\ sendDeq[c] > 0
      BY <2>1 DEF Types, ObjectTypes
    <3>2. sendDeq' \in [Conns -> Nat] /\ writing' \in [Conns -> BOOLEAN]
      BY <2>2, <3>1 DEF Types, ObjectTypes, MoreToWrite
    <3>3. ASSUME NEW d \in Conns, writing'[d] PROVE sendDeq'[d] > 0
      <4>1. CASE d = c
        <5>1. writing'[c] = MoreToWrite(c) /\ sendDeq'[c] = sendDeq[c] - 1
          BY <2>2 DEF Types, ObjectTypes
        <5>2. MoreToWrite(c)
          BY <3>3, <4>1, <5>1
        <5> QED BY <3>1, <4>1, <5>1, <5>2 DEF MoreToWrite
      <4>2. CASE d # c
        <5>1. writing'[d] = writing[d] /\ sendDeq'[d] = sendDeq[d]
          BY <2>2, <4>2 DEF Types, ObjectTypes
        <5> QED BY <3>3, <5>1 DEF Types, ObjectTypes
      <4> QED BY <4>1, <4>2
    <3>4. ObjectTypes'
      BY <2>1, <2>2, <3>2, <3>3 DEF Types, ObjectTypes
    <3> QED BY <2>1, <3>4, TypesSame DEF Types
  <2>3. CASE /\ sock' = [sock EXCEPT ![c] = "closed"]
             /\ writing' = [writing EXCEPT ![c] = FALSE]
             /\ UNCHANGED sendDeq
    BY <2>1, <2>3, TypesSame DEF Types, ObjectTypes
  <2> QED BY <1>2, <2>2, <2>3 DEF WriteDone
<1>3. CASE ReadMessage(c)
  <2>1. Head(wire[c]) \in Kinds /\ Tail(wire[c]) \in Seq(Kinds)
    BY <1>3, HeadTailProperties DEF Types, ClientTypes, ReadMessage
  <2>5. PICK kind \in Kinds : qIn' = Append(qIn, [remote |-> c, kind |-> kind])
    <3>1. PICK kind \in IF reading[c] = 1 THEN {Head(wire[c])} ELSE Kinds :
             qIn' = Append(qIn, [remote |-> c, kind |-> kind])
      BY <1>3 DEF ReadMessage
    <3> QED BY <2>1, <3>1
  <2>2. c \in Accepted
    BY <1>3 DEF ReadMessage, Runs, Owned
  <2>3. SharedTypes'
    <3>1. qIn' \in Seq([remote : Accepted, kind : Kinds])
      BY <2>2, <2>5, AppendProperties DEF Types, SharedTypes
    <3> QED BY <1>3, <3>1 DEF Types, SharedTypes, ReadMessage, Accepted
  <2>4. ClientTypes'
    BY <1>3, <2>1 DEF Types, ClientTypes, ReadMessage
  <2> QED BY <1>3, <2>3, <2>4 DEF Types, ReadMessage
<1>4. CASE ReadError(c)
  <2>1. ObjectTypes'
    BY <1>4 DEF Types, ObjectTypes, ReadError
  <2> QED BY <1>4, <2>1 DEF Types, ReadError
<1> QED BY <1>1, <1>2, <1>3, <1>4 DEF HandlerStep

\* The index of a visit is an index of the container.
LEMMA VisitedEntry ==
  ASSUME Types, Iterating, BroadcastVisit
  PROVE  idx \in 1..Len(conns) /\ conns[idx] \in Accepted /\ conns[idx] \in Conns
<1>1. Len(conns) \in Nat
  BY LenProperties DEF Types, SharedTypes
<1>2. main = "broadcast" /\ idx <= last
  BY DEF BroadcastVisit
<1>3. idx \in 1..Len(conns)
  BY <1>1, <1>2 DEF Iterating, Types, MainTypes
<1>4. conns[idx] # Nil
  BY DEF BroadcastVisit
<1> QED BY <1>3, <1>4, EntryType, AcceptedAreConns

LEMMA ConnsLen == Types => Len(conns) \in Nat
BY LenProperties DEF Types, SharedTypes

\* What std::remove and erase make of the container.
LEMMA RemovedNulls ==
  ASSUME Types, Container, RemoveNulls
  PROVE  /\ conns' \in Seq(Accepted \cup {Nil}) /\ Len(conns') = Len(conns)
         /\ removeEnd \in 0..Len(conns) /\ newEnd' \in 0..removeEnd /\ newEnd' \in Nat
         /\ \A i \in 1..newEnd' : conns'[i] # Nil
         /\ \A i \in 1..removeEnd : i > newEnd' => conns'[i] = Nil
         /\ \A i \in 1..Len(conns) : i > removeEnd => conns'[i] = conns[i]
         /\ \A i \in 1..Len(conns) : conns[i] # Nil => Some(conns', conns[i])
         /\ \A i \in 1..Len(conns) : conns'[i] # Nil => Some(conns, conns'[i])
         /\ NoRepeats(conns) => NoRepeats(conns')
         /\ removeEnd > 0 /\ conns[removeEnd] # Nil =>
              newEnd' > 0 /\ conns'[newEnd'] = conns[removeEnd]
<1>1. removeEnd \in 0..Len(conns)
  BY ConnsLen DEF RemoveNulls, Container, Shrinking, Types, RemovalTypes
<1>2. conns' = Compacted(conns, removeEnd) /\ newEnd' = KeptOf(conns, removeEnd)
  BY DEF RemoveNulls, KeptOf
<1>3. conns \in Seq(Accepted \cup {Nil}) /\ Nil \in Accepted \cup {Nil}
  BY DEF Types, SharedTypes
<1>4. \A k \in 0..removeEnd : k \in Nat
  OBVIOUS
<1>5. conns' \in Seq(Accepted \cup {Nil}) /\ Packed(conns, removeEnd, conns', newEnd')
  BY <1>1, <1>2, <1>3, CompactedProperties
<1> QED BY <1>1, <1>4, <1>5 DEF Packed

LEMMA ErasedRange ==
  ASSUME Types, Container, Erase
  PROVE  /\ conns' \in Seq(Accepted \cup {Nil})
         /\ Len(conns') = newEnd + (Len(conns) - eraseEnd)
         /\ newEnd \in Nat /\ removeEnd \in Nat /\ eraseEnd \in Nat
         /\ newEnd <= eraseEnd /\ eraseEnd <= Len(conns)
         /\ newEnd <= removeEnd /\ removeEnd <= Len(conns)
         /\ \A i \in 1..Len(conns') :
              /\ i <= newEnd => conns'[i] = conns[i]
              /\ i > newEnd => conns'[i] = conns[i + (eraseEnd - newEnd)]
         /\ \A i \in 1..Len(conns) : i <= newEnd \/ i > eraseEnd => Some(conns', conns[i])
         /\ NoRepeats(conns) => NoRepeats(conns')
<1>1. /\ newEnd \in Nat /\ removeEnd \in Nat /\ eraseEnd \in Nat
      /\ newEnd <= eraseEnd /\ eraseEnd <= Len(conns)
      /\ newEnd <= removeEnd /\ removeEnd <= Len(conns)
  BY DEF Erase, Evaluated, Container, Shrinking, Types, RemovalTypes
<1>3. conns \in Seq(Accepted \cup {Nil})
  BY DEF Types, SharedTypes
<1>4. conns' = CutOut(conns, newEnd, eraseEnd)
  BY DEF Erase, Erasure, CutOut
<1> DEFINE X == Accepted \cup {Nil}
           r == CutOut(conns, newEnd, eraseEnd)
<1>5. X = Accepted \cup {Nil} /\ r = conns'
  BY <1>4
<1>6. conns \in Seq(X)
  BY <1>3
<1> HIDE DEF X
<1>7. /\ r \in Seq(X) /\ Len(r) = newEnd + (Len(conns) - eraseEnd)
      /\ \A i \in 1..Len(r) :
           (i <= newEnd => r[i] = conns[i])
             /\ (i > newEnd => r[i] = conns[i + (eraseEnd - newEnd)])
      /\ \A i \in 1..Len(conns) : i <= newEnd \/ i > eraseEnd => Some(r, conns[i])
      /\ NoRepeats(conns) => NoRepeats(r)
  BY <1>1, <1>6, CutProperties
<1> HIDE DEF r
<1> QED BY <1>1, <1>5, <1>7

LEMMA TypesMain ==
  ASSUME Types, Container, MainStep
  PROVE  Types'
<1> USE TypesSame
<1>1. CASE OnPing
  <2>1. Head(qIn).remote \in Conns /\ Tail(qIn) \in Seq([remote : Accepted, kind : Kinds])
    BY <1>1, QueueType, AcceptedAreConns DEF OnPing
  <2>2. posted' \in [Conns -> Nat] /\ told' \in [Conns -> Seq(0..round)]
    <3>1. Post(Head(qIn).remote, 0)
      BY <1>1 DEF OnPing
    <3>2. 0 \in 0..round
      BY DEF Types, HistoryTypes
    <3> QED BY <2>1, <3>1, <3>2, PostType
  <2>3. ObjectTypes' /\ HistoryTypes'
    BY <1>1, <2>2 DEF Types, ObjectTypes, HistoryTypes, OnPing
  <2>4. SharedTypes'
    BY <1>1, <2>1 DEF Types, SharedTypes, OnPing, Accepted
  <2> QED BY <1>1, <2>3, <2>4 DEF Types, OnPing
<1>2. CASE MessageClient
  <2> DEFINE client == Head(qIn).remote
  <2>1. client \in Conns /\ Tail(qIn) \in Seq([remote : Accepted, kind : Kinds])
    BY <1>2, QueueType, AcceptedAreConns DEF MessageClient
  <2>4. client \in Accepted
    BY <1>2, QueueType DEF MessageClient
  <2>2. CASE IsConnected(client)
    <3>1. Post(client, 0) /\ UNCHANGED <<main, remote, conns, notified>>
      BY <1>2, <2>2 DEF MessageClient
    <3>2. posted' \in [Conns -> Nat] /\ told' \in [Conns -> Seq(0..round)]
      BY <2>1, <3>1, PostType DEF Types, HistoryTypes
    <3>3. ObjectTypes' /\ HistoryTypes'
      BY <1>2, <3>1, <3>2 DEF Types, ObjectTypes, HistoryTypes, MessageClient
    <3>4. SharedTypes'
      BY <1>2, <2>1, <3>1 DEF Types, SharedTypes, MessageClient, Accepted
    <3> QED BY <1>2, <3>1, <3>3, <3>4 DEF Types, MessageClient
  <2>3. CASE ~ IsConnected(client)
    <3>1. OnClientDisconnect(client) /\ main' = "remove" /\ remote' = client
            /\ UNCHANGED <<posted, told>>
      BY <1>2, <2>3 DEF MessageClient
    <3>2. HistoryTypes'
      BY <1>2, <2>1, <3>1, ReportType DEF Types, HistoryTypes, MessageClient
    <3>3. SharedTypes'
      BY <1>2, <2>1 DEF Types, SharedTypes, MessageClient, Accepted
    <3>4. MainTypes'
      BY <1>2, <2>4, <3>1 DEF Types, MainTypes, MessageClient, Accepted
    <3> QED BY <1>2, <3>1, <3>2, <3>3, <3>4 DEF Types, MessageClient
  <2> QED BY <2>2, <2>3
<1>3. CASE BroadcastStart
  <2>1. HistoryTypes'
    <3>1. 0..round \subseteq 0..round' /\ told' = told /\ round' \in Nat
      BY <1>3 DEF Types, HistoryTypes, BroadcastStart
    <3>2. \A c \in Conns : told[c] \in Seq(0..round')
      BY <3>1, SeqMonotone DEF Types, HistoryTypes
    <3> QED BY <1>3, <3>1, <3>2 DEF Types, HistoryTypes, BroadcastStart
  <2>2. Len(conns) \in Nat
    BY LenProperties DEF Types, SharedTypes
  <2>3. Head(qIn).remote \in Accepted /\ Tail(qIn) \in Seq([remote : Accepted, kind : Kinds])
    BY <1>3, QueueType DEF BroadcastStart
  <2>4. MainTypes' /\ SharedTypes'
    BY <1>3, <2>2, <2>3 DEF Types, MainTypes, SharedTypes, BroadcastStart, Accepted
  <2> QED BY <1>3, <2>1, <2>4 DEF Types, BroadcastStart
<1>4. CASE BroadcastVisit
  <2> DEFINE client == conns[idx]
  <2>1. idx \in 1..Len(conns) /\ client \in Conns
    BY <1>4, VisitedEntry DEF Container
  <2>2. UNCHANGED <<clients, accepting, ctx, sock, sendDeq, writing, reading, qIn, main,
                    remote, last, removal, round, torn>> /\ idx' = idx + 1
    BY <1>4 DEF BroadcastVisit
  <2>3. CASE IsConnected(client) /\ Ignored(client)
    <3>1. UNCHANGED <<posted, told, conns, invalid, notified>>
      BY <1>4, <2>3 DEF BroadcastVisit
    <3>2. MainTypes'
      BY <2>2, <3>1 DEF Types, MainTypes, Accepted
    <3> QED BY <2>2, <3>1, <3>2 DEF Types
  <2>4. CASE IsConnected(client) /\ ~ Ignored(client)
    <3>1. Post(client, round) /\ UNCHANGED <<conns, invalid, notified>>
      BY <1>4, <2>4 DEF BroadcastVisit
    <3>2. posted' \in [Conns -> Nat] /\ told' \in [Conns -> Seq(0..round)]
      BY <2>1, <3>1, PostType DEF Types, HistoryTypes
    <3>3. MainTypes'
      BY <2>2, <3>1 DEF Types, MainTypes, Accepted
    <3>4. ObjectTypes' /\ HistoryTypes'
      BY <2>2, <3>1, <3>2 DEF Types, ObjectTypes, HistoryTypes
    <3> QED BY <2>2, <3>1, <3>3, <3>4 DEF Types
  <2>5. CASE ~ IsConnected(client)
    <3>1. OnClientDisconnect(client) /\ ResetEntry /\ UNCHANGED <<posted, told>>
      BY <1>4, <2>5 DEF BroadcastVisit
    <3>2. conns' \in Seq(Accepted \cup {Nil})
      BY <2>1, <3>1, ExceptSeq DEF Types, SharedTypes, ResetEntry
    <3>3. HistoryTypes'
      BY <2>1, <2>2, <3>1, ReportType DEF Types, HistoryTypes
    <3>4. SharedTypes'
      BY <2>2, <3>2 DEF Types, SharedTypes, Accepted
    <3>5. MainTypes'
      BY <2>2, <3>1 DEF Types, MainTypes, ResetEntry, Accepted
    <3> QED BY <2>2, <3>1, <3>3, <3>4, <3>5 DEF Types
  <2> QED BY <2>3, <2>4, <2>5
<1>5. CASE BroadcastVisitsNull \/ EraseBackwards
  BY <1>5, TypesCrash DEF BroadcastVisitsNull, EraseBackwards
<1>6. CASE BroadcastEnd
  <2>1. MainTypes'
    BY <1>6 DEF Types, MainTypes, BroadcastEnd, Accepted
  <2> QED BY <1>6, <2>1 DEF Types, BroadcastEnd
<1>7. CASE RemoveRange
  <2>1. RemovalTypes'
    BY <1>7, ConnsLen DEF Types, RemovalTypes, RemoveRange
  <2> QED BY <1>7, <2>1 DEF Types, RemoveRange
<1>8. CASE RemoveNulls
  <2>1. conns' \in Seq(Accepted \cup {Nil}) /\ newEnd' \in Nat
    BY <1>8, RemovedNulls
  <2>2. SharedTypes'
    BY <1>8, <2>1 DEF Types, SharedTypes, RemoveNulls, Accepted
  <2>3. RemovalTypes'
    BY <1>8, <2>1 DEF Types, RemovalTypes, RemoveNulls
  <2> QED BY <1>8, <2>2, <2>3 DEF Types, RemoveNulls
<1>9. CASE EraseEnd
  <2>1. RemovalTypes'
    BY <1>9, ConnsLen DEF Types, RemovalTypes, EraseEnd
  <2> QED BY <1>9, <2>1 DEF Types, EraseEnd
<1>10. CASE Erase
  <2>1. conns' \in Seq(Accepted \cup {Nil})
    BY <1>10, ErasedRange
  <2>2. SharedTypes'
    BY <1>10, <2>1 DEF Types, SharedTypes, Erase, Accepted
  <2>3. MainTypes' /\ RemovalTypes'
    BY <1>10 DEF Types, MainTypes, RemovalTypes, Erase, Accepted
  <2>4. HistoryTypes'
    BY <1>10 DEF Types, HistoryTypes, Erase
  <2> QED BY <1>10, <2>2, <2>3, <2>4 DEF Types, Erase
<1> QED BY <1>1, <1>2, <1>3, <1>4, <1>5, <1>6, <1>7, <1>8, <1>9, <1>10 DEF MainStep

LEMMA TypesStep ==
  ASSUME Types, Container, [Next]_vars
  PROVE  Types'
<1>1. CASE UNCHANGED vars
  BY <1>1, TypesSame DEF Types, vars
<1>2. CASE Next
  BY <1>2, TypesClients, TypesAccept, TypesHandlers, TypesMain DEF Next
<1> QED BY <1>1, <1>2

-----------------------------------------------------------------------------
(* What a connection has been told.                                        *)

LEMMA PostTold ==
  ASSUME Types, NEW c \in Conns, NEW m, Post(c, m)
  PROVE  /\ told'[c] = Append(told[c], m)
         /\ \A d \in Conns : d # c => told'[d] = told[d]
BY DEF Post, Types, HistoryTypes

LEMMA ToldEntries ==
  ASSUME Types, NEW c \in Conns
  PROVE  /\ told[c] \in Seq(0..round) /\ Len(told[c]) \in Nat
         /\ \A k \in 1..Len(told[c]) : told[c][k] \in 0..round
<1>1. told[c] \in Seq(0..round)
  BY DEF Types, HistoryTypes
<1> QED BY <1>1, LenProperties, ElementOfSeq

\* A word of no broadcast, or of a later one, keeps the order.
LEMMA AppendInOrder ==
  ASSUME NEW r \in Nat, NEW t \in Seq(0..r), NEW m \in 0..r, InOrder(t),
         m = 0 \/ Before(t, m)
  PROVE  InOrder(Append(t, m))
<1> DEFINE u == Append(t, m)
<1>1. Len(t) \in Nat /\ Len(t) > 0 /\ \A k \in 1..Len(t) : t[k] \in 0..r
  BY LenProperties, ElementOfSeq, EmptySeq DEF InOrder
<1>2. Len(u) = Len(t) + 1 /\ u[Len(t) + 1] = m /\ \A k \in 1..Len(t) : u[k] = t[k]
  BY AppendProperties
<1>3. u # <<>>
  BY AppendProperties
<1>4. u[1] = 0
  BY <1>1, <1>2 DEF InOrder
<1> HIDE DEF u
<1>5. ASSUME NEW j \in 1..Len(u), NEW k \in 1..Len(u), j < k, u[j] # 0, u[k] # 0
      PROVE  u[j] < u[k]
  <2>1. j \in 1..Len(t)
    BY <1>1, <1>2, <1>5
  <2>2. CASE k \in 1..Len(t)
    BY <1>2, <1>5, <2>1, <2>2 DEF InOrder
  <2>3. CASE k = Len(t) + 1
    <3>1. m # 0
      BY <1>2, <1>5, <2>3
    <3> QED BY <1>2, <2>1, <2>3, <3>1 DEF Before
  <2> QED BY <1>1, <1>2, <2>2, <2>3
<1>6. InOrder(u)
  BY <1>3, <1>4, <1>5 DEF InOrder
<1> QED BY <1>6 DEF u

LEMMA AppendBefore ==
  ASSUME NEW X, NEW t \in Seq(X), NEW m, NEW r, Before(t, r), m < r
  PROVE  Before(Append(t, m), r)
BY AppendProperties, LenProperties DEF Before

LEMMA AppendSome ==
  ASSUME NEW X, NEW t \in Seq(X), NEW m, NEW x
  PROVE  Some(Append(t, m), x) <=> Some(t, x) \/ x = m
<1>1. Len(t) \in Nat /\ Len(Append(t, m)) = Len(t) + 1
        /\ Append(t, m)[Len(t) + 1] = m /\ \A k \in 1..Len(t) : Append(t, m)[k] = t[k]
  BY AppendProperties, LenProperties
<1>2. \A k \in 1..(Len(t) + 1) : k \in 1..Len(t) \/ k = Len(t) + 1
  BY <1>1
<1>3. Len(t) + 1 \in 1..(Len(t) + 1) /\ \A k \in 1..Len(t) : k \in 1..(Len(t) + 1)
  BY <1>1
<1> QED BY <1>1, <1>2, <1>3 DEF Some

-----------------------------------------------------------------------------
(* The container, the loop over it, its removals and what it has told, step*)
(* by step.                                                                *)

LEMMA ContainerInit == Init => Container
<1> SUFFICES ASSUME Init PROVE Container
  OBVIOUS
<1>1. Len(conns) = 0 /\ Len(ids) = 0
  BY DEF Init
<1>2. Accepting /\ Newcomer
  BY DEF Init, Accepting, Newcomer
<1>3. Numbering
  BY <1>1 DEF Init, Numbering
<1>4. Iterating /\ Holes /\ Shrinking
  BY <1>1 DEF Init, Iterating, NoRepeats, Holes, Shrinking
<1>5. Telling
  BY Constants DEF Init, Telling, Conns
<1> QED BY <1>2, <1>3, <1>4, <1>5 DEF Container

\* The accept handler goes on from its push_back, or stays, or the process ends.
Onward ==
  \/ ctx' = ctx \/ ctx' = "dead"
  \/ ctx = "pushed" /\ ctx' = "connected"
  \/ ctx = "connected" /\ ctx' = "run"

\* The parts whose variables do not change.
LEMMA ContainerSame ==
  ASSUME Types, Container
  PROVE  /\ UNCHANGED <<accepted, newconn, conns>> /\ Onward
              /\ (ctx # "run" => UNCHANGED sock) => Accepting'
         /\ UNCHANGED <<accepted, conns, torn, removal>> /\ Onward => Newcomer'
         /\ UNCHANGED <<accepted, ids, torn>> /\ Onward
              /\ (ctx' = ctx \/ ctx # "pushed") => Numbering'
         /\ UNCHANGED <<conns, main, idx, last, remote, round>> => Iterating'
         /\ UNCHANGED <<conns, main, idx, invalid, torn, removal>> => Holes'
         /\ UNCHANGED <<conns, main, removal>> => Shrinking'
         /\ UNCHANGED <<accepted, conns, main, idx, remote, round, told>> /\ Onward
              => Telling'
<1>1. UNCHANGED <<accepted, newconn, conns>> /\ Onward /\ (ctx # "run" => UNCHANGED sock)
        => Accepting'
  BY DEF Container, Accepting, Onward
<1>2. UNCHANGED <<accepted, conns, torn, removal>> /\ Onward => Newcomer'
  BY DEF Container, Newcomer, Moved, Onward
<1>3. UNCHANGED <<accepted, ids, torn>> /\ Onward /\ (ctx' = ctx \/ ctx # "pushed")
        => Numbering'
  BY DEF Container, Numbering, Onward
<1>4. UNCHANGED <<conns, main, idx, last, remote, round>> => Iterating'
  BY DEF Container, Iterating
<1>5. UNCHANGED <<conns, main, idx, invalid, torn, removal>> => Holes'
  BY DEF Container, Holes
<1>6. UNCHANGED <<conns, main, removal>> => Shrinking'
  BY DEF Container, Shrinking
<1>7. UNCHANGED <<accepted, conns, main, idx, remote, round, told>> /\ Onward => Telling'
  BY DEF Container, Telling, Onward
<1> QED BY <1>1, <1>2, <1>3, <1>4, <1>5, <1>6, <1>7

\* Nothing of it changes, and no socket while the accept handler runs.
Quiet ==
  /\ UNCHANGED <<accepted, newconn, ids, conns, main, mainLocal, removal, history>>
  /\ ctx # "run" => UNCHANGED sock
  /\ ctx' = ctx \/ ctx' = "dead" \/ (ctx = "connected" /\ ctx' = "run")

LEMMA QuietSteps ==
  ASSUME \/ UNCHANGED vars
         \/ ClientConnects
         \/ \E c \in Conns : (\E kind \in Kinds : ClientSends(c, kind)) \/ ClientLeaves(c)
         \/ AcceptDenied \/ AcceptError \/ AcceptThrows \/ PrintBack \/ BackIsNull
         \/ \E c \in Conns : HandlerStep(c)
         \/ BroadcastVisitsNull \/ EraseBackwards
  PROVE  Quiet
<1>1. CASE UNCHANGED vars
  BY <1>1 DEF vars, Quiet
<1>2. CASE ClientConnects
  BY <1>2 DEF ClientConnects, Quiet
<1>3. ASSUME NEW c \in Conns, NEW kind \in Kinds, ClientSends(c, kind) PROVE Quiet
  BY <1>3 DEF ClientSends, Quiet
<1>4. ASSUME NEW c \in Conns, ClientLeaves(c) PROVE Quiet
  BY <1>4 DEF ClientLeaves, Quiet
<1>5. CASE AcceptDenied \/ AcceptError
  BY <1>5 DEF AcceptDenied, AcceptError, Quiet
<1>6. CASE AcceptThrows
  BY <1>6 DEF AcceptThrows, Crash, Quiet
<1>7. CASE PrintBack
  BY <1>7 DEF PrintBack, Quiet
<1>8. CASE BackIsNull
  BY <1>8 DEF BackIsNull, Crash, Quiet
<1>9. ASSUME NEW c \in Conns, HandlerStep(c) PROVE Quiet
  <2>1. CASE RunSend(c)
    BY <2>1 DEF RunSend, Quiet
  <2>2. CASE WriteDone(c)
    BY <2>2 DEF WriteDone, Runs, Quiet
  <2>3. CASE ReadMessage(c)
    BY <2>3 DEF ReadMessage, Quiet
  <2>4. CASE ReadError(c)
    BY <2>4 DEF ReadError, Runs, Quiet
  <2> QED BY <1>9, <2>1, <2>2, <2>3, <2>4 DEF HandlerStep
<1>10. CASE BroadcastVisitsNull
  BY <1>10 DEF BroadcastVisitsNull, Crash, Quiet
<1>11. CASE EraseBackwards
  BY <1>11 DEF EraseBackwards, Crash, Quiet
<1> QED BY <1>1, <1>2, <1>3, <1>4, <1>5, <1>6, <1>7, <1>8, <1>9, <1>10, <1>11

LEMMA ContainerQuiet ==
  ASSUME Types, Container, Quiet
  PROVE  Container'
<1>1. Onward /\ (ctx' = ctx \/ ctx # "pushed" \/ ctx' = "dead")
  BY DEF Quiet, Onward
<1>2. Numbering'
  BY <1>1 DEF Container, Numbering, Quiet
<1> QED BY <1>1, <1>2, ContainerSame DEF Container, Quiet

LEMMA ContainerAccept ==
  ASSUME Types, Container, Accept
  PROVE  Container'
<1> DEFINE c == accepted + 1
<1>1. c \in Conns /\ c \in Nat /\ c > accepted /\ accepted' = c /\ newconn' = c
        /\ ctx = "run" /\ ctx' = "approved" /\ Post(c, 0)
        /\ sock' = [sock EXCEPT ![c] = "open"]
        /\ UNCHANGED <<ids, conns, main, mainLocal, removal, round, torn>>
  BY Constants DEF Types, ClientTypes, Accept, OnClientConnect, Conns
<1>2. \A i \in 1..Len(conns) : conns[i] # c
  <2> SUFFICES ASSUME NEW i \in 1..Len(conns) PROVE conns[i] # c
    OBVIOUS
  <2>1. conns[i] \in Accepted \cup {Nil}
    BY EntryType
  <2> QED BY <1>1, <2>1, Constants DEF Accepted, Types, ClientTypes
<1>3. Numbering'
  BY <1>1 DEF Container, Numbering
<1> HIDE DEF c
<1>4. Accepting'
  <2>1. sock'[c] = "open"
    BY <1>1 DEF Types, ObjectTypes
  <2> QED BY <1>1, <1>2, <2>1 DEF Accepting, Some, Types, ClientTypes
<1>5. Newcomer'
  BY <1>1 DEF Newcomer
<1>6. Iterating' /\ Holes' /\ Shrinking'
  BY <1>1, ContainerSame
<1>7. told'[c] = Append(told[c], 0) /\ \A d \in Conns : d # c => told'[d] = told[d]
  BY <1>1, PostTold
<1>8. told'[c] = <<0>>
  <2>1. ~ (c <= accepted)
    BY <1>1 DEF Types, ClientTypes
  <2>2. told[c] = <<>>
    BY <1>1, <2>1 DEF Container, Telling
  <2>3. Append(<<>>, 0) = <<0>>
    OBVIOUS
  <2> QED BY <1>7, <2>2, <2>3
<1>9. InOrder(<<0>>) /\ Before(<<0>>, 1)
  BY DEF InOrder, Before
<1>10. Telling'
  <2>1. ASSUME NEW d \in Conns
        PROVE  IF d <= c THEN InOrder(told'[d]) ELSE told'[d] = <<>>
    <3>1. CASE d = c
      BY <1>1, <1>8, <1>9, <3>1
    <3>2. CASE d # c
      <4>1. d <= c <=> d <= accepted
        BY <1>1, <3>2, Constants DEF c, Types, ClientTypes
      <4> QED BY <1>7, <3>2, <4>1 DEF Container, Telling
    <3> QED BY <3>1, <3>2
  <2>2. ASSUME main = "broadcast", NEW i \in 1..Len(conns), conns[i] # Nil
        PROVE  told'[conns[i]] = told[conns[i]]
    BY <1>2, <1>7, <2>2, EntryType, AcceptedAreConns
  <2> QED BY <1>1, <1>8, <1>9, <2>1, <2>2 DEF Container, Telling
<1> QED BY <1>3, <1>4, <1>5, <1>6, <1>10 DEF Container

LEMMA ContainerPushBack ==
  ASSUME Types, Container, PushBack
  PROVE  Container'
<1>1. newconn = accepted /\ ~ Some(conns, accepted) /\ accepted > 0 /\ sock[accepted] = "open"
        /\ accepted \in Accepted /\ accepted # Nil /\ accepted \in Conns /\ ctx = "approved"
  BY AcceptedAreConns DEF Container, Accepting, PushBack, Types, ClientTypes, Accepted
<1>2. conns' = Append(conns, accepted) /\ newconn' = Nil /\ ctx' = "pushed"
        /\ UNCHANGED <<accepted, ids, sock, main, remote, idx, invalid, removal, round, told,
                       torn>>
        /\ last' \in (IF main = "broadcast" THEN {last, Len(conns')} ELSE {last})
  BY <1>1 DEF PushBack, Pushed
<1> DEFINE n == Len(conns)
<1>3. n \in Nat
  BY ConnsLen
<1>4. Len(conns') = n + 1 /\ conns'[n + 1] = accepted /\ \A i \in 1..n : conns'[i] = conns[i]
  BY <1>2, AppendProperties DEF Types, SharedTypes
<1>5. \A i \in 1..(n + 1) : i \in 1..n \/ i = n + 1
  BY <1>3
<1>6. \A i \in 1..n : conns[i] # accepted
  BY <1>1 DEF Some
<1>7. main = "broadcast" => /\ idx \in Nat /\ last \in Nat /\ idx > 0 /\ idx <= last + 1
                            /\ last <= n /\ round > 0 /\ remote # Nil
  BY DEF Container, Iterating, Types, MainTypes
<1>8. Accepting'
  BY <1>1, <1>2 DEF Accepting
<1>9. Newcomer'
  <2>1. conns' # <<>>
    BY <1>3, <1>4, EmptySeq
  <2>2. "remove" \in evaluated => removeEnd <= n /\ removeEnd \in Nat
    BY DEF Container, Shrinking, Types, RemovalTypes
  <2>3. "remove" \in evaluated => Len(conns') # removeEnd
    BY <1>3, <1>4, <2>2
  <2>4. evaluated' = evaluated /\ removeEnd' = removeEnd
    BY <1>2
  <2>5. ~ Moved'
    BY <2>3, <2>4 DEF Moved
  <2>6. LastOf(conns') = accepted'
    BY <1>2, <1>4 DEF LastOf
  <2> QED BY <2>1, <2>5, <2>6 DEF Newcomer
<1>10. Numbering'
  BY <1>1, <1>2 DEF Container, Numbering
<1>11. Iterating'
  <2>1. NoRepeats(conns')
    <3> SUFFICES ASSUME NEW i \in 1..(n + 1), NEW j \in 1..(n + 1), conns'[i] = conns'[j],
                        conns'[i] # Nil
                 PROVE  i = j
      BY <1>4 DEF NoRepeats
    <3>1. CASE i \in 1..n /\ j \in 1..n
      BY <1>4, <3>1 DEF Container, Iterating, NoRepeats
    <3>2. CASE i \in 1..n /\ j = n + 1
      BY <1>4, <1>6, <3>2
    <3>3. CASE i = n + 1 /\ j \in 1..n
      BY <1>4, <1>6, <3>3
    <3> QED BY <1>5, <3>1, <3>2, <3>3
  <2>2. main = "broadcast" => idx \in 1..(last' + 1) /\ last' <= n + 1
    BY <1>2, <1>3, <1>4, <1>7
  <2> QED BY <1>2, <1>4, <1>7, <2>1, <2>2 DEF Iterating
<1>12. Holes'
  <2>1. ASSUME ~ torn, NEW i \in 1..(n + 1), conns'[i] = Nil
        PROVE  \/ main = "broadcast" /\ i < idx /\ invalid
               \/ main = "remove" /\ ("range" \in evaluated => i <= removeEnd)
    <3>1. i \in 1..n /\ conns[i] = Nil
      BY <1>1, <1>4, <1>5, <2>1
    <3> QED BY <2>1, <3>1 DEF Container, Holes
  <2> QED BY <1>2, <1>4, <2>1 DEF Holes
<1>13. Shrinking'
  <2>1. /\ "range" \in evaluated => removeEnd \in Nat /\ removeEnd <= n
        /\ "end" \in evaluated => eraseEnd \in Nat /\ eraseEnd <= n
        /\ "remove" \in evaluated => "range" \in evaluated /\ newEnd <= removeEnd
    BY DEF Container, Shrinking, Types, RemovalTypes
  <2>2. /\ "range" \in evaluated => removeEnd <= Len(conns')
        /\ "end" \in evaluated => eraseEnd <= Len(conns')
    BY <1>3, <1>4, <2>1
  <2>3. ASSUME "remove" \in evaluated, NEW i \in 1..removeEnd
        PROVE  conns'[i] = Nil <=> i > newEnd
    <3>1. i \in 1..n
      BY <1>3, <2>1, <2>3
    <3> QED BY <1>4, <2>3, <3>1 DEF Container, Shrinking
  <2> QED BY <1>2, <2>1, <2>2, <2>3 DEF Container, Shrinking
<1>14. Telling'
  <2>1. ASSUME main = "broadcast", NEW i \in 1..(n + 1), conns'[i] # Nil
        PROVE  IF i < idx THEN Some(told[conns'[i]], round) <=> conns'[i] # remote
                          ELSE Before(told[conns'[i]], round)
    <3>1. CASE i \in 1..n
      BY <1>4, <2>1, <3>1 DEF Container, Telling
    <3>2. CASE i = n + 1
      <4>1. ~ (i < idx)
        BY <1>3, <1>7, <2>1, <3>2
      <4>2. Before(told[accepted], 1)
        BY <1>1 DEF Container, Telling
      <4>3. Before(told[accepted], round)
        <5>1. \A k \in 1..Len(told[accepted]) : told[accepted][k] \in Nat
          BY <1>1, ToldEntries DEF Types, HistoryTypes
        <5>2. round \in Nat
          BY DEF Types, HistoryTypes
        <5> QED BY <1>7, <2>1, <4>2, <5>1, <5>2 DEF Before
      <4> QED BY <1>4, <3>2, <4>1, <4>3
    <3> QED BY <1>5, <3>1, <3>2
  <2> QED BY <1>2, <1>4, <2>1 DEF Container, Telling
<1> QED BY <1>8, <1>9, <1>10, <1>11, <1>12, <1>13, <1>14 DEF Container

\* What back() finds when it finds a connection is the newcomer: behind the one
\* that std::remove kept last there is but null.
LEMMA BackIsTheNewcomer ==
  ASSUME Types, Container, ctx \in {"pushed", "connected"}, ~ torn, BackIsThere
  PROVE  Back = accepted
<1> DEFINE n == Len(conns)
<1>1. n \in 1..n /\ n \in Nat /\ conns[n] # Nil /\ Back = conns[n]
  BY ConnsLen, EmptySeq DEF BackIsThere, Back, Types, SharedTypes
<1>2. CASE Moved
  <2>1. n = removeEnd /\ newEnd > 0 /\ conns[newEnd] = accepted
    BY <1>2 DEF Container, Newcomer, Moved
  <2>2. newEnd \in Nat /\ newEnd <= n /\ (conns[n] = Nil <=> n > newEnd)
    BY <1>1, <1>2, <2>1 DEF Container, Shrinking, Moved, Types, RemovalTypes
  <2>3. newEnd = n
    BY <1>1, <2>2
  <2> QED BY <1>1, <2>1, <2>3
<1>3. CASE ~ Moved
  BY <1>1, <1>3 DEF Container, Newcomer, LastOf
<1> QED BY <1>2, <1>3

LEMMA ContainerConnect ==
  ASSUME Types, Container, ConnectBack
  PROVE  Container'
<1>1. ctx = "pushed" /\ ctx' = "connected" /\ BackIsThere /\ ids' = Append(ids, Back)
        /\ UNCHANGED <<accepted, newconn, sock, conns, main, mainLocal, removal, history>>
  BY DEF ConnectBack
<1>2. Onward
  BY <1>1 DEF Onward
<1>3. Numbering'
  <2> SUFFICES ASSUME ~ torn
               PROVE  Len(ids') = accepted /\ \A k \in 1..Len(ids') : ids'[k] = k
    BY <1>1 DEF Numbering
  <2>1. Back = accepted /\ Back \in Accepted
    BY <1>1, BackIsTheNewcomer, BackType
  <2>2. Len(ids) + 1 = accepted /\ \A k \in 1..Len(ids) : ids[k] = k
    BY <1>1 DEF Container, Numbering
  <2>3. Len(ids') = Len(ids) + 1 /\ ids'[Len(ids) + 1] = accepted
          /\ \A k \in 1..Len(ids) : ids'[k] = ids[k]
    BY <1>1, <2>1, AppendProperties DEF Types, AcceptTypes
  <2>4. \A k \in 1..(Len(ids) + 1) : k \in 1..Len(ids) \/ k = Len(ids) + 1
    BY LenProperties DEF Types, AcceptTypes
  <2> QED BY <2>2, <2>3, <2>4
<1> QED BY <1>1, <1>2, <1>3, ContainerSame DEF Container

\* Outside of a broadcast an answer changes nothing in the container.
LEMMA ContainerAnswer ==
  ASSUME Types, Container, NEW c \in Accepted, Post(c, 0), main = "update",
         UNCHANGED <<accepting, ctx, sock, conns, main, mainLocal, removal, round, notified,
                     torn>>
  PROVE  Container'
<1>1. c \in Conns /\ told'[c] = Append(told[c], 0)
        /\ \A d \in Conns : d # c => told'[d] = told[d]
  BY AcceptedAreConns, PostTold
<1>2. told[c] \in Seq(0..round) /\ round \in Nat /\ 0 \in 0..round
  BY <1>1, ToldEntries DEF Types, HistoryTypes
<1>3. c <= accepted
  BY DEF Accepted, Types, ClientTypes
<1>4. InOrder(told'[c])
  <2>1. InOrder(told[c])
    BY <1>1, <1>3 DEF Container, Telling
  <2> QED BY <1>1, <1>2, <2>1, AppendInOrder
<1>5. ASSUME ctx = "approved" PROVE Before(told'[accepted], 1)
  <2>1. Before(told[accepted], 1) /\ accepted \in Conns
    BY <1>3, <1>5, AcceptedAreConns DEF Container, Telling, Accepting, Accepted, Types,
       ClientTypes
  <2>2. CASE c = accepted
    <3>1. Before(Append(told[c], 0), 1)
      BY <1>2, <2>1, <2>2, AppendBefore
    <3> QED BY <1>1, <2>2, <3>1
  <2>3. CASE c # accepted
    BY <1>1, <2>1, <2>3
  <2> QED BY <2>2, <2>3
<1>6. Telling'
  <2>1. ASSUME NEW d \in Conns
        PROVE  IF d <= accepted THEN InOrder(told'[d]) ELSE told'[d] = <<>>
    BY <1>1, <1>3, <1>4 DEF Container, Telling
  <2> QED BY <1>5, <2>1 DEF Telling
<1>7. Onward
  BY DEF Onward
<1> QED BY <1>6, <1>7, ContainerSame DEF Container

\* There is no null entry when there is neither a loop nor a removal.
LEMMA NoneBetween ==
  ASSUME Types, Container, main = "update", ~ torn
  PROVE  \A i \in 1..Len(conns) : conns[i] # Nil
BY DEF Container, Holes

\* A removal begins.
LEMMA ContainerRemovalBegins ==
  ASSUME Types, Container, main \in {"update", "broadcast"}, main' = "remove",
         UNCHANGED <<accepted, newconn, ids, ctx, sock, conns, removal, round, told, torn>>
  PROVE  Container'
<1>1. Onward /\ evaluated = {}
  BY DEF Onward, Container, Shrinking
<1>2. Accepting' /\ Newcomer' /\ Numbering'
  BY <1>1, ContainerSame
<1>3. Iterating'
  BY DEF Container, Iterating
<1>4. Holes'
  BY <1>1 DEF Holes
<1>5. Shrinking'
  BY <1>1 DEF Shrinking
<1>6. Telling'
  BY DEF Container, Telling
<1> QED BY <1>2, <1>3, <1>4, <1>5, <1>6 DEF Container

LEMMA ContainerMessages ==
  ASSUME Types, Container, OnPing \/ MessageClient
  PROVE  Container'
<1>1. CASE OnPing
  <2>1. Head(qIn).remote \in Accepted
    BY <1>1, QueueType DEF OnPing
  <2> QED BY <1>1, <2>1, ContainerAnswer DEF OnPing
<1>2. CASE MessageClient
  <2> DEFINE client == Head(qIn).remote
  <2>1. client \in Accepted
    BY <1>2, QueueType DEF MessageClient
  <2>2. main = "update" /\ UNCHANGED <<accepting, ctx, sock, conns, idx, last, invalid,
                                       removal, round, torn>>
    BY <1>2 DEF MessageClient
  <2>3. CASE IsConnected(client)
    <3>1. Post(client, 0) /\ UNCHANGED <<main, remote, notified>>
      BY <1>2, <2>3 DEF MessageClient
    <3> HIDE DEF client
    <3> QED BY <2>1, <2>2, <3>1, ContainerAnswer
  <2>4. CASE ~ IsConnected(client)
    <3>1. main' = "remove" /\ UNCHANGED told
      BY <1>2, <2>4 DEF MessageClient
    <3> QED BY <2>2, <3>1, ContainerRemovalBegins
  <2> QED BY <2>3, <2>4
<1> QED BY <1>1, <1>2

LEMMA ContainerStart ==
  ASSUME Types, Container, BroadcastStart
  PROVE  Container'
<1>1. UNCHANGED <<accepting, ctx, sock, conns, removal, told, torn>>
        /\ main = "update" /\ main' = "broadcast"
        /\ idx' = 1 /\ last' = Len(conns) /\ round' = round + 1
  BY DEF BroadcastStart
<1>2. remote' # Nil
  BY QueueType, AcceptedAreConns DEF BroadcastStart
<1>3. Accepting' /\ Newcomer' /\ Numbering'
  <2>1. Onward
    BY <1>1 DEF Onward
  <2> QED BY <1>1, <2>1, ContainerSame
<1>4. Iterating'
  <2>1. idx' \in 1..(last' + 1) /\ last' <= Len(conns) /\ round' > 0
    BY <1>1, ConnsLen DEF Types, HistoryTypes
  <2> QED BY <1>1, <1>2, <2>1 DEF Container, Iterating
<1>5. Holes'
  BY <1>1, NoneBetween DEF Holes
<1>6. Shrinking'
  BY <1>1 DEF Container, Shrinking
<1>7. Telling'
  <2>1. ASSUME NEW i \in 1..Len(conns), conns[i] # Nil
        PROVE  ~ (i < 1) /\ Before(told[conns[i]], round + 1)
    <3>1. conns[i] \in Conns
      BY <2>1, EntryType, AcceptedAreConns
    <3>2. \A k \in 1..Len(told[conns[i]]) : told[conns[i]][k] \in 0..round
      BY <3>1, ToldEntries
    <3> QED BY <3>2 DEF Before, Types, HistoryTypes
  <2> QED BY <1>1, <2>1 DEF Container, Telling
<1> QED BY <1>3, <1>4, <1>5, <1>6, <1>7 DEF Container

LEMMA ContainerVisit ==
  ASSUME Types, Container, BroadcastVisit
  PROVE  Container'
<1> DEFINE client == conns[idx]
           n == Len(conns)
<1>1. idx \in 1..n /\ client \in Accepted /\ client \in Conns /\ client # Nil /\ n \in Nat
  BY VisitedEntry, AcceptedAreConns, ConnsLen DEF Container
<1>2. main = "broadcast" /\ idx <= last /\ idx' = idx + 1
        /\ UNCHANGED <<accepting, ctx, sock, main, remote, last, removal, round, torn>>
  BY DEF BroadcastVisit
<1>3. idx \in Nat /\ last \in Nat /\ last <= n /\ remote # Nil /\ round > 0 /\ round \in Nat
        /\ evaluated = {}
  BY <1>2 DEF Container, Iterating, Shrinking, Types, MainTypes, HistoryTypes
<1>4. \A i \in 1..n : conns[i] = client => i = idx
  BY <1>1 DEF Container, Iterating, NoRepeats
<1>5. idx' \in 1..(last' + 1) /\ last' <= n
  BY <1>1, <1>2, <1>3
<1>6. Before(told[client], round)
  BY <1>1, <1>2, <1>3 DEF Container, Telling
<1>7. \A i \in 1..n : i < idx' <=> i < idx \/ i = idx
  BY <1>1, <1>2
<1>8. ASSUME ~ torn, NEW i \in 1..n, conns[i] = Nil PROVE i < idx /\ invalid /\ i < idx'
  BY <1>1, <1>2, <1>8 DEF Container, Holes
<1>9. Onward /\ Numbering'
  <2>1. Onward
    BY <1>2 DEF Onward
  <2> QED BY <1>2, <2>1, ContainerSame
<1>10. ASSUME UNCHANGED <<conns, invalid, notified>>
       PROVE  Accepting' /\ Newcomer' /\ Iterating' /\ Holes' /\ Shrinking'
  <2>1. Accepting' /\ Newcomer' /\ Shrinking'
    BY <1>2, <1>9, <1>10, ContainerSame
  <2>2. Iterating'
    BY <1>2, <1>3, <1>5, <1>10 DEF Container, Iterating
  <2>3. Holes'
    BY <1>2, <1>8, <1>10 DEF Holes
  <2> QED BY <2>1, <2>2, <2>3
<1>11. CASE IsConnected(client) /\ Ignored(client)
  <2>1. UNCHANGED <<posted, told, conns, invalid, notified>>
    BY <1>11 DEF BroadcastVisit
  <2>2. ASSUME NEW i \in 1..n, conns[i] # Nil
        PROVE  IF i < idx' THEN Some(told[conns[i]], round) <=> conns[i] # remote
                           ELSE Before(told[conns[i]], round)
    <3>1. CASE i = idx
      <4>1. ~ Some(told[client], round)
        <5> SUFFICES ASSUME NEW k \in 1..Len(told[client]) PROVE told[client][k] # round
          BY DEF Some
        <5>1. told[client][k] \in 0..round
          BY <1>1, ToldEntries
        <5>2. told[client][k] < round
          BY <1>6 DEF Before
        <5> QED BY <1>3, <5>1, <5>2
      <4> QED BY <1>7, <1>11, <3>1, <4>1 DEF Ignored
    <3>2. CASE i # idx
      BY <1>2, <1>7, <2>2, <3>2 DEF Container, Telling
    <3> QED BY <3>1, <3>2
  <2>3. Telling'
    BY <1>2, <2>1, <2>2 DEF Container, Telling
  <2> QED BY <1>9, <1>10, <2>1, <2>3 DEF Container
<1>12. CASE IsConnected(client) /\ ~ Ignored(client)
  <2>1. Post(client, round) /\ UNCHANGED <<conns, invalid, notified>>
    BY <1>12 DEF BroadcastVisit
  <2>2. told'[client] = Append(told[client], round)
          /\ \A d \in Conns : d # client => told'[d] = told[d]
    <3> HIDE DEF client
    <3> QED BY <1>1, <2>1, PostTold
  <2>3. told[client] \in Seq(0..round) /\ round \in 0..round
    BY <1>1, <1>3, ToldEntries
  <2>4. ASSUME NEW i \in 1..n, conns[i] # Nil
        PROVE  IF i < idx' THEN Some(told'[conns[i]], round) <=> conns[i] # remote
                           ELSE Before(told'[conns[i]], round)
    <3>1. CASE i = idx
      <4>1. Some(told'[client], round)
        BY <2>2, <2>3, AppendSome
      <4> QED BY <1>7, <1>12, <3>1, <4>1 DEF Ignored
    <3>2. CASE i # idx
      <4>1. conns[i] # client /\ conns[i] \in Conns
        BY <1>4, <2>4, <3>2, EntryType, AcceptedAreConns
      <4>2. told'[conns[i]] = told[conns[i]]
        BY <2>2, <4>1
      <4> QED BY <1>2, <1>7, <2>4, <3>2, <4>2 DEF Container, Telling
    <3> QED BY <3>1, <3>2
  <2>5. ASSUME NEW d \in Conns
        PROVE  IF d <= accepted THEN InOrder(told'[d]) ELSE told'[d] = <<>>
    <3>1. CASE d = client
      <4>1. client <= accepted
        BY <1>1 DEF Accepted, Types, ClientTypes
      <4>2. InOrder(told[client])
        BY <1>1, <4>1 DEF Container, Telling
      <4>3. InOrder(Append(told[client], round))
        BY <1>3, <1>6, <2>3, <4>2, AppendInOrder
      <4> QED BY <2>2, <3>1, <4>1, <4>3
    <3>2. CASE d # client
      BY <2>2, <3>2 DEF Container, Telling
    <3> QED BY <3>1, <3>2
  <2>6. ASSUME ctx = "approved" PROVE Before(told'[accepted], 1)
    <3>1. accepted # client /\ accepted \in Conns
      BY <1>1, <2>6, AcceptedAreConns DEF Container, Accepting, Some, Accepted, Types,
         ClientTypes
    <3> QED BY <2>2, <2>6, <3>1 DEF Container, Telling
  <2>7. Telling'
    BY <1>2, <2>1, <2>4, <2>5, <2>6 DEF Telling
  <2> QED BY <1>9, <1>10, <2>1, <2>7 DEF Container
<1>13. CASE ~ IsConnected(client)
  <2>1. conns' = [conns EXCEPT ![idx] = Nil] /\ invalid' = TRUE /\ UNCHANGED told
    BY <1>13 DEF BroadcastVisit, ResetEntry
  <2>2. Len(conns') = n /\ conns'[idx] = Nil /\ \A i \in 1..n : i # idx => conns'[i] = conns[i]
    BY <1>1, <2>1, ExceptSeq DEF Types, SharedTypes
  <2>3. Accepting'
    <3>1. ASSUME ctx = "approved" PROVE ~ Some(conns', accepted)
      <4>1. accepted # Nil
        BY <3>1, AcceptedAreConns DEF Container, Accepting, Types, ClientTypes, Accepted
      <4> QED BY <2>2, <3>1, <4>1 DEF Container, Accepting, Some
    <3> QED BY <1>2, <3>1 DEF Container, Accepting
  <2>4. Newcomer'
    <3> SUFFICES ASSUME ctx \in {"pushed", "connected"}, ~ torn
                 PROVE  ~ Moved' /\ conns' # <<>> /\ LastOf(conns') = accepted
      BY <1>2 DEF Newcomer
    <3>1. ~ Moved /\ ~ Moved'
      BY <1>2, <1>3 DEF Moved
    <3>2. conns[n] = accepted /\ sock[accepted] = "open" /\ n \in 1..n
      BY <1>1, <3>1 DEF Container, Accepting, Newcomer, LastOf
    <3>3. n # idx
      BY <1>1, <1>13, <3>2 DEF IsConnected
    <3>4. conns' # <<>>
      BY <1>1, <2>2, EmptySeq
    <3> QED BY <2>2, <3>1, <3>2, <3>3, <3>4 DEF LastOf
  <2>5. Iterating'
    <3>1. NoRepeats(conns')
      <4> SUFFICES ASSUME NEW i \in 1..n, NEW j \in 1..n, conns'[i] = conns'[j],
                          conns'[i] # Nil
                   PROVE  i = j
        BY <2>2 DEF NoRepeats
      <4>1. i # idx /\ j # idx
        BY <2>2
      <4> QED BY <2>2, <4>1 DEF Container, Iterating, NoRepeats
    <3> QED BY <1>2, <1>3, <1>5, <2>2, <3>1 DEF Iterating
  <2>6. Holes'
    <3>1. ASSUME ~ torn, NEW i \in 1..n, conns'[i] = Nil PROVE i < idx'
      BY <1>7, <1>8, <2>2, <3>1
    <3> QED BY <1>2, <2>1, <2>2, <3>1 DEF Holes
  <2>7. Shrinking'
    BY <1>2, <1>3 DEF Shrinking
  <2>8. Telling'
    <3>1. ASSUME NEW i \in 1..n, conns'[i] # Nil
          PROVE  IF i < idx' THEN Some(told[conns'[i]], round) <=> conns'[i] # remote
                             ELSE Before(told[conns'[i]], round)
      <4>1. i # idx /\ conns'[i] = conns[i]
        BY <2>2, <3>1
      <4> QED BY <1>2, <1>7, <3>1, <4>1 DEF Container, Telling
    <3> QED BY <1>2, <2>1, <2>2, <3>1 DEF Container, Telling
  <2> QED BY <1>9, <2>3, <2>4, <2>5, <2>6, <2>7, <2>8 DEF Container
<1> QED BY <1>11, <1>12, <1>13

LEMMA ContainerEnd ==
  ASSUME Types, Container, BroadcastEnd
  PROVE  Container'
<1>1. main = "broadcast"
        /\ UNCHANGED <<accepting, ctx, sock, conns, idx, last, invalid, removal, round, told,
                       torn>>
  BY DEF BroadcastEnd
<1>2. CASE invalid
  <2>1. main' = "remove"
    BY <1>2 DEF BroadcastEnd
  <2> QED BY <1>1, <2>1, ContainerRemovalBegins
<1>3. CASE ~ invalid
  <2>1. main' = "update"
    BY <1>3 DEF BroadcastEnd
  <2>2. Onward
    BY <1>1 DEF Onward
  <2>3. Accepting' /\ Newcomer' /\ Numbering'
    BY <1>1, <2>2, ContainerSame
  <2>4. Iterating'
    BY <1>1, <2>1 DEF Container, Iterating
  <2>5. Holes'
    BY <1>1, <1>3 DEF Container, Holes
  <2>6. Shrinking'
    BY <1>1 DEF Container, Shrinking
  <2>7. Telling'
    BY <1>1, <2>1 DEF Container, Telling
  <2> QED BY <2>3, <2>4, <2>5, <2>6, <2>7 DEF Container
<1> QED BY <1>2, <1>3

\* The ends are taken where the container has them at the time.
LEMMA ContainerEnds ==
  ASSUME Types, Container, RemoveRange \/ EraseEnd
  PROVE  Container'
<1>1. main = "remove"
        /\ UNCHANGED <<accepting, ctx, sock, conns, main, mainLocal, newEnd, round, told, torn>>
  BY DEF RemoveRange, EraseEnd, Removing
<1>2. Len(conns) \in Nat
  BY ConnsLen
<1>3. Onward
  BY <1>1 DEF Onward
<1>4. Accepting' /\ Numbering' /\ Iterating' /\ Telling'
  BY <1>1, <1>3, ContainerSame
<1>5. CASE RemoveRange
  <2>1. removeEnd' = Len(conns) /\ evaluated' = evaluated \cup {"range"} /\ eraseEnd' = eraseEnd
          /\ "range" \notin evaluated
    BY <1>5 DEF RemoveRange
  <2>2. "remove" \notin evaluated /\ "remove" \notin evaluated'
    BY <2>1 DEF Container, Shrinking
  <2>3. Newcomer'
    BY <1>1, <2>2 DEF Container, Newcomer, Moved
  <2>4. Holes'
    BY <1>1, <1>2, <2>1 DEF Holes
  <2>5. Shrinking'
    BY <1>1, <1>2, <2>1, <2>2 DEF Container, Shrinking
  <2> QED BY <1>4, <2>3, <2>4, <2>5 DEF Container
<1>6. CASE EraseEnd
  <2>1. eraseEnd' = Len(conns) /\ evaluated' = evaluated \cup {"end"} /\ removeEnd' = removeEnd
    BY <1>6 DEF EraseEnd
  <2>2. Newcomer'
    BY <1>1, <2>1 DEF Container, Newcomer, Moved
  <2>3. Holes'
    BY <1>1, <2>1 DEF Container, Holes
  <2>4. Shrinking'
    BY <1>1, <1>2, <2>1 DEF Container, Shrinking
  <2> QED BY <1>4, <2>2, <2>3, <2>4 DEF Container
<1> QED BY <1>5, <1>6

\* std::remove moves the newcomer, if it is in its range, to the new end.
LEMMA ContainerNulls ==
  ASSUME Types, Container, RemoveNulls
  PROVE  Container'
<1> DEFINE n == Len(conns)
<1>1. main = "remove" /\ "range" \in evaluated /\ "remove" \notin evaluated
        /\ evaluated' = evaluated \cup {"remove"}
        /\ UNCHANGED <<accepting, ctx, sock, main, mainLocal, removeEnd, eraseEnd, round, told,
                       torn>>
  BY DEF RemoveNulls, Removing
<1>2. /\ Len(conns') = n /\ removeEnd \in 0..n /\ newEnd' \in 0..removeEnd
      /\ \A i \in 1..newEnd' : conns'[i] # Nil
      /\ \A i \in 1..removeEnd : i > newEnd' => conns'[i] = Nil
      /\ \A i \in 1..n : i > removeEnd => conns'[i] = conns[i]
      /\ \A i \in 1..n : conns'[i] # Nil => Some(conns, conns'[i])
      /\ NoRepeats(conns) => NoRepeats(conns')
      /\ removeEnd > 0 /\ conns[removeEnd] # Nil =>
           newEnd' > 0 /\ conns'[newEnd'] = conns[removeEnd]
  BY RemovedNulls
<1>3. n \in Nat /\ removeEnd \in Nat /\ newEnd' \in Nat /\ removeEnd <= n /\ newEnd' <= removeEnd
  BY <1>2, ConnsLen
<1>4. Onward
  BY <1>1 DEF Onward
<1>5. Accepting'
  <2>1. ASSUME ctx = "approved" PROVE ~ Some(conns', accepted)
    <3>1. accepted # Nil /\ ~ Some(conns, accepted)
      BY <2>1, AcceptedAreConns DEF Container, Accepting, Types, ClientTypes, Accepted
    <3> QED BY <1>2, <3>1 DEF Some
  <2> QED BY <1>1, <2>1 DEF Container, Accepting
<1>6. Newcomer'
  <2> SUFFICES ASSUME ctx \in {"pushed", "connected"}, ~ torn
               PROVE  IF Moved' THEN newEnd' > 0 /\ conns'[newEnd'] = accepted
                                ELSE conns' # <<>> /\ LastOf(conns') = accepted
    BY <1>1 DEF Newcomer
  <2>1. conns # <<>> /\ conns[n] = accepted /\ accepted # Nil
    <3>1. ~ Moved
      BY <1>1 DEF Moved
    <3>2. accepted # Nil
      BY AcceptedAreConns DEF Container, Accepting, Types, ClientTypes, Accepted
    <3> QED BY <3>1, <3>2 DEF Container, Newcomer, LastOf
  <2>2. n > 0
    BY <1>3, <2>1, EmptySeq DEF Types, SharedTypes
  <2>3. Moved' <=> removeEnd = n
    BY <1>1, <1>2 DEF Moved
  <2>4. CASE removeEnd = n
    BY <1>2, <2>1, <2>2, <2>3, <2>4
  <2>5. CASE removeEnd # n
    <3>1. n \in 1..n /\ n > removeEnd
      BY <1>3, <2>2, <2>5
    <3>2. conns'[n] = accepted
      BY <1>2, <2>1, <3>1
    <3>3. conns' # <<>>
      BY <1>2, <2>2, EmptySeq
    <3> QED BY <1>2, <2>3, <2>5, <3>2, <3>3 DEF LastOf
  <2> QED BY <2>4, <2>5
<1>7. Numbering'
  BY <1>1, <1>4, ContainerSame
<1>8. Iterating'
  BY <1>1, <1>2 DEF Container, Iterating
<1>9. Holes'
  <2>1. ASSUME ~ torn, NEW i \in 1..n, conns'[i] = Nil PROVE i <= removeEnd
    <3> SUFFICES ASSUME i > removeEnd PROVE FALSE
      BY <1>3
    <3>1. conns[i] = Nil
      BY <1>2, <2>1
    <3> QED BY <1>1, <1>3, <2>1, <3>1 DEF Container, Holes
  <2> QED BY <1>1, <1>2, <2>1 DEF Holes
<1>10. Shrinking'
  <2>1. ASSUME NEW i \in 1..removeEnd PROVE conns'[i] = Nil <=> i > newEnd'
    <3>1. CASE i > newEnd'
      BY <1>2, <3>1
    <3>2. CASE ~ (i > newEnd')
      <4>1. i \in 1..newEnd'
        BY <1>3, <3>2
      <4> QED BY <1>2, <3>2, <4>1
    <3> QED BY <3>1, <3>2
  <2>2. "end" \in evaluated => eraseEnd <= n
    BY DEF Container, Shrinking
  <2> QED BY <1>1, <1>2, <1>3, <2>1, <2>2 DEF Shrinking
<1>11. Telling'
  BY <1>1 DEF Container, Telling
<1> QED BY <1>5, <1>6, <1>7, <1>8, <1>9, <1>10, <1>11 DEF Container

\* erase, given the end that std::remove was given, takes out nothing but null.
LEMMA ContainerErase ==
  ASSUME Types, Container, Erase
  PROVE  Container'
<1> DEFINE n == Len(conns)
<1>1. main = "remove" /\ main' = "update" /\ evaluated = {"range", "remove", "end"}
        /\ evaluated' = {} /\ torn' = (torn \/ removeEnd # eraseEnd)
        /\ UNCHANGED <<accepting, ctx, sock, idx, last, invalid, removeEnd, newEnd, eraseEnd,
                       round, told>>
  BY DEF Erase, Evaluated, Removing
<1>2. /\ Len(conns') = newEnd + (n - eraseEnd)
      /\ newEnd <= eraseEnd /\ eraseEnd <= n
      /\ newEnd <= removeEnd /\ removeEnd <= n
      /\ \A i \in 1..Len(conns') :
           /\ i <= newEnd => conns'[i] = conns[i]
           /\ i > newEnd => conns'[i] = conns[i + (eraseEnd - newEnd)]
      /\ NoRepeats(conns) => NoRepeats(conns')
  BY ErasedRange
<1>3. n \in Nat /\ newEnd \in Nat /\ removeEnd \in Nat /\ eraseEnd \in Nat
  BY ConnsLen DEF Types, RemovalTypes
<1>4. ASSUME NEW i \in 1..Len(conns')
      PROVE  \E j \in 1..n : conns'[i] = conns[j] /\ (i <= newEnd => j = i)
                               /\ (i > newEnd => j > eraseEnd)
  <2>1. CASE i <= newEnd
    <3>1. i \in 1..n /\ ~ (i > newEnd)
      BY <1>2, <1>3, <2>1
    <3> QED BY <1>2, <2>1, <3>1
  <2>2. CASE i > newEnd
    <3>1. i + (eraseEnd - newEnd) \in 1..n /\ i + (eraseEnd - newEnd) > eraseEnd
            /\ ~ (i <= newEnd)
      BY <1>2, <1>3, <2>2
    <3> QED BY <1>2, <2>2, <3>1
  <2> QED BY <1>2, <1>3, <2>1, <2>2
<1>5. \A i \in 1..removeEnd : conns[i] = Nil <=> i > newEnd
  BY <1>1 DEF Container, Shrinking
<1>6. Onward
  BY <1>1 DEF Onward
<1>7. Accepting'
  <2>1. ASSUME ctx = "approved" PROVE ~ Some(conns', accepted)
    <3>1. ~ Some(conns, accepted)
      BY <2>1 DEF Container, Accepting
    <3> QED BY <1>4, <3>1 DEF Some
  <2> QED BY <1>1, <2>1 DEF Container, Accepting
<1>8. Newcomer'
  <2> SUFFICES ASSUME ctx \in {"pushed", "connected"}, ~ torn, removeEnd = eraseEnd
               PROVE  conns' # <<>> /\ LastOf(conns') = accepted
    <3>1. ~ Moved'
      BY <1>1 DEF Moved
    <3> QED BY <1>1, <3>1 DEF Newcomer
  <2> DEFINE m == Len(conns')
  <2>1. m \in Nat
    BY <1>2, <1>3
  <2>2. m > 0 => conns' # <<>>
    BY EmptySeq
  <2>3. CASE n = removeEnd
    <3>1. newEnd > 0 /\ conns[newEnd] = accepted
      BY <1>1, <2>3 DEF Container, Newcomer, Moved
    <3>2. m = newEnd /\ newEnd \in 1..m /\ newEnd <= newEnd
      BY <1>2, <1>3, <2>3, <3>1
    <3>3. conns'[m] = accepted
      BY <1>2, <3>1, <3>2
    <3> QED BY <2>2, <3>1, <3>2, <3>3 DEF LastOf
  <2>4. CASE n # removeEnd
    <3>1. conns[n] = accepted
      BY <1>1, <2>4 DEF Container, Newcomer, Moved, LastOf
    <3>2. m \in 1..m /\ m > newEnd /\ m + (eraseEnd - newEnd) = n
      BY <1>2, <1>3, <2>4
    <3>3. conns'[m] = accepted
      BY <1>2, <3>1, <3>2
    <3> QED BY <1>3, <2>1, <2>2, <3>2, <3>3 DEF LastOf
  <2> QED BY <2>3, <2>4
<1>9. Numbering'
  <2>1. torn' = FALSE => torn' = torn
    BY <1>1 DEF Types, HistoryTypes
  <2> QED BY <1>1, <2>1 DEF Container, Numbering
<1>10. Iterating'
  BY <1>1, <1>2 DEF Container, Iterating
<1>11. Holes'
  <2> SUFFICES ASSUME ~ torn, removeEnd = eraseEnd, NEW i \in 1..Len(conns'), conns'[i] = Nil
               PROVE  FALSE
    BY <1>1 DEF Holes
  <2>1. PICK j \in 1..n : conns'[i] = conns[j] /\ (i <= newEnd => j = i)
                            /\ (i > newEnd => j > eraseEnd)
    BY <1>4
  <2>2. CASE i <= newEnd
    <3>1. i \in 1..removeEnd /\ ~ (i > newEnd) /\ conns[i] = Nil
      BY <1>2, <1>3, <2>1, <2>2
    <3> QED BY <1>5, <3>1
  <2>3. CASE i > newEnd
    <3>1. conns[j] = Nil /\ ~ (j <= removeEnd)
      BY <1>3, <2>1, <2>3
    <3> QED BY <1>1, <3>1 DEF Container, Holes
  <2> QED BY <1>2, <1>3, <2>2, <2>3
<1>12. Shrinking'
  BY <1>1 DEF Shrinking
<1>13. Telling'
  BY <1>1 DEF Container, Telling
<1> QED BY <1>7, <1>8, <1>9, <1>10, <1>11, <1>12, <1>13 DEF Container

-----------------------------------------------------------------------------
(* Results.                                                                *)

ServerInv == Types /\ Container

LEMMA ContainerStep ==
  ASSUME Types, Container, [Next]_vars
  PROVE  Container'
<1>1. CASE Quiet
  BY <1>1, ContainerQuiet
<1>2. CASE AcceptStep \/ AcceptThrows
  BY <1>1, <1>2, QuietSteps, ContainerAccept, ContainerPushBack, ContainerConnect
     DEF AcceptStep
<1>3. CASE MainStep
  BY <1>1, <1>3, QuietSteps, ContainerMessages, ContainerStart, ContainerVisit, ContainerEnd,
     ContainerEnds, ContainerNulls, ContainerErase DEF MainStep
<1> QED BY <1>1, <1>2, <1>3, QuietSteps DEF Next

LEMMA ServerInvHolds == Spec => []ServerInv
<1>1. Init => ServerInv
  BY TypesInit, ContainerInit DEF ServerInv
<1>2. ServerInv /\ [Next]_vars => ServerInv'
  BY TypesStep, ContainerStep DEF ServerInv
<1> QED BY <1>1, <1>2, PTL DEF Spec

LEMMA ConnsDomain == Types => DOMAIN conns = 1..Len(conns)
BY LenProperties DEF Types, SharedTypes

LEMMA ToldDomain == Types => \A c \in Conns : DOMAIN told[c] = 1..Len(told[c])
<1> SUFFICES ASSUME Types, NEW c \in Conns PROVE DOMAIN told[c] = 1..Len(told[c])
  OBVIOUS
<1>1. told[c] \in Seq(0..round)
  BY ToldEntries
<1> QED BY <1>1, LenProperties

\* Every variable of both threads and of the clients keeps its type.
THEOREM TypeCorrect == Spec => []TypeOK
<1>1. Types => TypeOK
  <2> SUFFICES ASSUME Types PROVE TypeOK
    OBVIOUS
  <2>1. backlog \in 0..MaxConns /\ accepted \in 0..MaxConns
    <3>1. backlog \in Nat /\ accepted \in Nat /\ backlog + accepted <= MaxConns
            /\ MaxConns \in Nat
      BY Constants DEF Types, ClientTypes
    <3> QED BY <3>1
  <2>2. \A c \in Conns : wire[c] \in Seq(Kinds) /\ told[c] \in Seq(0..round)
    BY DEF Types, ClientTypes, HistoryTypes
  <2>3. peer \in [Conns -> {"up", "gone"}] /\ said \in [Conns -> 0..MaxMessages]
    BY DEF Types, ClientTypes
  <2>4. round \in Nat /\ notified \in [Conns -> Nat] /\ torn \in BOOLEAN
    BY DEF Types, HistoryTypes
  <2> QED BY <2>1, <2>2, <2>3, <2>4
             DEF Types, AcceptTypes, ObjectTypes, SharedTypes, MainTypes, RemovalTypes,
                 TypeOK
<1> QED BY <1>1, ServerInvHolds, PTL DEF ServerInv

\* As long as no removal has been given two different ends, a null entry is
\* behind the index of a loop that has flagged it, or in the range of the
\* removal that follows: no broadcast starts over one.
THEOREM NoHolesLeft == Spec => []NoHoles
<1>1. ServerInv => NoHoles
  BY ConnsDomain DEF ServerInv, Container, Holes, NoHoles
<1> QED BY <1>1, ServerInvHolds, PTL

\* As long as no removal has been given two different ends, the newcomer stays
\* at the back until the accept handler has called back() for the last time,
\* except between std::remove and erase: then it is the last entry kept.
THEOREM NewcomerAtTheBack == Spec => []BackIsNewcomer
<1>1. ServerInv => BackIsNewcomer
  <2> SUFFICES ASSUME Types, Container, ctx \in {"pushed", "connected"}, ~ torn
               PROVE  \/ BackIsThere /\ Back = accepted
                      \/ "remove" \in evaluated /\ Len(conns) = removeEnd
                           /\ newEnd > 0 /\ conns[newEnd] = accepted
    BY DEF ServerInv, BackIsNewcomer
  <2>1. CASE Moved
    BY <2>1 DEF Container, Newcomer, Moved
  <2>2. CASE ~ Moved
    <3>1. conns # <<>> /\ conns[Len(conns)] = accepted
      BY <2>2 DEF Container, Newcomer, LastOf
    <3>2. accepted # Nil
      BY AcceptedAreConns DEF Container, Accepting, Types, ClientTypes, Accepted
    <3> QED BY <3>1, <3>2 DEF BackIsThere, Back
  <2> QED BY <2>1, <2>2
<1> QED BY <1>1, ServerInvHolds, PTL

\* As long as no removal has been given two different ends, the k-th id goes to
\* the k-th connection: the back() that ConnectToClient is called on is never
\* another connection than the one just pushed.
THEOREM IdsAreOwn == Spec => []EachItsOwnId
<1>1. ServerInv => EachItsOwnId
  <2> SUFFICES ASSUME Types, Container, ~ torn, NEW k \in DOMAIN ids PROVE ids[k] = k
    BY DEF ServerInv, EachItsOwnId
  <2>1. DOMAIN ids = 1..Len(ids)
    BY LenProperties DEF Types, AcceptTypes
  <2> QED BY <2>1 DEF Container, Numbering
<1> QED BY <1>1, ServerInvHolds, PTL

\* When MessageAllClients ends, each connection that is left of those it went
\* over has the message, its originator excepted, and the originator has not.
THEOREM BroadcastIsComplete == Spec => []BroadcastReachesAll
<1>1. ServerInv => BroadcastReachesAll
  <2> SUFFICES ASSUME ServerInv, main = "broadcast", idx > last,
                      NEW i \in 1..last, conns[i] # Nil
               PROVE  (\E k \in DOMAIN told[conns[i]] : told[conns[i]][k] = round)
                        <=> conns[i] # remote
    BY DEF BroadcastReachesAll
  <2>1. Types /\ Iterating /\ Telling
    BY DEF ServerInv, Container
  <2>2. i < idx /\ i \in 1..Len(conns)
    BY <2>1, ConnsLen DEF Iterating, Types, MainTypes
  <2>3. Some(told[conns[i]], round) <=> conns[i] # remote
    BY <2>1, <2>2 DEF Telling
  <2>4. conns[i] \in Conns
    BY <2>1, <2>2, EntryType, AcceptedAreConns
  <2>5. DOMAIN told[conns[i]] = 1..Len(told[conns[i]])
    BY <2>1, <2>4, ToldDomain
  <2> QED BY <2>3, <2>5 DEF Some
<1> QED BY <1>1, ServerInvHolds, PTL

\* A connection of the container has its ServerAccept first, and the
\* broadcasts in the order in which the server made them, each at most once.
THEOREM OneOrderForAll == Spec => []ToldInOrder
<1>1. ServerInv => ToldInOrder
  <2> SUFFICES ASSUME ServerInv, NEW i \in DOMAIN conns, conns[i] # Nil
               PROVE  /\ told[conns[i]] # <<>> /\ told[conns[i]][1] = 0
                      /\ \A j, k \in DOMAIN told[conns[i]] :
                           j < k /\ told[conns[i]][j] # 0 /\ told[conns[i]][k] # 0
                             => told[conns[i]][j] < told[conns[i]][k]
    BY DEF ToldInOrder
  <2>1. Types /\ Telling
    BY DEF ServerInv, Container
  <2>2. conns[i] \in Accepted /\ conns[i] \in Conns
    BY <2>1, ConnsDomain, EntryType, AcceptedAreConns
  <2>3. conns[i] <= accepted
    BY <2>1, <2>2 DEF Types, ClientTypes, Accepted
  <2>4. InOrder(told[conns[i]])
    BY <2>1, <2>2, <2>3 DEF Telling
  <2>5. DOMAIN told[conns[i]] = 1..Len(told[conns[i]])
    BY <2>1, <2>2, ToldDomain
  <2> QED BY <2>4, <2>5 DEF InOrder
<1> QED BY <1>1, ServerInvHolds, PTL

\* A step takes a connection whose socket is open out of the container only by
\* an erase whose own end lies beyond the one std::remove was given, and only
\* one that was pushed between the two.
LEMMA DeadLeaveStep ==
  ASSUME Types, Container, [Next]_vars, NEW c \in Accepted, Some(conns, c),
         sock[c] = "open"
  PROVE  \/ Some(conns', c)
         \/ Evaluated /\ \E i \in (removeEnd + 1)..eraseEnd : conns[i] = c
<1>1. PICK i \in 1..Len(conns) : conns[i] = c
  BY DEF Some
<1>2. Len(conns) \in Nat /\ c # Nil
  BY ConnsLen, AcceptedAreConns
<1>3. CASE UNCHANGED conns
  BY <1>3 DEF Some
<1>4. CASE PushBack
  <2>1. conns' = Append(conns, newconn)
    BY <1>4 DEF PushBack, Pushed
  <2> QED BY <2>1, AppendSome DEF Types, SharedTypes
<1>5. CASE BroadcastVisit
  <2>1. CASE IsConnected(conns[idx])
    BY <1>3, <1>5, <2>1 DEF BroadcastVisit
  <2>2. CASE ~ IsConnected(conns[idx])
    <3>1. conns' = [conns EXCEPT ![idx] = Nil] /\ idx \in 1..Len(conns)
      BY <1>5, <2>2, VisitedEntry DEF BroadcastVisit, ResetEntry, Container
    <3>2. i # idx
      BY <1>1, <1>2, <2>2 DEF IsConnected
    <3>3. Len(conns') = Len(conns) /\ conns'[i] = c
      BY <1>1, <3>1, <3>2, ExceptSeq DEF Types, SharedTypes
    <3> QED BY <1>1, <3>3 DEF Some
  <2> QED BY <2>1, <2>2
<1>6. CASE RemoveNulls
  <2>1. conns[i] # Nil => Some(conns', conns[i])
    BY <1>1, <1>6, RemovedNulls
  <2> QED BY <1>1, <1>2, <2>1
<1>7. CASE Erase
  <2>1. newEnd \in Nat /\ removeEnd \in Nat /\ eraseEnd \in Nat /\ i \in Nat
    BY <1>1 DEF Types, RemovalTypes
  <2>2. CASE i <= newEnd \/ i > eraseEnd
    <3>1. Some(conns', conns[i])
      BY <1>1, <1>7, <2>2, ErasedRange
    <3> QED BY <1>1, <3>1
  <2>3. CASE ~ (i <= newEnd) /\ ~ (i > eraseEnd)
    <3>1. Evaluated /\ "remove" \in evaluated
      BY <1>7 DEF Erase, Evaluated
    <3>2. i \in 1..removeEnd => conns[i] = Nil
      BY <2>1, <2>3, <3>1 DEF Container, Shrinking
    <3>3. i \in (removeEnd + 1)..eraseEnd
      BY <1>1, <1>2, <2>1, <2>3, <3>2
    <3> QED BY <1>1, <3>1, <3>3
  <2> QED BY <2>2, <2>3
<1>8. CASE Accept \/ ConnectBack \/ OnPing \/ MessageClient
  BY <1>3, <1>8 DEF Accept, ConnectBack, OnPing, MessageClient
<1>9. CASE BroadcastStart \/ BroadcastEnd \/ RemoveRange \/ EraseEnd
  BY <1>3, <1>9 DEF BroadcastStart, BroadcastEnd, RemoveRange, EraseEnd
<1>10. CASE Quiet
  BY <1>3, <1>10 DEF Quiet
<1> QED BY <1>4, <1>5, <1>6, <1>7, <1>8, <1>9, <1>10, QuietSteps
           DEF Next, AcceptStep, MainStep

THEOREM OnlyDeadOrLateAreRemoved == Spec => OnlyDeadOrLateLeave
<1> DEFINE Step == \A c \in Accepted : InContainer(c) /\ sock[c] = "open" =>
             \/ InContainer(c)'
             \/ Evaluated /\ \E i \in (removeEnd + 1)..eraseEnd : conns[i] = c
<1>1. ServerInv /\ ServerInv' /\ [Next]_vars => [Step]_vars
  <2> SUFFICES ASSUME ServerInv, ServerInv', [Next]_vars PROVE Step
    OBVIOUS
  <2>1. Types /\ Types' /\ Container
    BY DEF ServerInv
  <2>2. DOMAIN conns = 1..Len(conns) /\ DOMAIN conns' = 1..Len(conns')
    <3>1. DOMAIN conns' = 1..Len(conns')
      BY <2>1, LenProperties DEF Types, SharedTypes
    <3> QED BY <2>1, <3>1, ConnsDomain
  <2> SUFFICES ASSUME NEW c \in Accepted, InContainer(c), sock[c] = "open"
               PROVE  \/ InContainer(c)'
                      \/ Evaluated /\ \E i \in (removeEnd + 1)..eraseEnd : conns[i] = c
    OBVIOUS
  <2>3. Some(conns, c)
    BY <2>2 DEF InContainer, Some
  <2>4. Some(conns', c) => InContainer(c)'
    BY <2>2 DEF InContainer, Some
  <2> QED BY <2>1, <2>3, <2>4, DeadLeaveStep
<1>2. Spec => [][Step]_vars
  BY <1>1, ServerInvHolds, PTL DEF Spec
<1> QED BY <1>2 DEF OnlyDeadOrLateLeave

-----------------------------------------------------------------------------
(* Who has been reported.                                                  *)

\* MessageClient takes a copy of the shared_ptr and removes nobody; a server
\* that answers with Send, as CustomServer does, never comes to it.
NoDirect == "direct" \notin Kinds

LEMMA UnreportedStep ==
  ASSUME NoDirect, Types, Container, Unreported, [Next]_vars
  PROVE  Unreported'
<1>1. CASE Quiet
  BY <1>1 DEF Quiet, Unreported
<1>2. CASE Accept
  <2>1. accepted' = accepted + 1 /\ accepted + 1 \in Conns /\ UNCHANGED <<conns, notified>>
          /\ accepted \in Nat
    BY <1>2, Constants DEF Types, ClientTypes, Accept, Conns
  <2>2. accepted + 1 > accepted /\ \A c \in Conns : c > accepted + 1 => c > accepted
    BY <2>1, Constants
  <2> QED BY <2>1, <2>2 DEF Unreported
<1>3. CASE PushBack
  <2>1. newconn = accepted /\ ctx = "approved"
    BY <1>3 DEF Container, Accepting, PushBack
  <2>2. conns' = Append(conns, accepted) /\ ctx' = "pushed" /\ UNCHANGED <<accepted, notified>>
    BY <1>3, <2>1 DEF PushBack, Pushed
  <2>3. \A i \in 1..Len(conns') :
          conns'[i] = accepted \/ (i \in 1..Len(conns) /\ conns'[i] = conns[i])
    BY <2>2, AppendProperties, ConnsLen DEF Types, SharedTypes
  <2> QED BY <2>1, <2>2, <2>3 DEF Unreported
<1>4. CASE ConnectBack
  <2>1. ctx' # "approved" /\ UNCHANGED <<conns, accepted, notified>>
    BY <1>4 DEF ConnectBack
  <2> QED BY <2>1 DEF Unreported
<1>5. CASE OnPing \/ BroadcastStart \/ BroadcastEnd \/ RemoveRange \/ EraseEnd
  <2>1. UNCHANGED <<ctx, conns, accepted, notified>>
    BY <1>5 DEF OnPing, BroadcastStart, BroadcastEnd, RemoveRange, EraseEnd
  <2> QED BY <2>1 DEF Unreported
<1>6. CASE MessageClient
  BY <1>6, QueueType DEF MessageClient, NoDirect
<1>7. CASE BroadcastVisit
  <2>1. idx \in 1..Len(conns) /\ conns[idx] \in Accepted /\ conns[idx] \in Conns
          /\ UNCHANGED <<ctx, accepted>>
    BY <1>7, VisitedEntry DEF Container, BroadcastVisit
  <2>2. CASE IsConnected(conns[idx])
    BY <1>7, <2>1, <2>2 DEF BroadcastVisit, Unreported
  <2>3. CASE ~ IsConnected(conns[idx])
    <3> DEFINE c == conns[idx]
    <3>1. conns' = [conns EXCEPT ![idx] = Nil] /\ OnClientDisconnect(c)
      BY <1>7, <2>3 DEF BroadcastVisit, ResetEntry
    <3>2. Len(conns') = Len(conns) /\ conns'[idx] = Nil
            /\ \A i \in 1..Len(conns) : i # idx => conns'[i] = conns[i]
      BY <2>1, <3>1, ExceptSeq DEF Types, SharedTypes
    <3>3. \A d \in Conns : d # c => notified'[d] = notified[d]
      BY <2>1, <3>1 DEF OnClientDisconnect, Types, HistoryTypes
    <3>4. ASSUME NEW i \in 1..Len(conns'), conns'[i] # Nil PROVE notified'[conns'[i]] = 0
      <4>1. i # idx /\ i \in 1..Len(conns) /\ conns'[i] = conns[i]
        BY <3>2, <3>4
      <4>2. conns[i] # c /\ conns[i] \in Conns
        BY <2>1, <3>4, <4>1, EntryType, AcceptedAreConns DEF Container, Iterating, NoRepeats
      <4> QED BY <3>3, <3>4, <4>1, <4>2 DEF Unreported
    <3>5. ASSUME ctx = "approved" PROVE notified'[accepted] = 0
      <4>1. accepted # c /\ accepted \in Conns
        BY <2>1, <3>5, AcceptedAreConns DEF Container, Accepting, Some, Accepted, Types,
           ClientTypes
      <4> QED BY <3>3, <3>5, <4>1 DEF Unreported
    <3>6. ASSUME NEW d \in Conns, d > accepted PROVE notified'[d] = 0
      <4>1. d # c
        BY <2>1, <3>6 DEF Accepted, Types, ClientTypes
      <4> QED BY <3>3, <3>6, <4>1 DEF Unreported
    <3> QED BY <2>1, <3>4, <3>5, <3>6 DEF Unreported
  <2> QED BY <2>2, <2>3
<1>8. CASE RemoveNulls \/ Erase
  <2>1. UNCHANGED <<ctx, accepted, notified>>
    BY <1>8 DEF RemoveNulls, Erase
  <2>2. ASSUME NEW i \in 1..Len(conns'), conns'[i] # Nil PROVE Some(conns, conns'[i])
    <3>1. CASE RemoveNulls
      BY <2>2, <3>1, RemovedNulls
    <3>2. CASE Erase
      <4>1. newEnd \in Nat /\ eraseEnd \in Nat /\ Len(conns) \in Nat
              /\ Len(conns') = newEnd + (Len(conns) - eraseEnd) /\ newEnd <= Len(conns)
              /\ newEnd <= eraseEnd
              /\ (i <= newEnd => conns'[i] = conns[i])
              /\ (i > newEnd => conns'[i] = conns[i + (eraseEnd - newEnd)])
        BY <3>2, ErasedRange, ConnsLen
      <4>2. CASE i <= newEnd
        BY <4>1, <4>2 DEF Some
      <4>3. CASE i > newEnd
        <5>1. i + (eraseEnd - newEnd) \in 1..Len(conns)
          BY <4>1, <4>3
        <5> QED BY <4>1, <4>3, <5>1 DEF Some
      <4> QED BY <4>1, <4>2, <4>3
    <3> QED BY <1>8, <3>1, <3>2
  <2> QED BY <2>1, <2>2 DEF Unreported, Some
<1> QED BY <1>1, <1>2, <1>3, <1>4, <1>5, <1>6, <1>7, <1>8, QuietSteps
           DEF Next, AcceptStep, MainStep

\* If only broadcasts report clients as disconnected, none that was reported is
\* in the container when Update goes on to the next message.
THEOREM ReportedAreRemoved ==
  ASSUME NoDirect
  PROVE  Spec => []ReportedIsRemoved
<1>1. Init => Unreported
  BY Constants DEF Init, Unreported, Conns
<1>2. ServerInv /\ Unreported /\ [Next]_vars => Unreported'
  BY UnreportedStep DEF ServerInv
<1>3. ServerInv /\ Unreported => ReportedIsRemoved
  <2> SUFFICES ASSUME Types, Unreported, NEW c \in Accepted, notified[c] > 0, InContainer(c)
               PROVE  FALSE
    BY DEF ServerInv, ReportedIsRemoved
  <2>1. PICK i \in 1..Len(conns) : conns[i] = c
    BY ConnsDomain DEF InContainer
  <2>2. c # Nil
    BY AcceptedAreConns
  <2> QED BY <2>1, <2>2 DEF Unreported
<1> QED BY <1>1, <1>2, <1>3, ServerInvHolds, PTL DEF Spec
=============================================================================
