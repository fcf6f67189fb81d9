------------------------------ MODULE NatSets ------------------------------
(***************************************************************************)
(* Induction over the naturals, and what it gives for functions that are   *)
(* defined by recursion on an interval from 0.  The predicate is a set of  *)
(* naturals and the recursion step a function.                             *)
(***************************************************************************)
EXTENDS Naturals, NaturalsInduction, WellFoundedInduction, TLAPS

\* A set that holds 0 and, with a number, the next one holds all of them.
LEMMA SetInduction ==
  ASSUME NEW S \in SUBSET Nat, 0 \in S, \A n \in S : n + 1 \in S
  PROVE  S = Nat
<1> DEFINE R == OpToRel(<, Nat)
           T == Nat \ S
<1>1. IsWellFoundedOn(R, Nat)
  BY NatLessThanWellFounded, Zenon
<1>2. \A x, y \in Nat : x < y => <<x, y>> \in R
  BY DEF OpToRel
<1> HIDE DEF R
<1> SUFFICES ASSUME T # {} PROVE FALSE
  OBVIOUS
<1>3. PICK x \in T : \A y \in T : ~ (<<y, x>> \in R)
  <2>1. T \subseteq Nat /\ T # {}
    OBVIOUS
  <2> HIDE DEF T
  <2> QED BY <1>1, <2>1, WFMin
<1>4. x # 0 /\ x \in Nat
  OBVIOUS
<1>5. x - 1 \in Nat /\ x - 1 < x
  BY <1>4
<1>6. x - 1 \notin T
  BY <1>2, <1>3, <1>4, <1>5
<1> QED BY <1>4, <1>5, <1>6

\* A set of naturals that has a member has a least one.
LEMMA LeastExists ==
  ASSUME NEW T \in SUBSET Nat, T # {}
  PROVE  \E x \in T : \A y \in T : x <= y
<1> DEFINE R == OpToRel(<, Nat)
<1>1. IsWellFoundedOn(R, Nat)
  BY NatLessThanWellFounded, Zenon
<1>2. \A x, y \in Nat : x < y => <<x, y>> \in R
  BY DEF OpToRel
<1> HIDE DEF R
<1>3. PICK x \in T : \A y \in T : ~ (<<y, x>> \in R)
  BY <1>1, WFMin
<1>4. \A y \in T : x \in Nat /\ y \in Nat /\ ~ (y < x)
  BY <1>2, <1>3
<1> QED BY <1>3, <1>4

\* f takes base at 0, and each other value by a step from the one before.
FollowsFrom(f, S, n, base, step) ==
  /\ f \in [0..n -> S]
  /\ f[0] = base
  /\ \A i \in 1..n : f[i] = step[i][f[i - 1]]

LEMMA RecursionExists ==
  ASSUME NEW S, NEW n \in Nat, NEW base \in S, NEW step \in [1..n -> [S -> S]]
  PROVE  \E f : FollowsFrom(f, S, n, base, step)
<1> DEFINE Good == {k \in Nat : k <= n => \E f : FollowsFrom(f, S, k, base, step)}
<1>1. 0 \in Good
  <2> DEFINE f == [j \in 0..0 |-> base]
  <2>1. f \in [0..0 -> S] /\ f[0] = base
    OBVIOUS
  <2>2. FollowsFrom(f, S, 0, base, step)
    BY <2>1 DEF FollowsFrom
  <2> QED BY <2>2
<1>2. ASSUME NEW k \in Good PROVE k + 1 \in Good
  <2>1. k \in Nat /\ k + 1 \in Nat
    OBVIOUS
  <2>2. SUFFICES ASSUME k + 1 <= n PROVE \E f : FollowsFrom(f, S, k + 1, base, step)
    BY <2>1
  <2>3. k <= n /\ k + 1 \in 1..n
    BY <2>1, <2>2
  <2>4. PICK f : FollowsFrom(f, S, k, base, step)
    BY <2>3
  <2>5. f \in [0..k -> S] /\ f[0] = base /\ \A i \in 1..k : f[i] = step[i][f[i - 1]]
    BY <2>4 DEF FollowsFrom
  <2> DEFINE next == step[k + 1][f[k]]
             g == [j \in 0..(k + 1) |-> IF j = k + 1 THEN next ELSE f[j]]
  <2>6. next \in S
    <3>1. step[k + 1] \in [S -> S] /\ f[k] \in S
      BY <2>1, <2>3, <2>5
    <3> QED BY <3>1
  <2> HIDE DEF next
  <2>7. \A j \in 0..k : j \in 0..(k + 1) /\ j # k + 1
    BY <2>1
  <2>8. g \in [0..(k + 1) -> S]
    BY <2>1, <2>5, <2>6, <2>7
  <2>9. g[k + 1] = next /\ \A j \in 0..k : g[j] = f[j]
    BY <2>1, <2>7
  <2> HIDE DEF g
  <2>10. \A i \in 1..(k + 1) : i - 1 \in 0..k /\ (i = k + 1 \/ i \in 1..k)
                                 /\ (i \in 1..k => i \in 0..k)
    BY <2>1
  <2>11. ASSUME NEW i \in 1..(k + 1) PROVE g[i] = step[i][g[i - 1]]
    <3>1. g[i - 1] = f[i - 1]
      BY <2>9, <2>10
    <3>2. CASE i = k + 1
      <4>1. i - 1 = k
        BY <2>1, <3>2
      <4> QED BY <2>9, <3>1, <3>2, <4>1 DEF next
    <3>3. CASE i \in 1..k
      BY <2>5, <2>9, <2>10, <3>1, <3>3
    <3> QED BY <2>10, <3>2, <3>3
  <2>12. g[0] = base
    <3>1. 0 \in 0..k
      BY <2>1
    <3> QED BY <2>5, <2>9, <3>1
  <2>13. FollowsFrom(g, S, k + 1, base, step)
    BY <2>8, <2>11, <2>12 DEF FollowsFrom
  <2> QED BY <2>13
<1>3. Good \in SUBSET Nat
  OBVIOUS
<1> HIDE DEF Good
<1>4. Good = Nat
  BY <1>1, <1>2, <1>3, SetInduction
<1>5. n \in Good
  BY <1>4
<1> QED BY <1>5 DEF Good
=============================================================================
