------------------------------ MODULE SumProofs ------------------------------
(***************************************************************************)
(* What a sum over positions comes to.  The function that SumTo defines by *)
(* recursion is shown to exist from its partial sums, by an induction that *)
(* is stated of a set of naturals: that needs no operator as a parameter.  *)
(***************************************************************************)
EXTENDS Sums, WellFoundedInduction, TLAPS

-----------------------------------------------------------------------------
(* Induction, stated of a set so that no operator has to be instantiated.  *)
Below == OpToRel(<, Nat)

LEMMA BelowIs == \A x, y \in Nat : y < x => <<y, x>> \in Below
  BY DEF Below, OpToRel

LEMMA InductiveSet ==
    ASSUME NEW S \in SUBSET Nat, 0 \in S, \A n \in S : n + 1 \in S
    PROVE  S = Nat
  <1>1. IsWellFoundedOn(Below, Nat)
    BY NatLessThanWellFounded, Zenon DEF Below
  <1>2. SUFFICES ASSUME S # Nat PROVE FALSE
    OBVIOUS
  <1>3. Nat \ S \subseteq Nat /\ Nat \ S # {}
    BY <1>2
  <1>4. PICK x \in Nat \ S : \A y \in Nat \ S : <<y, x>> \notin Below
    BY <1>1, <1>3, WFMin
  <1>5. x \in Nat /\ x # 0
    OBVIOUS
  <1>6. x - 1 \in Nat /\ x - 1 < x /\ (x - 1) + 1 = x
    BY <1>5
  <1>7. x - 1 \in S
    BY <1>4, <1>5, <1>6, BelowIs
  <1> QED
    BY <1>4, <1>6, <1>7

-----------------------------------------------------------------------------
(* A sum up to `n`, as the function of its partial sums.                   *)
Partial(g, n, h) ==
    h = [i \in 0 .. n |-> IF i = 0 THEN 0 ELSE h[i - 1] + g[i]]

LEMMA PartialExists == \A g : \A n \in Nat : \E h : Partial(g, n, h)
  <1> SUFFICES ASSUME NEW g PROVE \A n \in Nat : \E h : Partial(g, n, h)
    OBVIOUS
  <1> DEFINE A == {n \in Nat : \E h : Partial(g, n, h)}
  <1>1. 0 \in A
    <2>1. Partial(g, 0, [i \in 0 .. 0 |-> 0])
      BY DEF Partial
    <2> QED
      BY <2>1
  <1>2. ASSUME NEW n \in A PROVE n + 1 \in A
    <2>1. PICK h : Partial(g, n, h)
      OBVIOUS
    <2> DEFINE k == [i \in 0 .. n + 1 |-> IF i = n + 1 THEN h[n] + g[n + 1]
                                          ELSE h[i]]
    <2>2. n \in Nat
      OBVIOUS
    <2>3. ASSUME NEW i \in 0 .. n + 1
          PROVE  k[i] = IF i = 0 THEN 0 ELSE k[i - 1] + g[i]
      <3>1. CASE i = n + 1
        BY <2>2, <3>1
      <3>2. CASE i # n + 1
        <4>1. i \in 0 .. n /\ (i # 0 => i - 1 \in 0 .. n /\ i - 1 # n + 1)
          BY <2>2, <3>2
        <4>2. h[i] = IF i = 0 THEN 0 ELSE h[i - 1] + g[i]
          BY <2>1, <4>1 DEF Partial
        <4> QED
          BY <2>2, <3>2, <4>1, <4>2
      <3> QED
        BY <3>1, <3>2
    <2>4. k = [i \in 0 .. n + 1 |-> k[i]]
      OBVIOUS
    <2> HIDE DEF k
    <2>5. Partial(g, n + 1, k)
      BY <2>3, <2>4 DEF Partial
    <2> QED
      BY <2>2, <2>5
  <1> HIDE DEF A
  <1>3. A = Nat
    <2>1. A \subseteq Nat
      BY DEF A
    <2> QED
      BY <1>1, <1>2, <2>1, InductiveSet
  <1> QED
    BY <1>3 DEF A

LEMMA PartialUnique ==
    ASSUME NEW g, NEW n \in Nat, NEW m \in Nat, n <= m, NEW h, NEW k,
           Partial(g, n, h), Partial(g, m, k)
    PROVE  \A i \in 0 .. n : h[i] = k[i]
  <1> DEFINE A == {i \in Nat : i <= n => h[i] = k[i]}
  <1>1. 0 \in A
    <2>1. 0 \in 0 .. n /\ 0 \in 0 .. m
      OBVIOUS
    <2>2. h[0] = 0 /\ k[0] = 0
      BY <2>1 DEF Partial
    <2> QED
      BY <2>2
  <1>2. ASSUME NEW i \in A PROVE i + 1 \in A
    <2> SUFFICES ASSUME i + 1 <= n PROVE h[i + 1] = k[i + 1]
      OBVIOUS
    <2>1. i \in Nat /\ i + 1 \in 0 .. n /\ i + 1 \in 0 .. m /\ i + 1 # 0
          /\ (i + 1) - 1 = i /\ i <= n
      OBVIOUS
    <2>2. h[i + 1] = h[i] + g[i + 1] /\ k[i + 1] = k[i] + g[i + 1]
      BY <2>1 DEF Partial
    <2> QED
      BY <2>1, <2>2
  <1> HIDE DEF A
  <1>3. A = Nat
    <2>1. A \subseteq Nat
      BY DEF A
    <2> QED
      BY <1>1, <1>2, <2>1, InductiveSet
  <1> QED
    BY <1>3 DEF A

(* The recursive function is what its definition says.                     *)
RunningSum(g) == CHOOSE f : f = [i \in Nat |-> IF i = 0 THEN 0
                                                ELSE f[i - 1] + g[i]]

LEMMA RunningSumIs ==
    ASSUME NEW g
    PROVE  LET f == RunningSum(g)
           IN  f = [i \in Nat |-> IF i = 0 THEN 0 ELSE f[i - 1] + g[i]]
  <1> DEFINE H(n) == CHOOSE h : Partial(g, n, h)
             f == [i \in Nat |-> H(i)[i]]
  <1>1. ASSUME NEW n \in Nat PROVE Partial(g, n, H(n))
    BY PartialExists
  <1> HIDE DEF H
  <1>2. ASSUME NEW i \in Nat
        PROVE  f[i] = IF i = 0 THEN 0 ELSE f[i - 1] + g[i]
    <2>1. i \in 0 .. i
      OBVIOUS
    <2>2. H(i)[i] = IF i = 0 THEN 0 ELSE H(i)[i - 1] + g[i]
      BY <1>1, <2>1 DEF Partial
    <2>3. CASE i = 0
      BY <2>2, <2>3
    <2>4. CASE i # 0
      <3>1. i - 1 \in Nat /\ i - 1 \in 0 .. i - 1 /\ i - 1 <= i
        BY <2>4
      <3>2. H(i - 1)[i - 1] = H(i)[i - 1]
        BY <1>1, <3>1, PartialUnique
      <3> QED
        BY <2>2, <2>4, <3>1, <3>2
    <2> QED
      BY <2>3, <2>4
  <1>3. f = [i \in Nat |-> f[i]]
    OBVIOUS
  <1> HIDE DEF f
  <1>4. f = [i \in Nat |-> IF i = 0 THEN 0 ELSE f[i - 1] + g[i]]
    BY <1>2, <1>3
  <1> QED
    BY <1>4, Zenon DEF RunningSum

LEMMA SumIs == \A g : \A n : SumTo(g, n) = RunningSum(g)[n]
  BY Zenon DEF SumTo, RunningSum

LEMMA SumNone == \A g : SumTo(g, 0) = 0
  BY RunningSumIs, SumIs

LEMMA SumNext ==
    ASSUME NEW g, NEW n \in Nat
    PROVE  SumTo(g, n + 1) = SumTo(g, n) + g[n + 1]
  <1>1. n + 1 \in Nat /\ n + 1 # 0 /\ (n + 1) - 1 = n
    OBVIOUS
  <1> QED
    BY <1>1, RunningSumIs, SumIs

(* Sums of naturals are naturals, and grow with what is added.             *)
LEMMA SumNat ==
    ASSUME NEW n \in Nat, NEW g, \A i \in 1 .. n : g[i] \in Nat
    PROVE  \A i \in 0 .. n : SumTo(g, i) \in Nat
  <1> DEFINE A == {i \in Nat : i <= n => SumTo(g, i) \in Nat}
  <1>1. 0 \in A
    BY SumNone
  <1>2. ASSUME NEW i \in A PROVE i + 1 \in A
    <2> SUFFICES ASSUME i + 1 <= n PROVE SumTo(g, i + 1) \in Nat
      OBVIOUS
    <2>1. i \in Nat /\ i <= n /\ i + 1 \in 1 .. n
      OBVIOUS
    <2>2. SumTo(g, i) \in Nat /\ g[i + 1] \in Nat
      BY <2>1
    <2>3. SumTo(g, i + 1) = SumTo(g, i) + g[i + 1]
      BY <2>1, SumNext
    <2> QED
      BY <2>2, <2>3
  <1> HIDE DEF A
  <1>3. A = Nat
    <2>1. A \subseteq Nat
      BY DEF A
    <2> QED
      BY <1>1, <1>2, <2>1, InductiveSet
  <1> QED
    BY <1>3 DEF A

LEMMA SumGrows ==
    ASSUME NEW n \in Nat, NEW g, \A i \in 1 .. n : g[i] \in Nat,
           NEW a \in 0 .. n
    PROVE  \A b \in a .. n : SumTo(g, a) <= SumTo(g, b)
  <1> DEFINE A == {k \in Nat : a + k <= n => SumTo(g, a) <= SumTo(g, a + k)}
  <1>1. 0 \in A
    <2>1. SumTo(g, a) \in Nat /\ a + 0 = a
      BY SumNat
    <2> QED
      BY <2>1
  <1>2. ASSUME NEW k \in A PROVE k + 1 \in A
    <2> SUFFICES ASSUME a + (k + 1) <= n
                 PROVE  SumTo(g, a) <= SumTo(g, a + (k + 1))
      OBVIOUS
    <2>1. /\ k \in Nat /\ a + k \in 0 .. n /\ a + k \in Nat
          /\ (a + k) + 1 = a + (k + 1) /\ (a + k) + 1 \in 1 .. n /\ a \in 0 .. n
      OBVIOUS
    <2>2. SumTo(g, a) <= SumTo(g, a + k) /\ g[(a + k) + 1] \in Nat
      BY <2>1
    <2>3. SumTo(g, (a + k) + 1) = SumTo(g, a + k) + g[(a + k) + 1]
      BY <2>1, SumNext
    <2>4. SumTo(g, a) \in Nat /\ SumTo(g, a + k) \in Nat
      BY <2>1, SumNat
    <2> QED
      BY <2>1, <2>2, <2>3, <2>4
  <1> HIDE DEF A
  <1>3. A = Nat
    <2>1. A \subseteq Nat
      BY DEF A
    <2> QED
      BY <1>1, <1>2, <2>1, InductiveSet
  <1>4. ASSUME NEW b \in a .. n PROVE SumTo(g, a) <= SumTo(g, b)
    <2>1. b - a \in Nat /\ a + (b - a) = b /\ a + (b - a) <= n
      OBVIOUS
    <2>2. b - a \in A
      BY <1>3, <2>1
    <2> QED
      BY <2>1, <2>2 DEF A
  <1> QED
    BY <1>4

(* A sum depends on nothing but what is added.                             *)
LEMMA SumSame ==
    ASSUME NEW n \in Nat, NEW g, NEW h, \A i \in 1 .. n : g[i] = h[i]
    PROVE  SumTo(g, n) = SumTo(h, n)
  <1> DEFINE A == {i \in Nat : i <= n => SumTo(g, i) = SumTo(h, i)}
  <1>1. 0 \in A
    BY SumNone
  <1>2. ASSUME NEW i \in A PROVE i + 1 \in A
    <2> SUFFICES ASSUME i + 1 <= n PROVE SumTo(g, i + 1) = SumTo(h, i + 1)
      OBVIOUS
    <2>1. i \in Nat /\ i <= n /\ i + 1 \in 1 .. n
      OBVIOUS
    <2>2. SumTo(g, i) = SumTo(h, i) /\ g[i + 1] = h[i + 1]
      BY <2>1
    <2> QED
      BY <2>1, <2>2, SumNext
  <1> HIDE DEF A
  <1>3. A = Nat
    <2>1. A \subseteq Nat
      BY DEF A
    <2> QED
      BY <1>1, <1>2, <2>1, InductiveSet
  <1> QED
    BY <1>3 DEF A

(* What adds nothing changes nothing.                                      *)
LEMMA SumSkip ==
    ASSUME NEW g, NEW a \in Nat, NEW b \in Nat, a <= b,
           \A i \in a + 1 .. b : g[i] = 0,
           SumTo(g, a) \in Int
    PROVE  SumTo(g, b) = SumTo(g, a)
  <1> DEFINE A == {k \in Nat : a + k <= b => SumTo(g, a + k) = SumTo(g, a)}
  <1>1. 0 \in A
    <2>1. a + 0 = a
      OBVIOUS
    <2> QED
      BY <2>1
  <1>2. ASSUME NEW k \in A PROVE k + 1 \in A
    <2> SUFFICES ASSUME a + (k + 1) <= b
                 PROVE  SumTo(g, a + (k + 1)) = SumTo(g, a)
      OBVIOUS
    <2>1. /\ k \in Nat /\ a + k <= b /\ a + k \in Nat
          /\ (a + k) + 1 = a + (k + 1) /\ (a + k) + 1 \in a + 1 .. b
      OBVIOUS
    <2>2. SumTo(g, a + k) = SumTo(g, a) /\ g[(a + k) + 1] = 0
      BY <2>1
    <2>3. SumTo(g, (a + k) + 1) = SumTo(g, a + k) + g[(a + k) + 1]
      BY <2>1, SumNext
    <2> QED
      BY <2>1, <2>2, <2>3
  <1> HIDE DEF A
  <1>3. A = Nat
    <2>1. A \subseteq Nat
      BY DEF A
    <2> QED
      BY <1>1, <1>2, <2>1, InductiveSet
  <1>4. b - a \in A /\ a + (b - a) = b
    BY <1>3
  <1> QED
    BY <1>4 DEF A

(* Every position up to the sum is among those of one of its terms.        *)
LEMMA SumCovers ==
    ASSUME NEW n \in Nat, NEW g, \A i \in 1 .. n : g[i] \in Nat,
           NEW p \in 1 .. SumTo(g, n)
    PROVE  \E i \in 1 .. n : \E b \in 1 .. g[i] : p = SumTo(g, i - 1) + b
  <1> DEFINE A == {k \in Nat : k <= n /\ p <= SumTo(g, k) =>
                      \E i \in 1 .. n : \E b \in 1 .. g[i] :
                          p = SumTo(g, i - 1) + b}
  <1>1. 0 \in A
    <2>1. SumTo(g, 0) = 0 /\ p \in Nat /\ p >= 1
      BY SumNone, SumNat
    <2> QED
      BY <2>1
  <1>2. ASSUME NEW k \in A PROVE k + 1 \in A
    <2> SUFFICES ASSUME k + 1 <= n, p <= SumTo(g, k + 1)
                 PROVE  \E i \in 1 .. n : \E b \in 1 .. g[i] :
                            p = SumTo(g, i - 1) + b
      OBVIOUS
    <2>1. /\ k \in Nat /\ k <= n /\ k \in 0 .. n
          /\ k + 1 \in 1 .. n /\ (k + 1) - 1 = k
      OBVIOUS
    <2>2. SumTo(g, k) \in Nat /\ g[k + 1] \in Nat
          /\ SumTo(g, k + 1) = SumTo(g, k) + g[k + 1]
      BY <2>1, SumNat, SumNext
    <2>3. CASE p <= SumTo(g, k)
      BY <2>1, <2>3
    <2>4. CASE ~(p <= SumTo(g, k))
      <3>1. p \in Nat
        BY <2>1, SumNat
      <3>2. p - SumTo(g, k) \in 1 .. g[k + 1]
            /\ p = SumTo(g, k) + (p - SumTo(g, k))
        BY <2>2, <2>4, <3>1
      <3> QED
        BY <2>1, <3>2
    <2> QED
      BY <2>3, <2>4
  <1> HIDE DEF A
  <1>3. A = Nat
    <2>1. A \subseteq Nat
      BY DEF A
    <2> QED
      BY <1>1, <1>2, <2>1, InductiveSet
  <1>4. n \in A /\ SumTo(g, n) \in Nat /\ p <= SumTo(g, n)
    BY <1>3, SumNat
  <1> QED
    BY <1>4 DEF A

(* The first term apart.                                                   *)
Shifted(g, h, c, n) ==
    /\ h[1] = c
    /\ \A i \in 1 .. n : g[i] \in Nat /\ h[i + 1] = g[i]

LEMMA SumShift ==
    ASSUME NEW n \in Nat, NEW g, NEW h, NEW c \in Nat, Shifted(g, h, c, n)
    PROVE  \A i \in 0 .. n : SumTo(h, i + 1) = c + SumTo(g, i)
  <1>0. /\ \A i \in 1 .. n : g[i] \in Nat
        /\ h[1] = c /\ \A i \in 1 .. n : h[i + 1] = g[i]
    BY DEF Shifted
  <1> DEFINE A == {k \in Nat : k <= n => SumTo(h, k + 1) = c + SumTo(g, k)}
  <1>1. 0 \in A
    <2>1. SumTo(h, 0 + 1) = SumTo(h, 0) + h[0 + 1]
      BY SumNext
    <2>2. SumTo(h, 0) = 0 /\ SumTo(g, 0) = 0 /\ 0 + 1 = 1
      BY SumNone
    <2> QED
      BY <1>0, <2>1, <2>2
  <1>2. ASSUME NEW k \in A PROVE k + 1 \in A
    <2> SUFFICES ASSUME k + 1 <= n
                 PROVE  SumTo(h, (k + 1) + 1) = c + SumTo(g, k + 1)
      OBVIOUS
    <2>1. k \in Nat /\ k + 1 \in Nat /\ k + 1 \in 1 .. n /\ k \in 0 .. n
      OBVIOUS
    <2>2. SumTo(h, k + 1) = c + SumTo(g, k) /\ SumTo(g, k) \in Nat
      BY <1>0, <2>1, SumNat
    <2>3. SumTo(h, (k + 1) + 1) = SumTo(h, k + 1) + h[(k + 1) + 1]
      BY <2>1, SumNext
    <2>4. SumTo(g, k + 1) = SumTo(g, k) + g[k + 1] /\ h[(k + 1) + 1] = g[k + 1]
          /\ g[k + 1] \in Nat
      BY <1>0, <2>1, SumNext
    <2> QED
      BY <2>2, <2>3, <2>4
  <1> HIDE DEF A
  <1>3. A = Nat
    <2>1. A \subseteq Nat
      BY DEF A
    <2> QED
      BY <1>1, <1>2, <2>1, InductiveSet
  <1> QED
    BY <1>3 DEF A
=============================================================================
