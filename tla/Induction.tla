------------------------------ MODULE Induction ------------------------------
(***************************************************************************)
(* Induction over the naturals for sets, and the existence of functions    *)
(* defined by recursion, in a first-order form that lemmas can cite.       *)
(***************************************************************************)
EXTENDS Integers, FiniteSetTheorems, TLAPS

\* Else a finite set of numbers would be closed under + 1, which is injective, so
\* that some number of it would have 0 for a successor.
LEMMA NatSetInduction ==
    ASSUME NEW S, 0 \in S, \A n \in Nat : n \in S => n + 1 \in S
    PROVE  \A n \in Nat : n \in S
  <1> SUFFICES ASSUME NEW n \in Nat, n \notin S
               PROVE  FALSE
    OBVIOUS
  <1> DEFINE A == {k \in 0 .. n : k \in S}
             f == [k \in A |-> k + 1]
  <1>1. IsFiniteSet(A)
    <2>1. IsFiniteSet(0 .. n)
      BY FS_Interval
    <2> QED BY <2>1, FS_Subset
  <1>2. \A k \in A : k + 1 \in A /\ k + 1 # 0
    <2> SUFFICES ASSUME NEW k \in A
                 PROVE  k + 1 \in A /\ k + 1 # 0
      OBVIOUS
    <2>1. k \in Nat /\ k <= n /\ k # n
      OBVIOUS
    <2>2. k + 1 \in S /\ k + 1 \in 0 .. n
      BY <2>1
    <2> QED BY <2>1, <2>2
  <1>3. f \in [A -> A]
    BY <1>2
  <1>4. f \in Injection(A, A)
    <2>1. \A j, k \in A : f[j] = f[k] => j = k
      <3> SUFFICES ASSUME NEW j \in A, NEW k \in A, f[j] = f[k]
                   PROVE  j = k
        OBVIOUS
      <3>1. j + 1 = k + 1 /\ j \in Nat /\ k \in Nat
        OBVIOUS
      <3> QED BY <3>1
    <2> HIDE DEF f, A
    <2> QED BY <1>3, <2>1 DEF Injection, IsInjective
  <1>5. f \in Surjection(A, A)
    <2> HIDE DEF f, A
    <2> QED BY <1>1, <1>4, FS_Injection
  <1>6. 0 \in A
    OBVIOUS
  <1>7. PICK k \in A : f[k] = 0
    <2> HIDE DEF f, A
    <2> QED BY <1>5, <1>6 DEF Surjection
  <1> QED BY <1>2, <1>7

\* What starts in V and stays there is defined at every step.
LEMMA Recursion ==
    ASSUME NEW V, NEW a \in V, NEW n \in Nat, NEW step \in [1 .. n -> [V -> V]]
    PROVE  \E f \in [0 .. n -> V] :
              /\ f[0] = a
              /\ \A i \in 1 .. n : f[i] = step[i][f[i - 1]]
  <1> DEFINE Upto(m, f) == /\ f \in [0 .. m -> V]
                           /\ f[0] = a
                           /\ \A i \in 1 .. m : f[i] = step[i][f[i - 1]]
             Defined == {m \in Nat : m <= n => \E f : Upto(m, f)}
  <1>1. 0 \in Defined
    <2>1. Upto(0, [i \in 0 .. 0 |-> a])
      OBVIOUS
    <2> QED BY <2>1
  <1>2. \A m \in Nat : m \in Defined => m + 1 \in Defined
    <2> SUFFICES ASSUME NEW m \in Nat, m \in Defined, m + 1 <= n
                 PROVE  \E f : Upto(m + 1, f)
      <3> HIDE DEF Upto
      <3> QED OBVIOUS
    <2>0. \E f : Upto(m, f)
      <3>1. m <= n
        OBVIOUS
      <3> HIDE DEF Upto
      <3> QED BY <3>1
    <2>1. PICK f : Upto(m, f)
      BY <2>0
    <2> DEFINE g == [i \in 0 .. m + 1 |-> IF i <= m THEN f[i] ELSE step[m + 1][f[m]]]
    <2>2. m + 1 \in 1 .. n /\ f[m] \in V /\ step[m + 1][f[m]] \in V
      BY <2>1
    <2>3. \A i \in 0 .. m : g[i] = f[i] /\ f[i] \in V
      BY <2>1
    <2>4. g[m + 1] = step[m + 1][g[m]]
      <3>1. m + 1 \in 0 .. m + 1 /\ ~(m + 1 <= m) /\ m \in 0 .. m
        OBVIOUS
      <3>2. g[m + 1] = step[m + 1][f[m]]
        BY <3>1
      <3> HIDE DEF g
      <3> QED BY <2>3, <3>1, <3>2
    <2>5. g \in [0 .. m + 1 -> V]
      <3> SUFFICES ASSUME NEW i \in 0 .. m + 1
                   PROVE  g[i] \in V
        OBVIOUS
      <3>1. i \in 0 .. m \/ i = m + 1
        OBVIOUS
      <3>2. m \in 0 .. m
        OBVIOUS
      <3> HIDE DEF g
      <3> QED BY <2>2, <2>3, <2>4, <3>1, <3>2
    <2>6. \A i \in 1 .. m + 1 : g[i] = step[i][g[i - 1]]
      <3> SUFFICES ASSUME NEW i \in 1 .. m + 1
                   PROVE  g[i] = step[i][g[i - 1]]
        OBVIOUS
      <3> HIDE DEF g
      <3>1. CASE i = m + 1
        BY <2>4, <3>1
      <3>2. CASE i # m + 1
        <4>1. i \in 1 .. m /\ i \in 0 .. m /\ i - 1 \in 0 .. m
          BY <3>2
        <4> QED BY <2>1, <2>3, <4>1
      <3> QED BY <3>1, <3>2
    <2>7. g[0] = a
      BY <2>1, <2>3
    <2> HIDE DEF g
    <2>8. Upto(m + 1, g)
      BY <2>5, <2>6, <2>7
    <2> QED BY <2>8
  <1> HIDE DEF Defined
  <1>3. n \in Defined
    BY <1>1, <1>2, NatSetInduction
  <1> QED BY <1>3 DEF Defined

\* A set of numbers with a member has a smallest one.
LEMMA Smallest ==
    ASSUME NEW S \in SUBSET Nat, S # {}
    PROVE  \E m \in S : \A k \in S : m <= k
  <1> SUFFICES ASSUME \A m \in S : \E k \in S : ~(m <= k)
               PROVE  FALSE
    OBVIOUS
  <1> DEFINE Above == {n \in Nat : \A k \in S : k > n}
  <1>1. 0 \in Above
    <2> SUFFICES ASSUME NEW k \in S
                 PROVE  k > 0
      OBVIOUS
    <2>1. PICK l \in S : ~(k <= l)
      OBVIOUS
    <2> QED BY <2>1
  <1>2. \A n \in Nat : n \in Above => n + 1 \in Above
    <2> SUFFICES ASSUME NEW n \in Nat, n \in Above, NEW k \in S
                 PROVE  k > n + 1
      OBVIOUS
    <2>1. PICK l \in S : ~(k <= l)
      OBVIOUS
    <2>2. l > n /\ k \in Nat /\ l \in Nat
      OBVIOUS
    <2> QED BY <2>1, <2>2
  <1> HIDE DEF Above
  <1>3. \A n \in Nat : n \in Above
    BY <1>1, <1>2, NatSetInduction
  <1>4. PICK k \in S : TRUE
    OBVIOUS
  <1> QED BY <1>3, <1>4 DEF Above

\* A bounded set of numbers with a member has a largest one.
LEMMA Largest ==
    ASSUME NEW S \in SUBSET Nat, S # {}, NEW b \in Nat, \A k \in S : k <= b
    PROVE  \E m \in S : \A k \in S : k <= m
  <1> DEFINE T == {b - k : k \in S}
  <1>0. \A k \in S : k \in Nat /\ b - k \in Nat
    OBVIOUS
  <1>1. T \in SUBSET Nat /\ T # {}
    BY <1>0
  <1>2. PICK t \in T : \A u \in T : t <= u
    <2> HIDE DEF T
    <2> QED BY <1>1, Smallest
  <1>3. PICK m \in S : t = b - m
    OBVIOUS
  <1>4. \A k \in S : b - m <= b - k
    BY <1>2, <1>3
  <1> HIDE DEF T
  <1>5. \A k \in S : k <= m
    BY <1>0, <1>4
  <1> QED BY <1>5
=============================================================================
