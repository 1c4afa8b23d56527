----------------------------- MODULE PagesProofs -----------------------------
(***************************************************************************)
(* What the operators of Pages compute, for every heap: the walk along a   *)
(* chain of pages ends, visits what is reachable and nothing else, and the *)
(* pages that alloc_page and append_page leave.                            *)
(***************************************************************************)
EXTENDS Pages, Induction

-----------------------------------------------------------------------------
(* Walks along next pointers. *)

\* The next pointers of a heap lead to pages, or are 0.
Linked(pages) ==
    /\ IsFiniteSet(DOMAIN pages)
    /\ \A p \in DOMAIN pages : pages[p].next \in DOMAIN pages \cup {0}

-----------------------------------------------------------------------------
(* The recursion of Chain. *)

\* One step of the walk
NextOf(pages, sofar) == pages[Last(sofar)].next
Walked(pages, f, sofar) ==
    IF NextOf(pages, sofar) = 0 \/ NextOf(pages, sofar) \in ToSet(sofar) THEN sofar
    ELSE f[Append(sofar, NextOf(pages, sofar))]

Walks(pages) == Seq(DOMAIN pages) \ {<<>>}

\* How many pages a walk has not seen
Unseen(pages, sofar) == Cardinality(DOMAIN pages \ ToSet(sofar))
WalksWith(pages, m) == {s \in Walks(pages) : Unseen(pages, s) <= m}

LEMMA NextIsPage ==
    ASSUME NEW pages, Linked(pages), NEW s \in Walks(pages)
    PROVE  /\ Len(s) \in Nat \ {0} /\ Last(s) \in DOMAIN pages /\ Last(s) \in ToSet(s)
           /\ NextOf(pages, s) \in DOMAIN pages \cup {0}
           /\ Unseen(pages, s) \in Nat
           /\ ToSet(s) \subseteq DOMAIN pages
  <1>1. s \in Seq(DOMAIN pages) /\ s # <<>>
    BY DEF Walks
  <1>2. Len(s) \in Nat \ {0} /\ Len(s) \in DOMAIN s
    BY <1>1
  <1>3. Last(s) \in DOMAIN pages /\ Last(s) \in ToSet(s)
    BY <1>1, <1>2 DEF Last, ToSet
  <1>4. IsFiniteSet(DOMAIN pages \ ToSet(s))
    BY FS_Subset DEF Linked
  <1>5. ToSet(s) \subseteq DOMAIN pages
    BY <1>1 DEF ToSet
  <1> QED BY <1>2, <1>3, <1>4, <1>5, FS_CardinalityType DEF Linked, NextOf, Unseen

\* A page that is new to a walk makes it one longer.
LEMMA OneMore ==
    ASSUME NEW pages, Linked(pages), NEW s \in Walks(pages),
           NEW x \in DOMAIN pages, x \notin ToSet(s)
    PROVE  /\ Append(s, x) \in Walks(pages)
           /\ ToSet(Append(s, x)) = ToSet(s) \cup {x}
           /\ Unseen(pages, Append(s, x)) = Unseen(pages, s) - 1
  <1>1. s \in Seq(DOMAIN pages) /\ Len(s) \in Nat
    BY DEF Walks
  <1>2. Append(s, x) \in Walks(pages)
    BY <1>1 DEF Walks
  <1>3. ToSet(Append(s, x)) = ToSet(s) \cup {x}
    <2> DEFINE t == Append(s, x)
    <2>1. /\ DOMAIN t = 1 .. Len(s) + 1 /\ DOMAIN s = 1 .. Len(s)
          /\ \A i \in 1 .. Len(s) : t[i] = s[i]
          /\ t[Len(s) + 1] = x
      BY <1>1
    <2> HIDE DEF t
    <2>2. DOMAIN t = DOMAIN s \cup {Len(s) + 1}
      BY <1>1, <2>1
    <2> QED BY <2>1, <2>2 DEF ToSet, t
  <1>4. DOMAIN pages \ ToSet(Append(s, x)) = (DOMAIN pages \ ToSet(s)) \ {x}
    BY <1>3
  <1>5. IsFiniteSet(DOMAIN pages \ ToSet(s)) /\ x \in DOMAIN pages \ ToSet(s)
    BY FS_Subset DEF Linked
  <1> QED BY <1>2, <1>3, <1>4, <1>5, FS_RemoveElement DEF Unseen

LEMMA WalkExists ==
    ASSUME NEW pages, Linked(pages)
    PROVE  \E f : f = [sofar \in Walks(pages) |-> Walked(pages, f, sofar)]
  <1> DEFINE W(m) == WalksWith(pages, m)
             Defined == {m \in Nat : \E f : f = [s \in W(m) |-> Walked(pages, f, s)]}
  <1>1. \A m \in Nat : \A s \in W(m) : s \in Walks(pages)
    BY DEF WalksWith
  \* A step from W(m + 1) leads into W(m)
  <1>2. ASSUME NEW m \in Nat, NEW s \in W(m + 1),
               NextOf(pages, s) # 0, NextOf(pages, s) \notin ToSet(s)
        PROVE  Append(s, NextOf(pages, s)) \in W(m)
    <2>1. s \in Walks(pages) /\ Unseen(pages, s) <= m + 1
      BY DEF WalksWith
    <2>2. NextOf(pages, s) \in DOMAIN pages
      BY <1>2, <2>1, NextIsPage
    <2>3. Unseen(pages, s) \in Nat
      BY <2>1, NextIsPage
    <2> QED BY <1>2, <2>1, <2>2, <2>3, OneMore DEF WalksWith
  <1>3. 0 \in Defined
    <2> DEFINE f == [s \in W(0) |-> s]
    <2>1. ASSUME NEW s \in W(0)
          PROVE  NextOf(pages, s) = 0 \/ NextOf(pages, s) \in ToSet(s)
      <3>1. s \in Walks(pages) /\ Unseen(pages, s) <= 0
        BY DEF WalksWith
      <3>2. Unseen(pages, s) = 0
        BY <3>1, NextIsPage
      <3>3. IsFiniteSet(DOMAIN pages \ ToSet(s))
        BY FS_Subset DEF Linked
      <3>4. DOMAIN pages \ ToSet(s) = {}
        BY <3>2, <3>3, FS_EmptySet DEF Unseen
      <3> QED BY <3>1, <3>4, NextIsPage
    <2>2. f = [s \in W(0) |-> Walked(pages, f, s)]
      BY <2>1 DEF Walked
    <2> QED BY <2>2
  <1>4. \A m \in Nat : m \in Defined => m + 1 \in Defined
    <2> SUFFICES ASSUME NEW m \in Nat, m \in Defined
                 PROVE  m + 1 \in Defined
      OBVIOUS
    <2>1. PICK f : f = [s \in W(m) |-> Walked(pages, f, s)]
      OBVIOUS
    <2> DEFINE g == [s \in W(m + 1) |-> IF s \in W(m) THEN f[s] ELSE Walked(pages, f, s)]
    <2>2. W(m) \subseteq W(m + 1)
      BY NextIsPage DEF WalksWith
    <2>3. \A s \in W(m) : g[s] = f[s]
      BY <2>2
    <2>4. ASSUME NEW s \in W(m + 1)
          PROVE  Walked(pages, g, s) = Walked(pages, f, s)
      BY <1>2, <2>3, <2>4 DEF Walked
    <2>5. ASSUME NEW s \in W(m + 1)
          PROVE  g[s] = Walked(pages, f, s)
      <3>1. CASE s \in W(m)
        <4>1. g[s] = f[s]
          BY <2>3, <3>1
        <4>2. f[s] = [t \in W(m) |-> Walked(pages, f, t)][s]
          BY <2>1
        <4> HIDE DEF g
        <4> QED BY <3>1, <4>1, <4>2
      <3>2. CASE s \notin W(m)
        BY <3>2
      <3> QED BY <3>1, <3>2
    <2>6. g = [s \in W(m + 1) |-> Walked(pages, g, s)]
      <3>1. g = [s \in W(m + 1) |-> g[s]]
        OBVIOUS
      <3> HIDE DEF g
      <3> QED BY <2>4, <2>5, <3>1
    <2> HIDE DEF g, W
    <2>7. \E h : h = [s \in W(m + 1) |-> Walked(pages, h, s)]
      BY <2>6
    <2> QED BY <2>7
  <1> DEFINE n == Cardinality(DOMAIN pages)
  <1>5. n \in Nat
    BY FS_CardinalityType DEF Linked
  <1>6. W(n) = Walks(pages)
    <2> SUFFICES ASSUME NEW s \in Walks(pages)
                 PROVE  Unseen(pages, s) <= n
      BY DEF WalksWith
    <2> QED BY FS_Subset DEF Linked, Unseen
  <1>7. n \in Defined
    <2> HIDE DEF Defined, n
    <2> QED BY <1>3, <1>4, <1>5, NatSetInduction
  <1> QED BY <1>6, <1>7

LEMMA ChainIsWalk ==
    ASSUME NEW pages, Linked(pages), NEW head, head # 0
    PROVE  \E f : /\ f = [sofar \in Walks(pages) |-> Walked(pages, f, sofar)]
                 /\ Chain(pages, head) = f[<<head>>]
  <1> DEFINE follow == CHOOSE f : f = [sofar \in Walks(pages) |-> Walked(pages, f, sofar)]
  <1>1. follow = [sofar \in Walks(pages) |-> Walked(pages, follow, sofar)]
    BY WalkExists, Zenon
  <1>2. Chain(pages, head) = follow[<<head>>]
    BY DEF Chain, Walks, Walked, NextOf
  <1> HIDE DEF follow
  <1> QED BY <1>1, <1>2

-----------------------------------------------------------------------------
(* What a chain is. *)

\* A walk from head along the next pointers that meets no page twice
WalkFrom(pages, head, s) ==
    /\ s \in Walks(pages) /\ s[1] = head
    /\ \A k \in 1 .. Len(s) - 1 : s[k + 1] = pages[s[k]].next /\ s[k + 1] # 0
    /\ \A j, k \in DOMAIN s : s[j] = s[k] => j = k

\* The chain of a head is the longest of them.
LEMMA ChainFacts ==
    ASSUME NEW pages, Linked(pages), NEW head \in DOMAIN pages, head # 0
    PROVE  /\ WalkFrom(pages, head, Chain(pages, head))
           /\ NextOf(pages, Chain(pages, head)) \in ToSet(Chain(pages, head)) \cup {0}
  <1> DEFINE Whole(s) == /\ WalkFrom(pages, head, s)
                         /\ NextOf(pages, s) \in ToSet(s) \cup {0}
  <1>1. PICK f : /\ f = [sofar \in Walks(pages) |-> Walked(pages, f, sofar)]
                 /\ Chain(pages, head) = f[<<head>>]
    BY ChainIsWalk
  <1>2. \A s \in Walks(pages) : f[s] = Walked(pages, f, s)
    BY <1>1
  <1> DEFINE Followed ==
          {m \in Nat : \A s \in WalksWith(pages, m) : WalkFrom(pages, head, s) => Whole(f[s])}
  <1>3. ASSUME NEW s \in Walks(pages), WalkFrom(pages, head, s),
               NextOf(pages, s) # 0, NextOf(pages, s) \notin ToSet(s)
        PROVE  WalkFrom(pages, head, Append(s, NextOf(pages, s)))
    <2> DEFINE x == NextOf(pages, s)
               t == Append(s, x)
    <2>1. x \in DOMAIN pages /\ t \in Walks(pages)
      BY <1>3, NextIsPage, OneMore
    <2>2. /\ s \in Seq(DOMAIN pages) /\ Len(s) \in Nat \ {0}
          /\ DOMAIN s = 1 .. Len(s)
      BY NextIsPage DEF Walks
    <2>3. /\ DOMAIN t = 1 .. Len(s) + 1 /\ Len(t) = Len(s) + 1
          /\ \A i \in 1 .. Len(s) : t[i] = s[i]
          /\ t[Len(s) + 1] = x
      BY <2>2
    <2>4. x = pages[s[Len(s)]].next
      BY DEF NextOf, Last
    <2>5. \A i \in DOMAIN s : s[i] # x
      BY <1>3 DEF ToSet
    <2> HIDE DEF x, t
    <2>6. t[1] = head
      BY <1>3, <2>2, <2>3 DEF WalkFrom
    <2>7. \A k \in 1 .. Len(t) - 1 : t[k + 1] = pages[t[k]].next /\ t[k + 1] # 0
      <3> TAKE k \in 1 .. Len(t) - 1
      <3>1. CASE k = Len(s)
        BY <1>3, <2>2, <2>3, <2>4, <3>1 DEF x
      <3>2. CASE k # Len(s)
        <4> DEFINE n == Len(s)
        <4> DEFINE l == Len(t)
        <4>0. n \in Nat /\ l = n + 1 /\ k \in 1 .. l - 1 /\ k # n
          BY <2>2, <2>3, <3>2
        <4> HIDE DEF n, l
        <4>1. k \in 1 .. n - 1 /\ k \in 1 .. n /\ k + 1 \in 1 .. n
          BY ONLY <4>0
        <4> USE DEF n
        <4> QED BY <1>3, <2>3, <4>1 DEF WalkFrom
      <3> QED BY <3>1, <3>2
    <2>8. \A j, k \in DOMAIN t : t[j] = t[k] => j = k
      <3>1. \A j \in DOMAIN t : j \in DOMAIN s \/ j = Len(s) + 1
        BY <2>2, <2>3
      <3> QED BY <1>3, <2>2, <2>3, <2>5, <3>1 DEF WalkFrom
    <2>9. WalkFrom(pages, head, t)
      BY <2>1, <2>6, <2>7, <2>8 DEF WalkFrom
    <2> QED BY <2>9 DEF t, x
  <1>4. ASSUME NEW s \in Walks(pages), WalkFrom(pages, head, s),
               NextOf(pages, s) = 0 \/ NextOf(pages, s) \in ToSet(s)
        PROVE  Whole(f[s])
    <2>1. f[s] = s
      BY <1>2, <1>4 DEF Walked
    <2> QED BY <1>4, <2>1
  <1>5. 0 \in Followed
    <2> SUFFICES ASSUME NEW s \in Walks(pages), Unseen(pages, s) <= 0,
                        WalkFrom(pages, head, s)
                 PROVE  Whole(f[s])
      BY DEF WalksWith
    <2>1. Unseen(pages, s) = 0
      BY NextIsPage
    <2>2. IsFiniteSet(DOMAIN pages \ ToSet(s))
      BY FS_Subset DEF Linked
    <2>3. DOMAIN pages \ ToSet(s) = {}
      BY <2>1, <2>2, FS_EmptySet DEF Unseen
    <2>4. NextOf(pages, s) = 0 \/ NextOf(pages, s) \in ToSet(s)
      BY <2>3, NextIsPage
    <2> HIDE DEF Whole
    <2> QED BY <1>4, <2>4
  <1>6. \A m \in Nat : m \in Followed => m + 1 \in Followed
    <2> SUFFICES ASSUME NEW m \in Nat, m \in Followed,
                        NEW s \in Walks(pages), Unseen(pages, s) <= m + 1,
                        WalkFrom(pages, head, s)
                 PROVE  Whole(f[s])
      BY DEF WalksWith
    <2> DEFINE x == NextOf(pages, s)
    <2>1. CASE x = 0 \/ x \in ToSet(s)
      <3> HIDE DEF Whole
      <3> QED BY <1>4, <2>1
    <2>2. CASE x # 0 /\ x \notin ToSet(s)
      <3>1. x \in DOMAIN pages /\ Unseen(pages, s) \in Nat
        BY <2>2, NextIsPage
      <3>2. Append(s, x) \in WalksWith(pages, m)
        BY <2>2, <3>1, OneMore DEF WalksWith
      <3>3. WalkFrom(pages, head, Append(s, x))
        BY <1>3, <2>2
      <3>4. f[s] = f[Append(s, x)]
        BY <1>2, <2>2 DEF Walked
      <3> HIDE DEF Whole, x
      <3> QED BY <3>2, <3>3, <3>4
    <2> QED BY <2>1, <2>2
  <1> HIDE DEF Whole
  <1>7. /\ <<head>> \in Walks(pages) /\ WalkFrom(pages, head, <<head>>)
    BY DEF Walks, WalkFrom
  <1>8. Unseen(pages, <<head>>) \in Nat
    BY <1>7, NextIsPage
  <1>9. Unseen(pages, <<head>>) \in Followed
    <2> HIDE DEF Followed
    <2> QED BY <1>5, <1>6, <1>8, NatSetInduction
  <1>10. Whole(f[<<head>>])
    BY <1>7, <1>8, <1>9 DEF WalksWith
  <1> QED BY <1>1, <1>10 DEF Whole

\* The pages of a chain are those that the next pointers reach: they are closed
\* under next, and every other set with the head that is closed has them all.
LEMMA ChainReaches ==
    ASSUME NEW pages, Linked(pages), NEW head \in DOMAIN pages, head # 0
    PROVE  LET S == ToSet(Chain(pages, head))
           IN  /\ head \in S /\ S \subseteq DOMAIN pages \ {0}
               /\ \A p \in S : pages[p].next \in S \cup {0}
               /\ Last(Chain(pages, head)) \in S
               /\ \A k \in DOMAIN Chain(pages, head) : Chain(pages, head)[k] \in S
               /\ \A D : head \in D /\ (\A p \in D : pages[p].next \in D \cup {0}) => S \subseteq D
  <1> DEFINE c == Chain(pages, head)
             S == ToSet(c)
  <1>1. WalkFrom(pages, head, c) /\ NextOf(pages, c) \in S \cup {0}
    BY ChainFacts
  <1> HIDE DEF c
  <1>2. /\ c \in Walks(pages) /\ Len(c) \in Nat \ {0} /\ Last(c) \in S
        /\ S \subseteq DOMAIN pages /\ DOMAIN c = 1 .. Len(c)
    BY <1>1, NextIsPage DEF WalkFrom, Walks
  <1>3. \A k \in 1 .. Len(c) : c[k] \in S
    BY <1>2 DEF ToSet
  <1>4. \A p \in S : \E k \in 1 .. Len(c) : p = c[k]
    BY <1>2 DEF ToSet
  <1>5. \A k \in 1 .. Len(c) : c[k] # 0
    <2> TAKE k \in 1 .. Len(c)
    <2>1. CASE k = 1
      BY <1>1, <2>1 DEF WalkFrom
    <2>2. CASE k # 1
      <3>1. k - 1 \in 1 .. Len(c) - 1 /\ (k - 1) + 1 = k
        BY <1>2, <2>2
      <3> QED BY <1>1, <3>1 DEF WalkFrom
    <2> QED BY <2>1, <2>2
  <1>6. head \in S
    <2>1. 1 \in 1 .. Len(c)
      BY <1>2
    <2> QED BY <1>1, <1>3, <2>1 DEF WalkFrom
  <1>7. \A p \in S : pages[p].next \in S \cup {0}
    <2> TAKE p \in S
    <2>1. PICK k \in 1 .. Len(c) : p = c[k]
      BY <1>4
    <2>2. CASE k = Len(c)
      BY <1>1, <2>1, <2>2 DEF NextOf, Last
    <2>3. CASE k # Len(c)
      <3> DEFINE n == Len(c)
      <3>0. n \in Nat /\ k \in 1 .. n /\ k # n
        BY <1>2, <2>3
      <3> HIDE DEF n
      <3>1. k \in 1 .. n - 1 /\ k + 1 \in 1 .. n
        BY ONLY <3>0
      <3> USE DEF n
      <3> QED BY <1>1, <1>3, <2>1, <3>1 DEF WalkFrom
    <2> QED BY <2>2, <2>3
  <1>8. ASSUME NEW D, head \in D, \A p \in D : pages[p].next \in D \cup {0}
        PROVE  S \subseteq D
    <2> DEFINE In == {n \in Nat : n + 1 \in 1 .. Len(c) => c[n + 1] \in D}
    <2>1. 0 \in In
      BY <1>1, <1>8 DEF WalkFrom
    <2>2. \A n \in Nat : n \in In => n + 1 \in In
      <3> SUFFICES ASSUME NEW n \in Nat, n \in In, (n + 1) + 1 \in 1 .. Len(c)
                   PROVE  c[(n + 1) + 1] \in D
        OBVIOUS
      <3>1. n + 1 \in 1 .. Len(c) - 1 /\ n + 1 \in 1 .. Len(c)
        BY <1>2
      <3>2. c[(n + 1) + 1] = pages[c[n + 1]].next /\ c[(n + 1) + 1] # 0
        BY <1>1, <3>1 DEF WalkFrom
      <3> QED BY <1>8, <3>1, <3>2
    <2> HIDE DEF In
    <2>3. \A n \in Nat : n \in In
      BY <2>1, <2>2, NatSetInduction
    <2>4. \A k \in 1 .. Len(c) : k - 1 \in Nat /\ (k - 1) + 1 = k
      BY <1>2
    <2>5. \A k \in 1 .. Len(c) : c[k] \in D
      BY <2>3, <2>4 DEF In
    <2> QED BY <1>4, <2>5
  <1> HIDE DEF S
  <1>9. S \subseteq DOMAIN pages \ {0}
    BY <1>2, <1>4, <1>5
  <1>10. \A k \in DOMAIN c : c[k] \in S
    BY <1>2, <1>3
  <1> QED BY <1>2, <1>6, <1>7, <1>8, <1>9, <1>10 DEF S, c
=============================================================================
