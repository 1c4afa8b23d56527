-------------------------- MODULE ChatChainsProofs --------------------------
(***************************************************************************)
(* The chains of the chat log: that every page has one owner, that the     *)
(* tips and the rings agree with what a walk of the pages reads, and that  *)
(* what it reads is the log of the calls.                                  *)
(*                                                                         *)
(* The invariant, Chains, has for the freelist and for each chat the       *)
(* sequence of its pages.  The lemmas before it follow the page algorithms *)
(* of ChatPages through these sequences: a page taken, linked, filled,     *)
(* freed; a trim; an open, which sorts them.                               *)
(***************************************************************************)
EXTENDS ChatEngineProofs

\* Induction over sequences, for a set of them
LEMMA SeqSetInduction ==
    ASSUME NEW T, NEW S, <<>> \in S,
           \A s \in Seq(T), x \in T : s \in S => Append(s, x) \in S
    PROVE  \A s \in Seq(T) : s \in S
  <1> DEFINE N == {k \in Nat : \A s \in Seq(T) : Len(s) = k => s \in S}
  <1>1. 0 \in N
    <2>1. \A s \in Seq(T) : Len(s) = 0 => s = <<>>
      OBVIOUS
    <2> QED BY <2>1
  <1>2. \A k \in Nat : k \in N => k + 1 \in N
    <2> SUFFICES ASSUME NEW k \in Nat, k \in N, NEW s \in Seq(T), Len(s) = k + 1
                 PROVE  s \in S
      OBVIOUS
    <2> DEFINE t == SubSeq(s, 1, k)
               x == s[k + 1]
    <2>1. t \in Seq(T) /\ Len(t) = k /\ x \in T
      OBVIOUS
    <2>2. s = Append(t, x)
      OBVIOUS
    <2>3. t \in S
      BY <2>1
    <2> HIDE DEF t, x
    <2> QED BY <2>1, <2>2, <2>3
  <1> HIDE DEF N
  <1>3. \A k \in Nat : k \in N
    BY <1>1, <1>2, NatSetInduction
  <1> QED BY <1>3 DEF N

\* The pages that next pointers connect, from first to last
Path(h, s) == \A k \in DOMAIN s : h[s[k]].next = IF k = Len(s) THEN 0 ELSE s[k + 1]

\* A sequence of distinct pages that next pointers connect is what the walk visits.
LEMMA PathIsChain ==
    ASSUME NEW n \in Nat, n >= ROOT_PAGES, NEW h \in Heap(n), NEW s \in Seq(New(n)),
           s # <<>>, Path(h, s), Distinct(s)
    PROVE  Chain(h, s[1]) = s
  <1> DEFINE head == s[1]
             c == Chain(h, head)
  <1>1. Len(s) \in Nat /\ Len(s) > 0 /\ DOMAIN s = 1 .. Len(s) /\ \A k \in 1 .. Len(s) : s[k] \in New(n)
    OBVIOUS
  <1>2. head \in New(n)
    BY <1>1
  <1>3. DOMAIN h = Ids(n) /\ head \in DOMAIN h /\ head # 0 /\ Linked(h) /\ 0 \notin New(n)
    BY <1>2, HeapFacts, IdFacts, HeapLinked
  <1>4. WalkFrom(h, head, c) /\ NextOf(h, c) \in ToSet(c) \cup {0}
    BY <1>3, ChainFacts
  <1> HIDE DEF c
  <1>5. /\ c \in Seq(Ids(n)) /\ Len(c) \in Nat /\ Len(c) > 0 /\ c[1] = s[1]
        /\ \A k \in 1 .. Len(c) - 1 : c[k + 1] = h[c[k]].next /\ c[k + 1] # 0
    BY <1>3, <1>4 DEF WalkFrom, Walks
  <1>6. \A k \in 1 .. Len(s) : h[s[k]].next = IF k = Len(s) THEN 0 ELSE s[k + 1]
    BY <1>1 DEF Path
  <1> DEFINE ls == Len(s)
             lc == Len(c)
             Same == {k \in Nat : k + 1 <= lc => k + 1 <= ls /\ c[k + 1] = s[k + 1]}
  <1>7. ls \in Nat /\ ls > 0 /\ lc \in Nat /\ lc > 0
    BY <1>1, <1>5
  <1>8. 0 \in Same
    BY <1>5, <1>7
  <1>9. \A k \in Nat : k \in Same => k + 1 \in Same
    <2> SUFFICES ASSUME NEW k \in Nat, k \in Same, (k + 1) + 1 <= lc
                 PROVE  (k + 1) + 1 <= ls /\ c[(k + 1) + 1] = s[(k + 1) + 1]
      OBVIOUS
    <2> HIDE DEF ls, lc
    <2>1. k + 1 \in 1 .. lc - 1 /\ k + 1 <= lc
      BY <1>7
    <2>2. k + 1 <= ls /\ c[k + 1] = s[k + 1] /\ k + 1 \in 1 .. ls
      BY <1>7, <2>1
    <2>3. c[(k + 1) + 1] = h[s[k + 1]].next /\ c[(k + 1) + 1] # 0
      BY <1>5, <2>1, <2>2 DEF lc
    <2>4. k + 1 # ls /\ h[s[k + 1]].next = s[(k + 1) + 1]
      BY <1>6, <2>2, <2>3 DEF ls
    <2> QED BY <1>7, <2>2, <2>3, <2>4
  <1> HIDE DEF ls, lc
  <1>10. \A k \in Nat : k \in Same
    <2> HIDE DEF Same
    <2> QED BY <1>8, <1>9, NatSetInduction
  <1>11. \A k \in 1 .. lc : k <= ls /\ c[k] = s[k]
    <2> TAKE k \in 1 .. lc
    <2>1. k - 1 \in Same /\ (k - 1) + 1 = k
      BY <1>7, <1>10
    <2> QED BY <2>1
  <1>12. lc <= ls
    BY <1>7, <1>11
  <1>13. lc = ls
    <2> SUFFICES ASSUME lc < ls PROVE FALSE
      BY <1>7, <1>12
    <2>1. NextOf(h, c) = h[s[lc]].next
      BY <1>7, <1>11 DEF NextOf, Last, lc
    <2>2. lc \in 1 .. ls /\ lc # ls /\ lc + 1 \in 1 .. ls
      BY <1>7
    <2>3. NextOf(h, c) = s[lc + 1] /\ s[lc + 1] \in New(n)
      BY <1>1, <1>6, <2>1, <2>2 DEF ls
    <2>4. NextOf(h, c) \in ToSet(c)
      BY <1>3, <1>4, <2>3
    <2>5. PICK j \in 1 .. lc : c[j] = s[lc + 1]
      BY <1>5, <2>3, <2>4, SMTT(30) DEF ToSet, lc
    <2>6. j \in 1 .. ls /\ j # lc + 1 /\ s[j] = s[lc + 1]
      BY <1>7, <1>11, <2>2, <2>5
    <2>7. j \in DOMAIN s /\ lc + 1 \in DOMAIN s
      BY <1>1, <2>2, <2>6 DEF ls
    <2> QED BY <2>6, <2>7 DEF Distinct
  <1>14. Len(c) = Len(s) /\ \A k \in 1 .. Len(c) : c[k] = s[k]
    BY <1>11, <1>13 DEF lc, ls
  <1>15. c = s
    <2>1. s \in Seq(Ids(n))
      BY <1>1, IdFacts
    <2> HIDE DEF c
    <2> QED BY <1>5, <1>14, <2>1
  <1> QED BY <1>15 DEF c, head

\* Pointer 0 leads nowhere.
LEMMA NoChain == ASSUME NEW h PROVE Chain(h, 0) = <<>>
  BY DEF Chain

-----------------------------------------------------------------------------
(* What a walk reads. *)

\* The rows of some pages, one page after the other
ReadOf(pages, chain) ==
    LET rows[k \in 0 .. Len(chain)] ==
            IF k = 0 THEN <<>> ELSE rows[k - 1] \o pages[chain[k]].rows
    IN  rows[Len(chain)]

\* What chat_recent collects is the rows of the pages of the walk, in its order.
LEMMA ReadIs == ASSUME NEW h, NEW head PROVE ReadChain(h, head) = ReadOf(h, Chain(h, head))
  BY DEF ReadChain, ReadOf

RowsIn(h, P) == \A p \in P : h[p].rows \in Seq(Message)

ReadUpto(h, s, m, r) ==
    r[0] = <<>> /\ \A k \in 1 .. m : r[k] = r[k - 1] \o h[s[k]].rows
ReadSteps(h, s, r) == r \in [0 .. Len(s) -> Seq(Message)] /\ ReadUpto(h, s, Len(s), r)

\* Reading is a recursion along the pages,
LEMMA ReadUnfolds ==
    ASSUME NEW P, NEW h, RowsIn(h, P), NEW s \in Seq(P)
    PROVE  \E r : ReadSteps(h, s, r) /\ ReadOf(h, s) = r[Len(s)]
  <1> DEFINE len == Len(s)
             part(k) == h[s[k]].rows
             W == Seq(Message)
             step == [k \in 1 .. len |-> [v \in W |-> v \o part(k)]]
             nil == <<>>
             Sofar(k, g) == IF k = 0 THEN <<>> ELSE g[k - 1] \o part(k)
             rows == CHOOSE g : g = [k \in 0 .. len |-> Sofar(k, g)]
  <1>1. len \in Nat /\ \A k \in 1 .. len : s[k] \in P
    OBVIOUS
  <1>2. ReadOf(h, s) = rows[len]
    BY DEF ReadOf
  <1>3. \A k \in 1 .. len : part(k) \in W
    BY <1>1 DEF RowsIn
  <1> HIDE DEF part, len
  <1>4. step \in [1 .. len -> [W -> W]] /\ nil \in W
    BY <1>3
  <1>5. PICK f : Steps(W, nil, len, step, f)
    <2> HIDE DEF W, step, nil
    <2>1. Steppable(W, nil, len, step)
      BY <1>1, <1>4 DEF Steppable
    <2> QED BY <2>1, StepsExist
  <1>6. f \in [0 .. len -> W] /\ f[0] = nil /\ \A k \in 1 .. len : f[k] = f[k - 1] \o part(k)
    <2>1. f \in [0 .. len -> W] /\ f[0] = nil /\ \A k \in 1 .. len : f[k] = step[k][f[k - 1]]
      BY <1>5 DEF Steps
    <2>2. \A k \in 1 .. len : f[k - 1] \in W
      BY <1>1, <2>1
    <2> HIDE DEF W
    <2>3. \A k \in 1 .. len : step[k][f[k - 1]] = f[k - 1] \o part(k)
      BY <2>2
    <2> QED BY <2>1, <2>3
  <1>7. f = [k \in 0 .. len |-> Sofar(k, f)]
    <2>1. \A k \in 0 .. len : f[k] = Sofar(k, f)
      <3> TAKE k \in 0 .. len
      <3>1. CASE k = 0
        BY <1>6, <3>1
      <3>2. CASE k # 0
        <4>1. k \in 1 .. len
          BY <1>1, <3>2
        <4> QED BY <1>6, <3>2, <4>1
      <3> QED BY <3>1, <3>2
    <2>2. f = [k \in 0 .. len |-> f[k]]
      BY <1>6
    <2> HIDE DEF Sofar
    <2> QED BY <2>1, <2>2
  <1>8. rows = [k \in 0 .. len |-> Sofar(k, rows)]
    <2> HIDE DEF Sofar
    <2> QED BY <1>7, Zenon
  <1> HIDE DEF rows
  <1>9. \A k \in 0 .. len : rows[k] = Sofar(k, rows)
    <2> HIDE DEF Sofar
    <2> QED BY <1>8
  <1> DEFINE Same == {k \in Nat : k <= len => rows[k] = f[k]}
  <1>10. 0 \in Same
    BY <1>1, <1>6, <1>9
  <1>11. \A k \in Nat : k \in Same => k + 1 \in Same
    <2> SUFFICES ASSUME NEW k \in Nat, k \in Same, k + 1 <= len
                 PROVE  rows[k + 1] = f[k + 1]
      OBVIOUS
    <2>1. k + 1 \in 1 .. len /\ k + 1 \in 0 .. len /\ k + 1 # 0 /\ (k + 1) - 1 = k /\ rows[k] = f[k]
      BY <1>1
    <2>2. rows[k + 1] = rows[k] \o part(k + 1)
      BY <1>9, <2>1
    <2> QED BY <1>6, <2>1, <2>2
  <1>12. \A k \in Nat : k \in Same
    <2> HIDE DEF Same
    <2> QED BY <1>10, <1>11, NatSetInduction
  <1>13. rows[len] = f[len]
    BY <1>1, <1>12
  <1>14. ReadSteps(h, s, f)
    BY <1>6 DEF ReadSteps, ReadUpto, part, len
  <1> QED BY <1>2, <1>13, <1>14 DEF len

\* The equations determine what is read.
LEMMA ReadUnique ==
    ASSUME NEW P, NEW h, NEW s \in Seq(P), NEW r, ReadSteps(h, s, r),
           NEW m \in Nat, m <= Len(s),
           NEW q, ReadUpto(h, s, m, q)
    PROVE  q[m] = r[m]
  <1> DEFINE Same == {k \in Nat : k <= m => q[k] = r[k]}
  <1>1. Len(s) \in Nat /\ r[0] = <<>> /\ \A k \in 1 .. Len(s) : r[k] = r[k - 1] \o h[s[k]].rows
    BY DEF ReadSteps, ReadUpto
  <1>2. 0 \in Same
    BY <1>1 DEF ReadUpto
  <1>3. \A k \in Nat : k \in Same => k + 1 \in Same
    <2> SUFFICES ASSUME NEW k \in Nat, k \in Same, k + 1 <= m
                 PROVE  q[k + 1] = r[k + 1]
      OBVIOUS
    <2>1. k + 1 \in 1 .. m /\ k + 1 \in 1 .. Len(s) /\ (k + 1) - 1 = k /\ q[k] = r[k]
      BY <1>1
    <2> QED BY <1>1, <2>1 DEF ReadUpto
  <1>4. \A k \in Nat : k \in Same
    <2> HIDE DEF Same
    <2> QED BY <1>2, <1>3, NatSetInduction
  <1> QED BY <1>4

\* no page, no message,
LEMMA ReadNone == ASSUME NEW h PROVE ReadOf(h, <<>>) = <<>>
  <1>1. <<>> \in Seq({}) /\ RowsIn(h, {}) /\ Len(<<>>) = 0
    BY DEF RowsIn
  <1>2. PICK r : ReadSteps(h, <<>>, r) /\ ReadOf(h, <<>>) = r[Len(<<>>)]
    BY <1>1, ReadUnfolds
  <1> QED BY <1>1, <1>2 DEF ReadSteps, ReadUpto

\* a page more, its messages more.
LEMMA ReadMore ==
    ASSUME NEW P, NEW h, RowsIn(h, P), NEW s \in Seq(P), NEW p \in P
    PROVE  /\ ReadOf(h, s) \in Seq(Message)
           /\ ReadOf(h, Append(s, p)) = ReadOf(h, s) \o h[p].rows
  <1> DEFINE t == Append(s, p)
             len == Len(s)
  <1>1. /\ t \in Seq(P) /\ Len(t) = len + 1 /\ len \in Nat /\ t[len + 1] = p
        /\ \A k \in 1 .. len : t[k] = s[k]
    OBVIOUS
  <1> HIDE DEF t
  <1>2. PICK r : ReadSteps(h, s, r) /\ ReadOf(h, s) = r[len]
    BY ReadUnfolds
  <1>3. PICK q : ReadSteps(h, t, q) /\ ReadOf(h, t) = q[len + 1]
    BY <1>1, ReadUnfolds
  <1>4. q[0] = <<>> /\ \A k \in 1 .. len + 1 : q[k] = q[k - 1] \o h[t[k]].rows
    BY <1>1, <1>3 DEF ReadSteps, ReadUpto
  <1> HIDE DEF len
  <1>5. q[len] = r[len]
    <2>0. \A k \in 1 .. len : k \in 1 .. len + 1
      BY <1>1
    <2>1. \A k \in 1 .. len : q[k] = q[k - 1] \o h[s[k]].rows
      BY <1>1, <1>4, <2>0, Zenon
    <2>2. len <= Len(s) /\ len \in Nat
      BY <1>1 DEF len
    <2>3. ReadUpto(h, s, len, q) /\ ReadSteps(h, s, r)
      BY <1>2, <1>4, <2>1 DEF ReadUpto
    <2> QED BY ONLY s \in Seq(P), <2>2, <2>3, ReadUnique
  <1>6. q[len + 1] = q[len] \o h[p].rows
    <2>1. len + 1 \in 1 .. len + 1 /\ (len + 1) - 1 = len
      BY <1>1
    <2>2. q[len + 1] = q[(len + 1) - 1] \o h[t[len + 1]].rows
      BY <1>4, <2>1
    <2> QED BY <1>1, <2>1, <2>2
  <1>7. r[len] \in Seq(Message)
    <2>1. len \in 0 .. Len(s)
      BY <1>1 DEF len
    <2> QED BY <1>2, <2>1 DEF ReadSteps, ReadUpto
  <1> QED BY <1>2, <1>3, <1>5, <1>6, <1>7 DEF t, len

\* Only the rows of the pages read matter.
LEMMA ReadSame ==
    ASSUME NEW P, NEW h, NEW g, RowsIn(h, P), \A p \in P : g[p].rows = h[p].rows, NEW s \in Seq(P)
    PROVE  ReadOf(g, s) = ReadOf(h, s)
  <1> DEFINE S == {t \in Seq(P) : ReadOf(g, t) = ReadOf(h, t)}
  <1>1. <<>> \in S
    BY ReadNone
  <1>2. RowsIn(g, P)
    BY DEF RowsIn
  <1>3. \A t \in Seq(P), p \in P : t \in S => Append(t, p) \in S
    <2> SUFFICES ASSUME NEW t \in Seq(P), NEW p \in P, ReadOf(g, t) = ReadOf(h, t)
                 PROVE  Append(t, p) \in Seq(P) /\ ReadOf(g, Append(t, p)) = ReadOf(h, Append(t, p))
      OBVIOUS
    <2>1. ReadOf(g, Append(t, p)) = ReadOf(g, t) \o g[p].rows
      BY <1>2, ReadMore
    <2>2. ReadOf(h, Append(t, p)) = ReadOf(h, t) \o h[p].rows
      BY ONLY ReadMore, RowsIn(h, P), t \in Seq(P), p \in P
    <2>3. g[p].rows = h[p].rows
      OBVIOUS
    <2> QED BY <2>1, <2>2, <2>3
  <1> HIDE DEF S
  <1>4. \A t \in Seq(P) : t \in S
    BY <1>1, <1>3, SeqSetInduction
  <1> QED BY <1>4 DEF S

\* A row appended to the last of some pages is read last.
LEMMA ReadAppend ==
    ASSUME NEW P, NEW h, NEW g, RowsIn(h, P), NEW s \in Seq(P), s # <<>>, Distinct(s),
           NEW m \in Message, g[Last(s)].rows = Append(h[Last(s)].rows, m),
           \A p \in P : p # Last(s) => g[p].rows = h[p].rows
    PROVE  ReadOf(g, s) = Append(ReadOf(h, s), m)
  <1> DEFINE k == Len(s) - 1
             t == SubSeq(s, 1, k)
             p == Last(s)
             Q == P \ {p}
  <1>1. k \in Nat /\ t \in Seq(P) /\ Len(t) = k /\ p \in P /\ p = s[k + 1] /\ DOMAIN s = 1 .. k + 1
    <2>1. Len(s) \in Nat /\ Len(s) # 0 /\ DOMAIN s = 1 .. Len(s)
      OBVIOUS
    <2>2. k \in Nat /\ k + 1 = Len(s)
      BY <2>1
    <2>3. s[Len(s)] \in P
      BY <2>1
    <2>4. t \in Seq(P) /\ Len(t) = k
      BY <2>1, <2>2
    <2> QED BY <2>1, <2>2, <2>3, <2>4 DEF Last
  <1>2. s = Append(t, p)
    BY <1>1
  <1>3. \A i \in 1 .. k : t[i] = s[i] /\ t[i] # p
    <2> TAKE i \in 1 .. k
    <2> HIDE DEF k
    <2>1. i \in DOMAIN s /\ k + 1 \in DOMAIN s /\ i # k + 1
      BY <1>1
    <2>2. s[i] # s[k + 1]
      BY <2>1 DEF Distinct
    <2> QED BY <1>1, <2>2
  <1> HIDE DEF t, p, k
  <1>4. t \in Seq(Q)
    <2>1. \A i \in 1 .. Len(t) : t[i] \in Q
      BY <1>1, <1>3
    <2> QED BY <1>1, <2>1
  <1>5. /\ RowsIn(h, Q) /\ \A q \in Q : g[q].rows = h[q].rows
    BY DEF RowsIn, p
  <1>6. ReadOf(g, t) = ReadOf(h, t)
    BY <1>4, <1>5, ReadSame
  <1>7. RowsIn(g, P)
    <2>1. \A q \in P : g[q].rows \in Seq(Message)
      <3> TAKE q \in P
      <3>1. h[q].rows \in Seq(Message)
        BY DEF RowsIn
      <3>2. CASE q = p
        <4>1. g[q].rows = Append(h[q].rows, m)
          BY <3>2 DEF p
        <4> QED BY <3>1, <4>1
      <3>3. CASE q # p
        BY <3>1, <3>3 DEF p
      <3> QED BY <3>2, <3>3
    <2> QED BY <2>1 DEF RowsIn
  <1>8. /\ ReadOf(g, s) = ReadOf(g, t) \o g[p].rows
        /\ ReadOf(h, s) = ReadOf(h, t) \o h[p].rows /\ ReadOf(h, t) \in Seq(Message)
    <2>1. t \in Seq(P) /\ p \in P
      BY <1>1
    <2>2. ReadOf(g, Append(t, p)) = ReadOf(g, t) \o g[p].rows
      BY <1>7, <2>1, ReadMore
    <2>3. ReadOf(h, Append(t, p)) = ReadOf(h, t) \o h[p].rows /\ ReadOf(h, t) \in Seq(Message)
      BY <2>1, ReadMore
    <2> QED BY <1>2, <2>2, <2>3
  <1>9. g[p].rows = Append(h[p].rows, m) /\ h[p].rows \in Seq(Message)
    BY <1>1 DEF p, RowsIn
  <1>10. \A x, y \in Seq(Message) : x \o Append(y, m) = Append(x \o y, m)
    <2> SUFFICES ASSUME NEW x \in Seq(Message), NEW y \in Seq(Message)
                 PROVE  x \o Append(y, m) = Append(x \o y, m)
      OBVIOUS
    <2> QED OBVIOUS
  <1> QED BY <1>6, <1>8, <1>9, <1>10

-----------------------------------------------------------------------------
(* Rows without the messages of failed appends. *)

NotInUpto(s, gone, m, r) ==
    /\ r[0] = <<>>
    /\ \A k \in 1 .. m : r[k] = IF s[k] \in gone THEN r[k - 1] ELSE Append(r[k - 1], s[k])
NotInSteps(s, gone, r) ==
    r \in [0 .. Len(s) -> Seq(Message)] /\ NotInUpto(s, gone, Len(s), r)

\* Leaving the failed appends out is a recursion too,
LEMMA NotInUnfolds ==
    ASSUME NEW s \in Seq(Message), NEW gone
    PROVE  \E r : NotInSteps(s, gone, r) /\ NotIn(s, gone) = r[Len(s)]
  <1> DEFINE len == Len(s)
             W == Seq(Message)
             Next1(k, v) == IF s[k] \in gone THEN v ELSE Append(v, s[k])
             step == [k \in 1 .. len |-> [v \in W |-> Next1(k, v)]]
             nil == <<>>
             Sofar(k, g) == IF k = 0 THEN <<>>
                            ELSE IF s[k] \in gone THEN g[k - 1] ELSE Append(g[k - 1], s[k])
             rows == CHOOSE g : g = [k \in 0 .. len |-> Sofar(k, g)]
  <1>1. len \in Nat /\ \A k \in 1 .. len : s[k] \in Message
    OBVIOUS
  <1>2. NotIn(s, gone) = rows[len]
    BY DEF NotIn
  <1>3. \A k \in 1 .. len, v \in W : Next1(k, v) \in W
    BY <1>1
  <1> HIDE DEF len
  <1>4. step \in [1 .. len -> [W -> W]] /\ nil \in W
    <2>1. nil \in W
      OBVIOUS
    <2> HIDE DEF Next1, W
    <2> QED BY <1>3, <2>1
  <1>5. PICK f : Steps(W, nil, len, step, f)
    <2> HIDE DEF W, step, nil
    <2>1. Steppable(W, nil, len, step)
      BY <1>1, <1>4 DEF Steppable
    <2> QED BY <2>1, StepsExist
  <1>6. f \in [0 .. len -> W] /\ f[0] = nil /\ \A k \in 1 .. len : f[k] = Next1(k, f[k - 1])
    <2>1. f \in [0 .. len -> W] /\ f[0] = nil /\ \A k \in 1 .. len : f[k] = step[k][f[k - 1]]
      BY <1>5 DEF Steps
    <2>2. \A k \in 1 .. len : f[k - 1] \in W
      BY <1>1, <2>1
    <2> HIDE DEF W, Next1
    <2>3. \A k \in 1 .. len : step[k][f[k - 1]] = Next1(k, f[k - 1])
      BY <2>2
    <2> QED BY <2>1, <2>3
  <1>7. f = [k \in 0 .. len |-> Sofar(k, f)]
    <2>1. \A k \in 0 .. len : f[k] = Sofar(k, f)
      <3> TAKE k \in 0 .. len
      <3>1. CASE k = 0
        BY <1>6, <3>1
      <3>2. CASE k # 0
        <4>1. k \in 1 .. len
          BY <1>1, <3>2
        <4> QED BY <1>6, <3>2, <4>1
      <3> QED BY <3>1, <3>2
    <2>2. f = [k \in 0 .. len |-> f[k]]
      BY <1>6
    <2> HIDE DEF Sofar
    <2> QED BY <2>1, <2>2
  <1>8. rows = [k \in 0 .. len |-> Sofar(k, rows)]
    <2> HIDE DEF Sofar
    <2> QED BY <1>7, Zenon
  <1> HIDE DEF rows
  <1>9. \A k \in 0 .. len : rows[k] = Sofar(k, rows)
    <2> HIDE DEF Sofar
    <2> QED BY <1>8
  <1> DEFINE Same == {k \in Nat : k <= len => rows[k] = f[k]}
  <1>10. 0 \in Same
    BY <1>1, <1>6, <1>9
  <1>11. \A k \in Nat : k \in Same => k + 1 \in Same
    <2> SUFFICES ASSUME NEW k \in Nat, k \in Same, k + 1 <= len
                 PROVE  rows[k + 1] = f[k + 1]
      OBVIOUS
    <2>1. k + 1 \in 1 .. len /\ k + 1 \in 0 .. len /\ k + 1 # 0 /\ (k + 1) - 1 = k /\ rows[k] = f[k]
      BY <1>1
    <2>2. rows[k + 1] = Next1(k + 1, rows[k])
      BY <1>9, <2>1
    <2> HIDE DEF Next1
    <2> QED BY <1>6, <2>1, <2>2
  <1>12. \A k \in Nat : k \in Same
    <2> HIDE DEF Same
    <2> QED BY <1>10, <1>11, NatSetInduction
  <1>13. rows[len] = f[len]
    BY <1>1, <1>12
  <1>14. NotInSteps(s, gone, f)
    BY <1>6 DEF NotInSteps, NotInUpto, len
  <1> QED BY <1>2, <1>13, <1>14 DEF len

\* again the only one with its equations:
LEMMA NotInUnique ==
    ASSUME NEW s \in Seq(Message), NEW gone, NEW r, NotInSteps(s, gone, r),
           NEW m \in Nat, m <= Len(s), NEW q, NotInUpto(s, gone, m, q)
    PROVE  q[m] = r[m]
  <1> DEFINE Same == {k \in Nat : k <= m => q[k] = r[k]}
  <1>1. Len(s) \in Nat /\ NotInUpto(s, gone, Len(s), r)
    BY DEF NotInSteps
  <1>2. 0 \in Same
    BY <1>1 DEF NotInUpto
  <1>3. \A k \in Nat : k \in Same => k + 1 \in Same
    <2> SUFFICES ASSUME NEW k \in Nat, k \in Same, k + 1 <= m
                 PROVE  q[k + 1] = r[k + 1]
      OBVIOUS
    <2>1. k + 1 \in 1 .. m /\ k + 1 \in 1 .. Len(s) /\ (k + 1) - 1 = k /\ q[k] = r[k]
      BY <1>1
    <2> QED BY <1>1, <2>1 DEF NotInUpto
  <1>4. \A k \in Nat : k \in Same
    <2> HIDE DEF Same
    <2> QED BY <1>2, <1>3, NatSetInduction
  <1> QED BY <1>4

\* nothing of nothing,
LEMMA NotInNone == ASSUME NEW gone PROVE NotIn(<<>>, gone) = <<>>
  <1>1. <<>> \in Seq(Message) /\ Len(<<>>) = 0
    OBVIOUS
  <1>2. PICK r : NotInSteps(<<>>, gone, r) /\ NotIn(<<>>, gone) = r[Len(<<>>)]
    BY <1>1, NotInUnfolds
  <1> QED BY <1>1, <1>2 DEF NotInSteps, NotInUpto

\* one message more, unless it is to be left out.
LEMMA NotInMore ==
    ASSUME NEW s \in Seq(Message), NEW gone, NEW x \in Message
    PROVE  /\ NotIn(s, gone) \in Seq(Message)
           /\ NotIn(Append(s, x), gone) = IF x \in gone THEN NotIn(s, gone)
                                          ELSE Append(NotIn(s, gone), x)
  <1> DEFINE t == Append(s, x)
             len == Len(s)
  <1>1. /\ t \in Seq(Message) /\ Len(t) = len + 1 /\ len \in Nat /\ t[len + 1] = x
        /\ \A k \in 1 .. len : t[k] = s[k]
    OBVIOUS
  <1> HIDE DEF t
  <1>2. PICK r : NotInSteps(s, gone, r) /\ NotIn(s, gone) = r[len]
    BY NotInUnfolds
  <1>3. PICK q : NotInSteps(t, gone, q) /\ NotIn(t, gone) = q[len + 1]
    BY <1>1, NotInUnfolds
  <1>4. NotInUpto(t, gone, len + 1, q)
    BY <1>1, <1>3 DEF NotInSteps
  <1> HIDE DEF len
  <1>5. q[len] = r[len]
    <2>1. len <= Len(s) /\ len \in Nat
      BY <1>1 DEF len
    <2>2. \A k \in 1 .. len : k \in 1 .. len + 1
      BY <1>1
    <2>3. NotInUpto(s, gone, len, q)
      BY <1>1, <1>4, <2>2, Zenon DEF NotInUpto
    <2> QED BY ONLY s \in Seq(Message), <1>2, <2>1, <2>3, NotInUnique
  <1>6. q[len + 1] = IF x \in gone THEN q[len] ELSE Append(q[len], x)
    <2>1. len + 1 \in 1 .. len + 1 /\ (len + 1) - 1 = len
      BY <1>1
    <2> QED BY <1>1, <1>4, <2>1 DEF NotInUpto
  <1>7. r[len] \in Seq(Message)
    <2>1. len \in 0 .. Len(s)
      BY <1>1 DEF len
    <2> QED BY <1>2, <2>1 DEF NotInSteps
  <1> QED BY <1>2, <1>3, <1>5, <1>6, <1>7 DEF t, len

\* Where the messages taken out come from, how many stay, and what one more does
LEMMA NotInFacts ==
    ASSUME NEW s \in Seq(Message), NEW gone
    PROVE  /\ NotIn(s, gone) \in Seq(Message) /\ Len(NotIn(s, gone)) <= Len(s)
           /\ gone = {} => NotIn(s, gone) = s
           /\ \A x \in Message : Len(NotIn(s, gone \cup {x})) <= Len(NotIn(s, gone))
           /\ \A x \in Message : x \notin ToSet(s) => NotIn(s, gone \cup {x}) = NotIn(s, gone)
  <1> DEFINE S == {t \in Seq(Message) :
                     /\ NotIn(t, gone) \in Seq(Message) /\ Len(NotIn(t, gone)) <= Len(t)
                     /\ gone = {} => NotIn(t, gone) = t
                     /\ \A x \in Message :
                           /\ NotIn(t, gone \cup {x}) \in Seq(Message)
                           /\ Len(NotIn(t, gone \cup {x})) <= Len(NotIn(t, gone))
                           /\ x \notin ToSet(t) => NotIn(t, gone \cup {x}) = NotIn(t, gone)}
  <1>1. <<>> \in S
    <2>1. Len(<<>>) <= Len(<<>>) /\ <<>> \in Seq(Message)
      OBVIOUS
    <2> QED BY <2>1, NotInNone
  <1>2. \A t \in Seq(Message), y \in Message : t \in S => Append(t, y) \in S
    <2> SUFFICES ASSUME NEW t \in Seq(Message), NEW y \in Message, t \in S
                 PROVE  Append(t, y) \in S
      OBVIOUS
    <2> DEFINE u == Append(t, y)
    <2>1. /\ u \in Seq(Message) /\ Len(u) = Len(t) + 1 /\ Len(t) \in Nat
          /\ ToSet(u) = ToSet(t) \cup {y}
      BY RowsGrow
    <2>2. \A w \in Seq(Message) : Len(Append(w, y)) = Len(w) + 1 /\ Append(w, y) \in Seq(Message) /\ Len(w) \in Nat
      OBVIOUS
    <2>3. NotIn(u, gone) = IF y \in gone THEN NotIn(t, gone) ELSE Append(NotIn(t, gone), y)
      BY NotInMore
    <2>4. \A x \in Message : NotIn(u, gone \cup {x}) =
              IF y \in gone \cup {x} THEN NotIn(t, gone \cup {x}) ELSE Append(NotIn(t, gone \cup {x}), y)
      BY NotInMore
    <2> HIDE DEF u
    <2>5. NotIn(t, gone) \in Seq(Message) /\ Len(NotIn(t, gone)) <= Len(t)
      OBVIOUS
    <2>6. NotIn(u, gone) \in Seq(Message) /\ Len(NotIn(u, gone)) <= Len(u)
      BY <2>1, <2>2, <2>3, <2>5
    <2>7. gone = {} => NotIn(u, gone) = u
      BY <2>3 DEF u
    <2>8. ASSUME NEW x \in Message
          PROVE  /\ NotIn(u, gone \cup {x}) \in Seq(Message)
                 /\ Len(NotIn(u, gone \cup {x})) <= Len(NotIn(u, gone))
                 /\ x \notin ToSet(u) => NotIn(u, gone \cup {x}) = NotIn(u, gone)
      <3> DEFINE a == NotIn(t, gone \cup {x})
                 d == NotIn(t, gone)
      <3>1. /\ a \in Seq(Message) /\ d \in Seq(Message) /\ Len(a) <= Len(d)
            /\ x \notin ToSet(t) => a = d
        OBVIOUS
      <3>2. /\ NotIn(u, gone \cup {x}) = IF y \in gone \cup {x} THEN a ELSE Append(a, y)
            /\ NotIn(u, gone) = IF y \in gone THEN d ELSE Append(d, y)
        BY <2>3, <2>4
      <3> HIDE DEF a, d
      <3>3. /\ Len(Append(d, y)) = Len(d) + 1 /\ Len(Append(a, y)) = Len(a) + 1
            /\ Len(d) \in Nat /\ Len(a) \in Nat /\ Append(a, y) \in Seq(Message)
        BY <2>2, <3>1
      <3>4. NotIn(u, gone \cup {x}) \in Seq(Message)
        BY <3>1, <3>2, <3>3
      <3>5. Len(NotIn(u, gone \cup {x})) <= Len(NotIn(u, gone))
        <4>1. CASE y \in gone
          BY <3>1, <3>2, <4>1
        <4>2. CASE y \notin gone /\ y = x
          BY <3>1, <3>2, <3>3, <4>2
        <4>3. CASE y \notin gone /\ y # x
          BY <3>1, <3>2, <3>3, <4>3
        <4> QED BY <4>1, <4>2, <4>3
      <3>6. x \notin ToSet(u) => NotIn(u, gone \cup {x}) = NotIn(u, gone)
        BY <2>1, <3>1, <3>2
      <3> QED BY <3>4, <3>5, <3>6
    <2> QED BY <2>1, <2>6, <2>7, <2>8 DEF u
  <1> HIDE DEF S
  <1>3. \A t \in Seq(Message) : t \in S
    BY <1>1, <1>2, SeqSetInduction
  <1> QED BY <1>3 DEF S

HeadOf(s) == IF s = <<>> THEN 0 ELSE s[1]

\* The pages of one owner, one linked to the next
Listed(n, h, o, s) ==
    /\ s \in Seq(New(n)) /\ Distinct(s) /\ Path(h, s)
    /\ \A k \in DOMAIN s : h[s[k]].at32 = o
\* Every page has one, but for empty pages among some.
Loose(h, st, p) == p \in st /\ h[p].at32 # 0 /\ h[p].rows = <<>>
Homed(h, f, st, p) ==
    /\ h[p].at32 \in Owners /\ h[p].ty = IF h[p].at32 = 0 THEN "free" ELSE "chat"
    /\ p \in ToSet(f[h[p].at32]) \/ Loose(h, st, p)
Lists(n, h, f, st) ==
    /\ f \in [Owners -> Seq(New(n))]
    /\ \A o \in Owners : Listed(n, h, o, f[o])
    /\ h[0].at32 = HeadOf(f[0])
    /\ \A p \in New(n) : Homed(h, f, st, p)

\* What it is to be the list of an owner,
LEMMA ListedFacts ==
    ASSUME NEW n \in Nat, NEW h, NEW o, NEW s, Listed(n, h, o, s)
    PROVE  /\ s \in Seq(New(n)) /\ Len(s) \in Nat /\ DOMAIN s = 1 .. Len(s)
           /\ \A k \in 1 .. Len(s) : /\ s[k] \in New(n) /\ s[k] \in ToSet(s) /\ h[s[k]].at32 = o
                                     /\ h[s[k]].next = IF k = Len(s) THEN 0 ELSE s[k + 1]
           /\ \A p \in ToSet(s) : p \in New(n) /\ h[p].at32 = o /\ \E k \in 1 .. Len(s) : s[k] = p
           /\ \A j, k \in 1 .. Len(s) : s[j] = s[k] => j = k
  <1>1. s \in Seq(New(n)) /\ Len(s) \in Nat /\ DOMAIN s = 1 .. Len(s)
    BY DEF Listed
  <1>2. \A k \in 1 .. Len(s) : s[k] \in New(n) /\ s[k] \in ToSet(s)
    BY <1>1 DEF ToSet
  <1>3. \A k \in 1 .. Len(s) : h[s[k]].at32 = o /\ h[s[k]].next = IF k = Len(s) THEN 0 ELSE s[k + 1]
    BY <1>1 DEF Listed, Path
  <1>4. \A p \in ToSet(s) : \E k \in 1 .. Len(s) : s[k] = p
    BY <1>1 DEF ToSet
  <1>5. \A p \in ToSet(s) : p \in New(n) /\ h[p].at32 = o
    BY <1>2, <1>3, <1>4
  <1>6. \A j, k \in 1 .. Len(s) : s[j] = s[k] => j = k
    BY <1>1 DEF Listed, Distinct
  <1> QED BY ONLY <1>1, <1>2, <1>3, <1>4, <1>5, <1>6

\* and what it takes.
LEMMA IsListed ==
    ASSUME NEW n \in Nat, NEW h, NEW o, NEW s \in Seq(New(n)),
           \A k \in 1 .. Len(s) : /\ h[s[k]].at32 = o
                                  /\ h[s[k]].next = IF k = Len(s) THEN 0 ELSE s[k + 1],
           \A j, k \in 1 .. Len(s) : s[j] = s[k] => j = k
    PROVE  Listed(n, h, o, s)
  <1>1. DOMAIN s = 1 .. Len(s)
    OBVIOUS
  <1> QED BY <1>1 DEF Listed, Path, Distinct

\* A list stands while the pages on it keep owner and next.
LEMMA ListedSame ==
    ASSUME NEW n \in Nat, NEW m \in Nat, n <= m, NEW h, NEW g, NEW o, NEW s, Listed(n, h, o, s),
           \A p \in ToSet(s) : g[p].next = h[p].next /\ g[p].at32 = h[p].at32
    PROVE  Listed(m, g, o, s)
  <1>1. s \in Seq(New(m))
    BY ListedFacts, IdsGrow
  <1>2. \A k \in 1 .. Len(s) : /\ g[s[k]].at32 = o
                               /\ g[s[k]].next = IF k = Len(s) THEN 0 ELSE s[k + 1]
    BY ListedFacts
  <1>3. \A j, k \in 1 .. Len(s) : s[j] = s[k] => j = k
    BY ListedFacts
  <1> QED BY <1>1, <1>2, <1>3, IsListed

\* An owner may have no page.
LEMMA ListedEmpty ==
    ASSUME NEW n \in Nat, NEW h, NEW o
    PROVE  Listed(n, h, o, <<>>) /\ ToSet(<<>>) = {}
  <1>1. <<>> \in Seq(New(n)) /\ Len(<<>>) = 0 /\ DOMAIN <<>> = {}
    OBVIOUS
  <1> QED BY <1>1 DEF Listed, Path, Distinct, ToSet

\* A sequence without its first element,
LEMMA SeqTail ==
    ASSUME NEW T, NEW s \in Seq(T), s # <<>>
    PROVE  LET t == Tail(s)
           IN  /\ t \in Seq(T) /\ Len(t) + 1 = Len(s) /\ Len(t) \in Nat
               /\ s[1] \in T /\ \A k \in 1 .. Len(t) : t[k] = s[k + 1]
               /\ ToSet(s) = ToSet(t) \cup {s[1]}
  <1> DEFINE t == Tail(s)
  <1>1. /\ t \in Seq(T) /\ Len(t) + 1 = Len(s) /\ Len(t) \in Nat /\ s[1] \in T
        /\ \A k \in 1 .. Len(t) : t[k] = s[k + 1]
    OBVIOUS
  <1>2. DOMAIN s = 1 .. Len(s) /\ DOMAIN t = 1 .. Len(t)
    BY <1>1
  <1> HIDE DEF t
  <1>3. DOMAIN s = {1} \cup {k + 1 : k \in 1 .. Len(t)}
    <2>1. \A k \in 1 .. Len(s) : k = 1 \/ (k - 1 \in 1 .. Len(t) /\ k = (k - 1) + 1)
      BY <1>1
    <2>2. 1 \in 1 .. Len(s) /\ \A k \in 1 .. Len(t) : k + 1 \in 1 .. Len(s)
      BY <1>1
    <2> QED BY <1>2, <2>1, <2>2
  <1>4. ToSet(s) = ToSet(t) \cup {s[1]}
    <2>1. ToSet(s) = {s[k] : k \in 1 .. Len(s)} /\ ToSet(t) = {t[k] : k \in 1 .. Len(t)}
      BY <1>2 DEF ToSet
    <2>2. \A k \in 1 .. Len(t) : k + 1 \in 1 .. Len(s) /\ t[k] = s[k + 1]
      BY <1>1
    <2>3. \A k \in 1 .. Len(s) : k = 1 \/ \E j \in 1 .. Len(t) : k = j + 1
      BY <1>2, <1>3
    <2>4. 1 \in 1 .. Len(s)
      BY <1>2, <1>3
    <2> QED BY ONLY <2>1, <2>2, <2>3, <2>4
  <1> QED BY <1>1, <1>4 DEF t

\* or with one before it.
LEMMA SeqFront ==
    ASSUME NEW T, NEW s \in Seq(T), NEW p \in T
    PROVE  LET u == <<p>> \o s
           IN  /\ u \in Seq(T) /\ Len(u) = Len(s) + 1 /\ u[1] = p /\ u # <<>>
               /\ \A k \in 1 .. Len(s) : u[k + 1] = s[k]
               /\ ToSet(u) = ToSet(s) \cup {p}
  <1> DEFINE u == <<p>> \o s
  <1>1. /\ u \in Seq(T) /\ Len(u) = Len(s) + 1 /\ u[1] = p
        /\ \A k \in 1 .. Len(s) : u[k + 1] = s[k]
    OBVIOUS
  <1> HIDE DEF u
  <1>2. u # <<>> /\ Tail(u) = s
    <2>1. u # <<>> /\ Len(s) \in Nat
      BY <1>1
    <2>2. /\ Tail(u) \in Seq(T) /\ Len(Tail(u)) = Len(s)
          /\ \A k \in 1 .. Len(s) : Tail(u)[k] = s[k]
      BY <1>1, <2>1
    <2> QED BY <2>1, <2>2
  <1>3. ToSet(u) = ToSet(s) \cup {p}
    BY <1>1, <1>2, SeqTail
  <1> QED BY <1>1, <1>2, <1>3 DEF u

\* A page more at the end
LEMMA ListedMore ==
    ASSUME NEW n \in Nat, NEW h, NEW g, NEW o, NEW s, Listed(n, h, o, s),
           NEW p \in New(n), p \notin ToSet(s), g[p].at32 = o, g[p].next = 0,
           \A q \in ToSet(s) : g[q].at32 = h[q].at32
                               /\ g[q].next = IF q = Last(s) THEN p ELSE h[q].next
    PROVE  /\ Listed(n, g, o, Append(s, p)) /\ ToSet(Append(s, p)) = ToSet(s) \cup {p}
           /\ HeadOf(Append(s, p)) = IF s = <<>> THEN p ELSE s[1]
           /\ Append(s, p) # <<>> /\ Last(Append(s, p)) = p
  <1> DEFINE t == Append(s, p)
             len == Len(s)
  <1>1. /\ s \in Seq(New(n)) /\ len \in Nat /\ Len(t) = len + 1 /\ t \in Seq(New(n))
        /\ t[len + 1] = p /\ \A k \in 1 .. len : t[k] = s[k]
    BY ListedFacts
  <1>2. ToSet(t) = ToSet(s) \cup {p}
    BY <1>1, RowsGrow
  <1>3. s # <<>> => len # 0 /\ Last(s) = s[len]
    BY <1>1 DEF Last
  <1>4. Last(t) = p /\ t # <<>>
    BY <1>1 DEF Last
  <1>5. HeadOf(t) = IF s = <<>> THEN p ELSE s[1]
    <2>1. CASE s = <<>>
      BY <1>1, <1>4, <2>1 DEF HeadOf
    <2>2. CASE s # <<>>
      <3>1. 1 \in 1 .. len
        BY <1>1, <1>3, <2>2
      <3> QED BY <1>1, <1>4, <2>2, <3>1 DEF HeadOf
    <2> QED BY <2>1, <2>2
  <1> HIDE DEF t
  <1>6. ASSUME NEW k \in 1 .. Len(t)
        PROVE  g[t[k]].at32 = o /\ g[t[k]].next = IF k = Len(t) THEN 0 ELSE t[k + 1]
    <2>1. CASE k = len + 1
      BY <1>1, <2>1
    <2>2. CASE k \in 1 .. len
      <3>1. /\ t[k] = s[k] /\ s[k] \in ToSet(s) /\ h[s[k]].at32 = o /\ k # Len(t)
            /\ h[s[k]].next = IF k = len THEN 0 ELSE s[k + 1]
        BY <1>1, <2>2, ListedFacts
      <3>2. s[k] = Last(s) <=> k = len
        <4>1. s # <<>> /\ len \in 1 .. len
          BY <1>1, <2>2
        <4> QED BY <1>3, <2>2, <4>1, ListedFacts
      <3>3. k # len => t[k + 1] = s[k + 1]
        BY <1>1, <2>2
      <3>4. k = len => t[k + 1] = p
        BY <1>1
      <3> QED BY <3>1, <3>2, <3>3, <3>4
    <2> QED BY <1>1, <2>1, <2>2
  <1>7. \A j, k \in 1 .. Len(t) : t[j] = t[k] => j = k
    <2>1. \A k \in 1 .. len : t[k] = s[k] /\ s[k] # p
      BY <1>1, ListedFacts
    <2>2. \A k \in 1 .. Len(t) : k = len + 1 \/ k \in 1 .. len
      BY <1>1
    <2>3. \A j, k \in 1 .. len : s[j] = s[k] => j = k
      BY ListedFacts
    <2> QED BY <1>1, <2>1, <2>2, <2>3
  <1>8. Listed(n, g, o, t)
    BY <1>1, <1>6, <1>7, IsListed
  <1> QED BY <1>2, <1>4, <1>5, <1>8 DEF t

\* Without its first page
LEMMA ListedLess ==
    ASSUME NEW n \in Nat, NEW h, NEW o, NEW s, Listed(n, h, o, s), s # <<>>
    PROVE  /\ Listed(n, h, o, Tail(s)) /\ s[1] \notin ToSet(Tail(s))
           /\ ToSet(s) = ToSet(Tail(s)) \cup {s[1]}
           /\ s[1] \in New(n) /\ h[s[1]].at32 = o /\ h[s[1]].next = HeadOf(Tail(s))
           /\ Last(s) = IF Tail(s) = <<>> THEN s[1] ELSE Last(Tail(s))
  <1> DEFINE t == Tail(s)
  <1>1. /\ s \in Seq(New(n)) /\ Len(s) \in Nat /\ t \in Seq(New(n)) /\ Len(t) + 1 = Len(s)
        /\ Len(t) \in Nat /\ \A k \in 1 .. Len(t) : t[k] = s[k + 1]
        /\ ToSet(s) = ToSet(t) \cup {s[1]}
    BY ListedFacts, SeqTail
  <1> HIDE DEF t
  <1>2. DOMAIN t = 1 .. Len(t) /\ (t = <<>> <=> Len(t) = 0)
    <2>1. t \in Seq(New(n))
      BY <1>1
    <2> QED BY ONLY <2>1
  <1>3. \A k \in 1 .. Len(t) : k + 1 \in 1 .. Len(s) /\ k + 1 # 1
    BY <1>1
  <1>4. ASSUME NEW k \in 1 .. Len(t)
        PROVE  h[t[k]].at32 = o /\ h[t[k]].next = IF k = Len(t) THEN 0 ELSE t[k + 1]
    <2>1. /\ h[s[k + 1]].at32 = o
          /\ h[s[k + 1]].next = IF k + 1 = Len(s) THEN 0 ELSE s[(k + 1) + 1]
      BY <1>3, ListedFacts
    <2>2. k # Len(t) => t[k + 1] = s[(k + 1) + 1]
      BY <1>1
    <2>3. k = Len(t) <=> k + 1 = Len(s)
      BY <1>1
    <2> QED BY <1>1, <2>1, <2>2, <2>3
  <1>5. \A j, k \in 1 .. Len(t) : t[j] = t[k] => j = k
    <2>1. \A j, k \in 1 .. Len(t) : s[j + 1] = s[k + 1] => j + 1 = k + 1
      BY <1>3, ListedFacts, SMTT(30)
    <2> QED BY <1>1, <2>1
  <1>6. Listed(n, h, o, t)
    BY <1>1, <1>4, <1>5, IsListed
  <1>7. 1 \in 1 .. Len(s)
    BY <1>1
  <1>8. s[1] \notin ToSet(t)
    <2> SUFFICES ASSUME NEW k \in 1 .. Len(t), t[k] = s[1] PROVE FALSE
      BY <1>2 DEF ToSet
    <2> QED BY <1>1, <1>3, <1>7, ListedFacts
  <1>9. h[s[1]].next = HeadOf(t)
    <2>0. \A k \in 1 .. Len(s) : h[s[k]].next = IF k = Len(s) THEN 0 ELSE s[k + 1]
      BY ListedFacts
    <2>1. h[s[1]].next = IF 1 = Len(s) THEN 0 ELSE s[1 + 1]
      BY <1>7, <2>0
    <2>2. CASE t = <<>>
      BY <1>1, <1>2, <2>1, <2>2 DEF HeadOf
    <2>3. CASE t # <<>>
      <3>0. Len(t) \in Nat /\ Len(t) # 0 /\ Len(t) + 1 = Len(s)
        BY <1>1, <1>2, <2>3
      <3>1. 1 \in 1 .. Len(t) /\ 1 # Len(s)
        BY ONLY <3>0
      <3>2. t[1] = s[1 + 1]
        BY <1>1, <3>1
      <3> QED BY <2>1, <2>3, <3>1, <3>2 DEF HeadOf
    <2> QED BY <2>2, <2>3
  <1>10. Last(s) = IF t = <<>> THEN s[1] ELSE Last(t)
    <2>1. CASE t = <<>>
      <3>1. Len(t) = 0 /\ Len(t) + 1 = Len(s)
        BY <1>1, <1>2, <2>1
      <3>2. Len(s) = 1
        BY ONLY <3>1
      <3> QED BY <2>1, <3>2 DEF Last
    <2>2. CASE t # <<>>
      <3>0. Len(t) \in Nat /\ Len(t) # 0 /\ Len(t) + 1 = Len(s)
        BY <1>1, <1>2, <2>2
      <3>1. Len(t) \in 1 .. Len(t)
        BY ONLY <3>0
      <3>2. t[Len(t)] = s[Len(t) + 1]
        BY <1>1, <3>1
      <3>3. Last(s) = s[Len(t) + 1] /\ Last(t) = t[Len(t)]
        BY <3>0 DEF Last
      <3> QED BY <2>2, <3>2, <3>3
    <2> QED BY <2>1, <2>2
  <1>11. s[1] \in New(n) /\ h[s[1]].at32 = o
    BY <1>7, ListedFacts
  <1> QED BY <1>1, <1>6, <1>8, <1>9, <1>10, <1>11 DEF t

LessFirst(n, h, o, s) ==
    /\ Listed(n, h, o, Tail(s)) /\ s[1] \notin ToSet(Tail(s))
    /\ ToSet(s) = ToSet(Tail(s)) \cup {s[1]}
    /\ s[1] \in New(n) /\ h[s[1]].at32 = o
\* The same, as one fact
LEMMA ListedRest ==
    ASSUME NEW n \in Nat, NEW h, NEW o, NEW s, Listed(n, h, o, s), s # <<>>
    PROVE  LessFirst(n, h, o, s)
  <1>1. /\ Listed(n, h, o, Tail(s)) /\ s[1] \notin ToSet(Tail(s))
        /\ ToSet(s) = ToSet(Tail(s)) \cup {s[1]}
        /\ s[1] \in New(n) /\ h[s[1]].at32 = o /\ h[s[1]].next = HeadOf(Tail(s))
        /\ Last(s) = IF Tail(s) = <<>> THEN s[1] ELSE Last(Tail(s))
    BY ListedLess, Zenon
  <1> QED BY <1>1 DEF LessFirst

\* A page more at the front
LEMMA ListedFront ==
    ASSUME NEW n \in Nat, NEW h, NEW g, NEW o, NEW s, Listed(n, h, o, s),
           NEW p \in New(n), p \notin ToSet(s), g[p].at32 = o, g[p].next = HeadOf(s),
           \A q \in ToSet(s) : g[q].at32 = h[q].at32 /\ g[q].next = h[q].next
    PROVE  /\ Listed(n, g, o, <<p>> \o s) /\ ToSet(<<p>> \o s) = ToSet(s) \cup {p}
           /\ HeadOf(<<p>> \o s) = p
  <1> DEFINE t == <<p>> \o s
  <1>1. /\ s \in Seq(New(n)) /\ Len(s) \in Nat /\ t \in Seq(New(n)) /\ Len(t) = Len(s) + 1
        /\ t[1] = p /\ t # <<>> /\ \A k \in 1 .. Len(s) : t[k + 1] = s[k]
        /\ ToSet(t) = ToSet(s) \cup {p}
    BY ListedFacts, SeqFront
  <1> HIDE DEF t
  <1>2. \A k \in 1 .. Len(t) : k = 1 \/ (k - 1 \in 1 .. Len(s) /\ k = (k - 1) + 1)
    BY <1>1
  <1>3. ASSUME NEW k \in 1 .. Len(t)
        PROVE  g[t[k]].at32 = o /\ g[t[k]].next = IF k = Len(t) THEN 0 ELSE t[k + 1]
    <2>1. CASE k = 1
      <3>1. CASE s = <<>>
        <4>1. Len(s) = 0
          BY <3>1
        <4> QED BY <1>1, <2>1, <3>1, <4>1 DEF HeadOf
      <3>2. CASE s # <<>>
        <4>1. 1 \in 1 .. Len(s)
          BY <1>1, <3>2
        <4> QED BY <1>1, <2>1, <3>2, <4>1 DEF HeadOf
      <3> QED BY <3>1, <3>2
    <2>2. CASE k # 1
      <3>1. PICK j \in 1 .. Len(s) : k = j + 1
        BY <1>2, <2>2
      <3>2. t[k] = s[j]
        BY <1>1, <3>1
      <3>3. /\ s[j] \in ToSet(s) /\ h[s[j]].at32 = o
            /\ h[s[j]].next = IF j = Len(s) THEN 0 ELSE s[j + 1]
        BY ListedFacts
      <3>4. k = Len(t) <=> j = Len(s)
        BY <1>1, <3>1
      <3>5. j # Len(s) => t[k + 1] = s[j + 1]
        BY <1>1, <3>1
      <3> QED BY <3>2, <3>3, <3>4, <3>5
    <2> QED BY <2>1, <2>2
  <1>4. \A j, k \in 1 .. Len(t) : t[j] = t[k] => j = k
    <2>1. \A k \in 1 .. Len(s) : t[k + 1] = s[k] /\ s[k] # p
      BY <1>1, ListedFacts
    <2>2. \A k \in 1 .. Len(t) : k = 1 \/ \E j \in 1 .. Len(s) : k = j + 1
      BY <1>2
    <2>3. \A j, k \in 1 .. Len(s) : s[j] = s[k] => j = k
      BY ListedFacts
    <2> SUFFICES ASSUME NEW j \in 1 .. Len(t), NEW k \in 1 .. Len(t), t[j] = t[k] PROVE j = k
      OBVIOUS
    <2>4. CASE j = 1
      BY <1>1, <2>1, <2>2, <2>4
    <2>5. CASE k = 1
      BY <1>1, <2>1, <2>2, <2>5
    <2>6. CASE j # 1 /\ k # 1
      <3>1. PICK x \in 1 .. Len(s), y \in 1 .. Len(s) : j = x + 1 /\ k = y + 1
        BY <2>2, <2>6
      <3> QED BY <2>1, <2>3, <3>1
    <2> QED BY <2>4, <2>5, <2>6
  <1>5. Listed(n, g, o, t)
    BY <1>1, <1>3, <1>4, IsListed
  <1> QED BY <1>1, <1>5 DEF t, HeadOf

\* The pages of a list belong to its owner, and so to no other list.
LEMMA ListsFacts ==
    ASSUME NEW n \in Nat, n >= ROOT_PAGES, NEW h, NEW f, NEW st, Lists(n, h, f, st)
    PROVE  /\ \A o \in Owners : Listed(n, h, o, f[o]) /\ f[o] \in Seq(New(n))
           /\ \A o \in Owners : \A p \in ToSet(f[o]) : p \in New(n) /\ p # 0 /\ h[p].at32 = o
           /\ 0 \in Owners /\ Chats \subseteq Owners /\ 0 \notin Chats
           /\ h[0].at32 = HeadOf(f[0]) /\ \A p \in New(n) : Homed(h, f, st, p)
           /\ \A f2 : f2 \in [Owners -> Seq(New(n))] <=>
                 DOMAIN f2 = Owners /\ f2 = [o \in Owners |-> f2[o]]
                   /\ \A o \in Owners : f2[o] \in Seq(New(n))
  <1>1. \A o \in Owners : Listed(n, h, o, f[o])
    BY DEF Lists
  <1>2. \A o \in Owners : \A p \in ToSet(f[o]) : p \in New(n) /\ h[p].at32 = o
    BY <1>1, ListedFacts
  <1>3. 0 \notin New(n)
    BY IdFacts
  <1>4. \A o \in Owners : f[o] \in Seq(New(n))
    BY <1>1, ListedFacts
  <1>5. 0 \in Owners /\ Chats \subseteq Owners /\ 0 \notin Chats
    BY ChatEngineAssumption DEF Owners
  <1> QED BY <1>1, <1>2, <1>3, <1>4, <1>5 DEF Lists

\* Page 0 is the superblock, so 0 is no head.
LEMMA HeadFacts ==
    ASSUME NEW n \in Nat, n >= ROOT_PAGES, NEW s \in Seq(New(n))
    PROVE  HeadOf(s) = 0 <=> s = <<>>
  <1>1. s # <<>> => s[1] \in New(n)
    OBVIOUS
  <1>2. 0 \notin New(n)
    BY IdFacts
  <1> QED BY <1>1, <1>2 DEF HeadOf

\* A page taken for a chat: in no list yet
Taken(n, m, h, f, st, c, g, f2, id) ==
    /\ Lists(m, g, f2, st \cup {id}) /\ id \in New(m) /\ g[id] = ChatPage(c)
    /\ \A o \in Owners : id \notin ToSet(f2[o])
    /\ \A d \in Chats : f2[d] = f[d] /\ id \notin ToSet(f[d])
    /\ \A p \in New(n) : p # id => g[p] = h[p]
    /\ f[0] = <<>> => f2[0] = <<>> /\ id = n

\* alloc_chat_page: the heap grows by a page,
LEMMA TakeFresh ==
    ASSUME NEW n \in Nat, n >= ROOT_PAGES, NEW h \in Heap(n), NEW f, NEW st, Lists(n, h, f, st),
           NEW c \in Chats, f[0] = <<>>,
           NEW g, \A p \in Ids(n) : g[p] = h[p], g[n] = ChatPage(c)
    PROVE  Taken(n, n + 1, h, f, st, c, g, f, n)
  <1>1. /\ New(n + 1) = New(n) \cup {n} /\ n \notin New(n) /\ n + 1 \in Nat /\ n <= n + 1
        /\ New(n) \subseteq Ids(n) /\ 0 \in Ids(n)
    BY IdFacts
  <1>2. \A o \in Owners : Listed(n + 1, g, o, f[o]) /\ f[o] \in Seq(New(n + 1))
    <2> SUFFICES ASSUME NEW o \in Owners PROVE Listed(n + 1, g, o, f[o])
      BY <1>1, ListedFacts
    <2>1. Listed(n, h, o, f[o]) /\ \A p \in ToSet(f[o]) : g[p] = h[p]
      BY <1>1, ListsFacts
    <2> QED BY <1>1, <2>1, ListedSame
  <1>3. \A o \in Owners : n \notin ToSet(f[o])
    BY <1>1, ListsFacts
  <1>4. c \in Owners /\ c # 0
    BY ListsFacts
  <1>5. Homed(g, f, st \cup {n}, n)
    <2>1. g[n].at32 = c /\ g[n].ty = "chat" /\ g[n].rows = <<>>
      BY <1>4, ChatPageTyped
    <2> QED BY <1>4, <2>1 DEF Homed, Loose
  <1>6. \A p \in New(n) : Homed(g, f, st \cup {n}, p)
    <2> TAKE p \in New(n)
    <2>1. Homed(h, f, st, p) /\ g[p] = h[p]
      BY <1>1, ListsFacts
    <2> QED BY <2>1 DEF Homed, Loose
  <1>7. f \in [Owners -> Seq(New(n + 1))]
    <2>1. f \in [Owners -> Seq(New(n))]
      BY DEF Lists
    <2> QED BY <1>2, <2>1
  <1>8. Lists(n + 1, g, f, st \cup {n})
    <2>1. g[0].at32 = HeadOf(f[0])
      BY <1>1, ListsFacts
    <2> QED BY <1>1, <1>2, <1>5, <1>6, <1>7, <2>1 DEF Lists
  <1>9. \A p \in New(n) : p # n => g[p] = h[p]
    BY <1>1
  <1>10. \A d \in Chats : n \notin ToSet(f[d])
    BY <1>3, ListsFacts
  <1> QED BY <1>1, <1>3, <1>8, <1>9, <1>10 DEF Taken

\* or the freelist loses its first.
LEMMA TakeFreed ==
    ASSUME NEW n \in Nat, n >= ROOT_PAGES, NEW h \in Heap(n), NEW f, NEW st, Lists(n, h, f, st),
           NEW c \in Chats, NEW id, id = h[0].at32, id # 0,
           NEW g, \A p \in New(n) : p # id => g[p] = h[p], g[id] = ChatPage(c),
           g[0].at32 = h[id].next
    PROVE  /\ f[0] # <<>>
           /\ Taken(n, n, h, f, st, c, g, [f EXCEPT ![0] = Tail(f[0])], id)
  <1> DEFINE f2 == [f EXCEPT ![0] = Tail(f[0])]
  <1>1. f[0] # <<>> /\ id = f[0][1]
    BY ListsFacts DEF HeadOf
  <1>2. 0 \in Owners /\ Listed(n, h, 0, f[0])
    BY ListsFacts
  <1>3. /\ Listed(n, h, 0, Tail(f[0])) /\ id \notin ToSet(Tail(f[0]))
        /\ ToSet(f[0]) = ToSet(Tail(f[0])) \cup {id}
        /\ id \in New(n) /\ h[id].next = HeadOf(Tail(f[0]))
    BY <1>1, <1>2, ListedLess
  <1>4. /\ DOMAIN f2 = Owners /\ f2 = [o \in Owners |-> f2[o]] /\ f2[0] = Tail(f[0])
        /\ \A o \in Owners : o # 0 => f2[o] = f[o]
    BY <1>2 DEF Lists
  <1> HIDE DEF f2
  <1>5. \A o \in Owners : id \notin ToSet(f2[o]) /\ (o # 0 => id \notin ToSet(f[o]))
    <2>1. h[id].at32 = 0
      BY <1>2, <1>3, ListsFacts
    <2> QED BY <1>3, <1>4, <2>1, ListsFacts
  <1>6. \A o \in Owners : Listed(n, g, o, f2[o])
    <2> TAKE o \in Owners
    <2>1. Listed(n, h, o, f2[o])
      <3>1. o = 0 => f2[o] = Tail(f[0]) /\ Listed(n, h, 0, Tail(f[0]))
        BY <1>3, <1>4
      <3>2. o # 0 => f2[o] = f[o] /\ Listed(n, h, o, f[o])
        BY <1>4, ListsFacts
      <3> QED BY <3>1, <3>2
    <2>2. \A p \in ToSet(f2[o]) : p \in New(n) /\ g[p] = h[p]
      BY <1>5, <2>1, ListedFacts
    <2> QED BY <2>1, <2>2, ListedSame
  <1>7. c \in Owners /\ c # 0
    BY ListsFacts
  <1>8. ASSUME NEW p \in New(n)
        PROVE  Homed(g, f2, st \cup {id}, p)
    <2>1. CASE p = id
      <3>1. g[p].at32 = c /\ g[p].ty = "chat" /\ g[p].rows = <<>>
        BY <1>7, <2>1, ChatPageTyped
      <3> QED BY <1>7, <2>1, <3>1 DEF Homed, Loose
    <2>2. CASE p # id
      <3>1. Homed(h, f, st, p) /\ g[p] = h[p]
        BY <2>2, ListsFacts
      <3>2. p \in ToSet(f[h[p].at32]) => p \in ToSet(f2[h[p].at32])
        <4>1. h[p].at32 \in Owners
          BY <3>1 DEF Homed
        <4> QED BY <1>3, <1>4, <2>2, <4>1
      <3> QED BY <3>1, <3>2 DEF Homed, Loose
    <2> QED BY <2>1, <2>2
  <1>9. f2 \in [Owners -> Seq(New(n))]
    <2>1. \A o \in Owners : f2[o] \in Seq(New(n))
      BY <1>6, ListedFacts
    <2> QED BY <1>4, <2>1
  <1>10. Lists(n, g, f2, st \cup {id})
    BY <1>3, <1>4, <1>6, <1>8, <1>9 DEF Lists
  <1>11. \A d \in Chats : f2[d] = f[d] /\ id \notin ToSet(f[d])
    BY <1>4, <1>5, ListsFacts
  <1> QED BY <1>1, <1>3, <1>5, <1>10, <1>11 DEF Taken, f2

\* alloc_page for a chat
LEMMA Taking ==
    ASSUME NEW n \in Nat, n >= ROOT_PAGES, NEW s \in Store(n), NEW f, NEW st,
           Lists(n, s.mem, f, st), NEW c \in Chats
    PROVE  LET a == AllocChatPage(s, c)
           IN  \E m \in {n, n + 1} : \E f2 :
                   a.s \in Store(m) /\ Taken(n, m, s.mem, f, st, c, a.s.mem, f2, a.id)
  <1> DEFINE a == AllocChatPage(s, c)
  <1>1. s.mem \in Heap(n) /\ c \in Owners /\ f[0] \in Seq(New(n)) /\ s.mem[0].at32 = HeadOf(f[0])
    BY ListsFacts DEF Store
  <1>2. CASE FreelistHead(s) = 0
    <2>1. /\ a.id = n /\ a.s \in Store(n + 1) /\ a.s.mem[n] = ChatPage(c)
          /\ \A p \in Ids(n) : a.s.mem[p] = s.mem[p]
      BY <1>1, <1>2, AllocFresh
    <2>2. f[0] = <<>>
      BY <1>1, <1>2, HeadFacts DEF FreelistHead, Super
    <2> HIDE DEF a
    <2>3. Taken(n, n + 1, s.mem, f, st, c, a.s.mem, f, n)
      BY <1>1, <2>1, <2>2, TakeFresh
    <2>4. \E m \in {n, n + 1} : \E f2 :
             a.s \in Store(m) /\ Taken(n, m, s.mem, f, st, c, a.s.mem, f2, a.id)
      BY <2>1, <2>3
    <2> QED BY <2>4 DEF a
  <1>3. CASE FreelistHead(s) # 0
    <2>1. /\ a.s \in Store(n) /\ a.s.mem[a.id] = ChatPage(c) /\ a.id = FreelistHead(s)
          /\ a.s.mem[0].at32 = s.mem[a.id].next
          /\ \A p \in New(n) : p # a.id => a.s.mem[p] = s.mem[p]
      BY <1>1, <1>3, AllocFreed
    <2> HIDE DEF a
    <2>2. a.id = s.mem[0].at32 /\ a.id # 0
      BY <1>3, <2>1 DEF FreelistHead, Super
    <2>3. Taken(n, n, s.mem, f, st, c, a.s.mem, [f EXCEPT ![0] = Tail(f[0])], a.id)
      BY <1>1, <2>1, <2>2, TakeFreed
    <2>4. \E m \in {n, n + 1} : \E f2 :
             a.s \in Store(m) /\ Taken(n, m, s.mem, f, st, c, a.s.mem, f2, a.id)
      BY <2>1, <2>3
    <2> QED BY <2>4 DEF a
  <1> QED BY <1>2, <1>3

\* What is read from a heap are messages.
LEMMA HeapRows ==
    ASSUME NEW n \in Nat, n >= ROOT_PAGES, NEW h \in Heap(n)
    PROVE  RowsIn(h, New(n)) /\ \A s \in Seq(New(n)) : ReadOf(h, s) \in Seq(Message)
  <1>1. RowsIn(h, New(n))
    BY HeapFacts, IdFacts DEF RowsIn
  <1>2. ASSUME NEW s \in Seq(New(n)) PROVE ReadOf(h, s) \in Seq(Message)
    <2>1. CASE s = <<>>
      <3>1. ReadOf(h, s) = <<>>
        BY <2>1, ReadNone
      <3> QED BY <3>1
    <2>2. CASE s # <<>>
      <3>1. s[1] \in New(n)
        BY <2>2
      <3> QED BY <1>1, <3>1, ReadMore
    <2> QED BY <2>1, <2>2
  <1> QED BY <1>1, <1>2

\* A walk reads the same as long as its own pages keep their rows.
LEMMA ReadsSame ==
    ASSUME NEW n \in Nat, n >= ROOT_PAGES, NEW h \in Heap(n), NEW g, NEW s \in Seq(New(n)),
           \A p \in ToSet(s) : g[p].rows = h[p].rows
    PROVE  ReadOf(g, s) = ReadOf(h, s)
  <1>1. s \in Seq(ToSet(s)) /\ ToSet(s) \subseteq New(n)
    <2>1. DOMAIN s = 1 .. Len(s) /\ Len(s) \in Nat /\ \A k \in 1 .. Len(s) : s[k] \in New(n)
      OBVIOUS
    <2>2. \A k \in 1 .. Len(s) : s[k] \in ToSet(s)
      BY <2>1 DEF ToSet
    <2>3. s = [k \in 1 .. Len(s) |-> s[k]]
      BY <2>1
    <2> QED BY <2>1, <2>2 DEF ToSet
  <1>2. RowsIn(h, ToSet(s))
    BY <1>1, HeapRows DEF RowsIn
  <1> HIDE DEF RowsIn
  <1> QED BY <1>1, <1>2, ReadSame

\* Only the rows of a page change, if those of a page in a list.
OnlyRows(n, h, g, p) ==
    \A q \in Ids(n) : /\ g[q].at32 = h[q].at32 /\ g[q].ty = h[q].ty
                      /\ g[q].next = h[q].next
                      /\ q # p => g[q].rows = h[q].rows

\* Writing rows moves no page.
LEMMA ListsRows ==
    ASSUME NEW n \in Nat, n >= ROOT_PAGES, NEW h, NEW f, NEW st, Lists(n, h, f, st),
           NEW g, NEW c \in Owners, NEW p \in ToSet(f[c]),
           OnlyRows(n, h, g, p)
    PROVE  Lists(n, g, f, st)
  <1> USE DEF OnlyRows
  <1>1. \A q \in New(n) : q \in Ids(n)
    BY IdFacts
  <1>2. \A o \in Owners : Listed(n, g, o, f[o])
    <2> TAKE o \in Owners
    <2>1. Listed(n, h, o, f[o]) /\ \A q \in ToSet(f[o]) : q \in Ids(n)
      BY <1>1, ListsFacts
    <2> QED BY <2>1, ListedSame
  <1>3. h[p].at32 = c
    BY ListsFacts
  <1>4. \A q \in New(n) : Homed(g, f, st, q)
    <2> TAKE q \in New(n)
    <2>1. Homed(h, f, st, q) /\ q \in Ids(n)
      BY <1>1, ListsFacts
    <2>2. q = p => q \in ToSet(f[g[q].at32])
      BY <1>3, <2>1
    <2> QED BY <2>1, <2>2 DEF Homed, Loose
  <1>5. g[0].at32 = HeadOf(f[0])
    BY ListsFacts, IdFacts
  <1> QED BY <1>2, <1>4, <1>5 DEF Lists

\* A message goes onto the last page of a chat.
Filled(h, f, c, m, g) == g = [h EXCEPT ![Last(f[c])] = Insert(h[Last(f[c])], m)]
FilledAs(n, h, f, st, c, m, g) ==
    /\ Lists(n, g, f, st)
    /\ ReadOf(g, f[c]) = Append(ReadOf(h, f[c]), m)
    /\ \A d \in Chats : d # c => ReadOf(g, f[d]) = ReadOf(h, f[d])

\* insert_tuple on the tail puts the message at the end of what the walk reads.
LEMMA Filling ==
    ASSUME NEW n \in Nat, n >= ROOT_PAGES, NEW h \in Heap(n), NEW f, NEW st, Lists(n, h, f, st),
           NEW c \in Chats, f[c] # <<>>, NEW m \in Message,
           NEW g, Filled(h, f, c, m, g)
    PROVE  FilledAs(n, h, f, st, c, m, g)
  <1> DEFINE p == Last(f[c])
  <1>1. /\ c \in Owners /\ f[c] \in Seq(New(n)) /\ Listed(n, h, c, f[c])
        /\ \A d \in Chats : d \in Owners /\ f[d] \in Seq(New(n))
    BY ListsFacts
  <1>2. p \in ToSet(f[c])
    <2>1. Len(f[c]) \in 1 .. Len(f[c])
      BY <1>1
    <2> QED BY <1>1, <2>1, ListedFacts DEF Last
  <1>3. p \in New(n) /\ p \in Ids(n) /\ h[p].at32 = c
    BY <1>1, <1>2, ListsFacts, IdFacts
  <1> HIDE DEF p
  <1>4. DOMAIN h = Ids(n) /\ h[p] \in PageSet(n)
    BY <1>3, HeapFacts
  <1>5. /\ g[p].at32 = h[p].at32 /\ g[p].ty = h[p].ty /\ g[p].next = h[p].next
        /\ g[p].rows = Append(h[p].rows, m)
    <2>1. g[p] = Insert(h[p], m)
      BY <1>3, <1>4 DEF p, Filled
    <2>2. Insert(h[p], m) = [h[p] EXCEPT !.rows = Append(h[p].rows, m)]
      BY DEF Insert
    <2> QED BY <1>4, <2>1, <2>2 DEF PageSet
  <1>6. \A q \in Ids(n) : q # p => g[q] = h[q]
    BY <1>4 DEF p, Filled
  <1>7. Lists(n, g, f, st)
    <2>1. OnlyRows(n, h, g, p)
      BY <1>5, <1>6 DEF OnlyRows
    <2> QED BY ONLY n \in Nat, n >= ROOT_PAGES, Lists(n, h, f, st), <1>1, <1>2, <2>1, ListsRows
  <1>8. ReadOf(g, f[c]) = Append(ReadOf(h, f[c]), m)
    <2>1. RowsIn(h, New(n)) /\ Distinct(f[c])
      BY <1>1, HeapRows DEF Listed
    <2>2. g[Last(f[c])].rows = Append(h[Last(f[c])].rows, m)
      BY <1>5 DEF p
    <2>3. \A q \in New(n) : q # Last(f[c]) => g[q].rows = h[q].rows
      BY <1>6, IdFacts DEF p
    <2>4. f[c] \in Seq(New(n))
      BY <1>1
    <2> QED BY ONLY <2>1, <2>2, <2>3, <2>4, f[c] # <<>>, m \in Message, ReadAppend
  <1>9. ASSUME NEW d \in Chats, d # c PROVE ReadOf(g, f[d]) = ReadOf(h, f[d])
    <2>1. \A q \in ToSet(f[d]) : q \in Ids(n) /\ q # p
      BY <1>1, <1>3, <1>9, ListsFacts, IdFacts
    <2>2. \A q \in ToSet(f[d]) : g[q].rows = h[q].rows
      BY <1>6, <2>1
    <2>3. f[d] \in Seq(New(n))
      BY <1>1
    <2> QED BY ONLY n \in Nat, n >= ROOT_PAGES, h \in Heap(n), <2>2, <2>3, ReadsSame
  <1> QED BY <1>7, <1>8, <1>9 DEF FilledAs

\* A page that is empty joins the list of its chat.
Relinked(n, h, g, prev, p) ==
    /\ \A q \in Ids(n) : /\ g[q].at32 = h[q].at32 /\ g[q].ty = h[q].ty
                         /\ g[q].rows = h[q].rows
                         /\ q # prev => g[q].next = h[q].next
    /\ prev # 0 => g[prev].next = p
PageJoined(f, c, p) == [f EXCEPT ![c] = Append(f[c], p)]

Joined(n, h, f, st, c, p, g, f2) ==
    /\ Lists(n, g, f2, st) /\ f2[c] = Append(f[c], p) /\ f2[c] # <<>>
    /\ Last(f2[c]) = p /\ f2[c][1] = IF f[c] = <<>> THEN p ELSE f[c][1]
    /\ \A o \in Owners : o # c => f2[o] = f[o]
    /\ \A d \in Chats : ReadOf(g, f2[d]) = ReadOf(h, f[d])

\* Linking an empty page after the tail adds it to the chain, and no message.
LEMMA Joining ==
    ASSUME NEW n \in Nat, n >= ROOT_PAGES, NEW h \in Heap(n), NEW f, NEW st, NEW p \in New(n),
           Lists(n, h, f, st \cup {p}), NEW c \in Chats, p \notin ToSet(f[c]),
           h[p].at32 = c, h[p].ty = "chat", h[p].rows = <<>>, h[p].next = 0,
           NEW g \in Heap(n), NEW prev, prev = IF f[c] = <<>> THEN 0 ELSE Last(f[c]),
           Relinked(n, h, g, prev, p)
    PROVE  Joined(n, h, f, st, c, p, g, PageJoined(f, c, p))
  <1> DEFINE f2 == PageJoined(f, c, p)
  <1> USE DEF Relinked
  <1>1. /\ c \in Owners /\ f[c] \in Seq(New(n)) /\ Listed(n, h, c, f[c])
        /\ \A d \in Chats : d \in Owners /\ f[d] \in Seq(New(n))
        /\ c # 0 /\ p # 0 /\ \A q \in New(n) : q \in Ids(n)
    BY ListsFacts, IdFacts
  <1>2. /\ DOMAIN f2 = Owners /\ f2 = [o \in Owners |-> f2[o]] /\ f2[c] = Append(f[c], p)
        /\ \A o \in Owners : o # c => f2[o] = f[o]
    BY <1>1 DEF Lists, PageJoined
  <1>3. f[c] # <<>> => Last(f[c]) \in ToSet(f[c])
    <2> SUFFICES ASSUME f[c] # <<>> PROVE Last(f[c]) \in ToSet(f[c])
      OBVIOUS
    <2>1. Len(f[c]) \in 1 .. Len(f[c])
      BY <1>1
    <2> QED BY <1>1, <2>1, ListedFacts DEF Last
  <1>4. prev # 0 => prev \in ToSet(f[c]) /\ prev = Last(f[c]) /\ f[c] # <<>>
    BY <1>3
  <1>5. \A q \in ToSet(f[c]) : q \in New(n) /\ q # p /\ q \in Ids(n) /\ q # 0
    BY <1>1, ListsFacts
  <1> HIDE DEF f2
  <1>6. /\ Listed(n, g, c, f2[c]) /\ ToSet(f2[c]) = ToSet(f[c]) \cup {p} /\ f2[c] # <<>>
        /\ Last(f2[c]) = p /\ HeadOf(f2[c]) = IF f[c] = <<>> THEN p ELSE f[c][1]
    <2>1. g[p].at32 = c /\ g[p].next = 0
      BY <1>1, <1>4, <1>5
    <2>2. \A q \in ToSet(f[c]) : g[q].at32 = h[q].at32
                               /\ g[q].next = IF q = Last(f[c]) THEN p ELSE h[q].next
      <3> TAKE q \in ToSet(f[c])
      <3>1. f[c] # <<>>
        BY <1>1 DEF ToSet
      <3>2. prev = Last(f[c]) /\ prev # 0
        BY <1>3, <1>5, <3>1
      <3> QED BY <1>5, <3>2
    <2>3. Listed(n, h, c, f[c]) /\ p \notin ToSet(f[c])
      BY <1>1
    <2>4. /\ Listed(n, g, c, Append(f[c], p)) /\ ToSet(Append(f[c], p)) = ToSet(f[c]) \cup {p}
          /\ HeadOf(Append(f[c], p)) = IF f[c] = <<>> THEN p ELSE f[c][1]
          /\ Append(f[c], p) # <<>> /\ Last(Append(f[c], p)) = p
      BY ONLY n \in Nat, p \in New(n), <2>1, <2>2, <2>3, ListedMore
    <2>5. f2[c] = Append(f[c], p)
      BY <1>2
    <2> QED BY ONLY <2>4, <2>5
  <1>7. \A o \in Owners : Listed(n, g, o, f2[o])
    <2> TAKE o \in Owners
    <2>1. CASE o = c
      BY <1>6, <2>1
    <2>2. CASE o # c
      <3>1. Listed(n, h, o, f[o]) /\ f2[o] = f[o]
        BY <1>2, <2>2, ListsFacts
      <3>2. \A q \in ToSet(f[o]) : q \in Ids(n) /\ h[q].at32 = o
        BY <1>1, ListsFacts
      <3>3. prev # 0 => h[prev].at32 = c
        BY <1>1, <1>4, ListsFacts
      <3>4. \A q \in ToSet(f[o]) : q # prev
        <4>1. \A q \in ToSet(f[o]) : q # 0
          BY ListsFacts
        <4> QED BY <2>2, <3>2, <3>3, <4>1
      <3> QED BY <3>1, <3>2, <3>4, ListedSame
    <2> QED BY <2>1, <2>2
  <1>8. ASSUME NEW q \in New(n) PROVE Homed(g, f2, st, q)
    <2>1. Homed(h, f, st \cup {p}, q) /\ q \in Ids(n)
      BY <1>1, ListsFacts
    <2>2. CASE q = p
      <3>1. g[p].at32 = c /\ g[p].ty = "chat" /\ p \in ToSet(f2[c])
        BY <1>1, <1>6
      <3> QED BY <1>1, <2>2, <3>1 DEF Homed
    <2>3. CASE q # p
      <3>1. q \in ToSet(f[h[q].at32]) => q \in ToSet(f2[h[q].at32])
        <4>1. h[q].at32 \in Owners
          BY <2>1 DEF Homed
        <4> QED BY <1>2, <1>6, <4>1
      <3> QED BY <2>1, <2>3, <3>1 DEF Homed, Loose
    <2> QED BY <2>2, <2>3
  <1>9. f2 \in [Owners -> Seq(New(n))]
    <2>1. \A o \in Owners : f2[o] \in Seq(New(n))
      BY <1>7, ListedFacts
    <2> QED BY <1>2, <2>1
  <1>10. g[0].at32 = HeadOf(f2[0])
    BY <1>1, <1>2, ListsFacts, IdFacts
  <1>11. Lists(n, g, f2, st)
    BY <1>7, <1>8, <1>9, <1>10 DEF Lists
  <1>12. ASSUME NEW d \in Chats PROVE ReadOf(g, f2[d]) = ReadOf(h, f[d])
    <2>1. f[d] \in Seq(New(n)) /\ \A q \in ToSet(f[d]) : q \in Ids(n)
      BY <1>1, ListsFacts
    <2>2. ReadOf(g, f[d]) = ReadOf(h, f[d])
      BY <2>1, ReadsSame
    <2>3. CASE d # c
      BY <1>1, <1>2, <2>2, <2>3
    <2>4. CASE d = c
      <3>1. RowsIn(g, New(n))
        BY HeapRows
      <3>0. f[c] \in Seq(New(n)) /\ f2[c] = Append(f[c], p)
        BY <1>1, <1>2
      <3>2. ReadOf(g, f2[c]) = ReadOf(g, f[c]) \o g[p].rows /\ ReadOf(g, f[c]) \in Seq(Message)
        BY ONLY <3>0, <3>1, p \in New(n), ReadMore
      <3>3. g[p].rows = <<>>
        BY <1>1
      <3>4. \A x \in Seq(Message) : x \o <<>> = x
        OBVIOUS
      <3> QED BY <2>2, <2>4, <3>2, <3>3, <3>4
    <2> QED BY <2>3, <2>4
  <1>13. f2[c][1] = IF f[c] = <<>> THEN p ELSE f[c][1]
    BY <1>6 DEF HeadOf
  <1>14. Joined(n, h, f, st, c, p, g, f2)
    BY <1>2, <1>6, <1>11, <1>12, <1>13 DEF Joined
  <1> QED BY <1>14 DEF f2

\* free_page of the first page of a chat
FirstFreed(f, c) == [[f EXCEPT ![c] = Tail(f[c])] EXCEPT ![0] = <<f[c][1]>> \o f[0]]

\* free_page moves the first page of a chain to the freelist, and touches no other chat.
LEMMA Freeing ==
    ASSUME NEW n \in Nat, n >= ROOT_PAGES, NEW h \in Heap(n), NEW f, NEW st, Lists(n, h, f, st),
           NEW c \in Chats, f[c] # <<>>, NEW p, p = f[c][1],
           NEW g, g[p] = [Alloc("free") EXCEPT !.next = h[0].at32], g[0].at32 = p,
           \A q \in New(n) : q # p => g[q] = h[q]
    PROVE  LET f2 == FirstFreed(f, c)
           IN  /\ Lists(n, g, f2, st) /\ f2[c] = Tail(f[c])
               /\ \A d \in Chats : d # c => f2[d] = f[d] /\ ReadOf(g, f2[d]) = ReadOf(h, f[d])
  <1> DEFINE f2 == FirstFreed(f, c)
  <1>0. /\ c \in Owners /\ f[c] \in Seq(New(n)) /\ Listed(n, h, c, f[c])
        /\ Listed(n, h, 0, f[0]) /\ 0 \in Owners
        /\ \A d \in Chats : d \in Owners /\ f[d] \in Seq(New(n)) /\ d # 0
    BY ONLY n \in Nat, n >= ROOT_PAGES, Lists(n, h, f, st), c \in Chats, ListsFacts, Zenon
  <1>1. /\ c \in Owners /\ f[c] \in Seq(New(n)) /\ Listed(n, h, c, f[c])
        /\ Listed(n, h, 0, f[0]) /\ 0 \in Owners
        /\ \A d \in Chats : d \in Owners /\ f[d] \in Seq(New(n)) /\ d # 0
        /\ c # 0 /\ \A q \in New(n) : q \in Ids(n)
    BY <1>0, IdFacts, Zenon
  <1>2. /\ DOMAIN f2 = Owners /\ f2 = [o \in Owners |-> f2[o]] /\ f2[c] = Tail(f[c])
        /\ f2[0] = <<p>> \o f[0] /\ \A o \in Owners : o # c /\ o # 0 => f2[o] = f[o]
    BY <1>1 DEF Lists, FirstFreed
  <1> HIDE DEF f2
  <1>3. /\ Listed(n, h, c, Tail(f[c])) /\ p \notin ToSet(Tail(f[c]))
        /\ ToSet(f[c]) = ToSet(Tail(f[c])) \cup {p} /\ p \in New(n) /\ h[p].at32 = c
    <2>1. Listed(n, h, c, f[c]) /\ n \in Nat /\ f[c] # <<>>
      BY <1>1
    <2>2. /\ Listed(n, h, c, Tail(f[c])) /\ f[c][1] \notin ToSet(Tail(f[c]))
          /\ ToSet(f[c]) = ToSet(Tail(f[c])) \cup {f[c][1]}
          /\ f[c][1] \in New(n) /\ h[f[c][1]].at32 = c
      <3>1. LessFirst(n, h, c, f[c])
        BY ONLY <2>1, ListedRest
      <3> QED BY ONLY <3>1 DEF LessFirst
    <2>3. p = f[c][1]
      OBVIOUS
    <2> QED BY ONLY <2>2, <2>3
  <1>4. g[p].at32 = 0 /\ g[p].next = h[0].at32 /\ g[p].ty = "free"
    BY DEF Alloc
  <1>5. \A o \in Owners : o # c => p \notin ToSet(f[o])
    BY <1>3, ListsFacts
  <1>6. Listed(n, g, 0, f2[0]) /\ ToSet(f2[0]) = ToSet(f[0]) \cup {p} /\ HeadOf(f2[0]) = p
    <2>1. \A q \in ToSet(f[0]) : g[q] = h[q]
      BY <1>1, <1>5, ListsFacts
    <2>2. h[0].at32 = HeadOf(f[0]) /\ p \notin ToSet(f[0])
      BY <1>1, <1>5, ListsFacts
    <2>3. Listed(n, h, 0, f[0]) /\ n \in Nat /\ p \in New(n)
      BY <1>1, <1>3
    <2>4. g[p].at32 = 0 /\ g[p].next = HeadOf(f[0])
      BY <1>4, <2>2
    <2>5. /\ Listed(n, g, 0, <<p>> \o f[0]) /\ ToSet(<<p>> \o f[0]) = ToSet(f[0]) \cup {p}
          /\ HeadOf(<<p>> \o f[0]) = p
      BY ONLY <2>1, <2>2, <2>3, <2>4, ListedFront
    <2>6. f2[0] = <<p>> \o f[0]
      BY <1>2
    <2> QED BY ONLY <2>5, <2>6
  <1>7. \A o \in Owners : Listed(n, g, o, f2[o])
    <2> TAKE o \in Owners
    <2>1. CASE o = 0
      BY <1>6, <2>1
    <2>2. CASE o # 0
      <3>1. Listed(n, h, o, f2[o]) /\ \A q \in ToSet(f2[o]) : q \in New(n) /\ q # p
        <4>1. CASE o = c
          <5>1. Listed(n, h, o, f2[o]) /\ p \notin ToSet(f2[o])
            BY <1>2, <1>3, <4>1
          <5> QED BY <5>1, ListedFacts
        <4>2. CASE o # c
          <5>0. f2[o] = f[o]
            BY <1>2, <2>2, <4>2
          <5>1. Listed(n, h, o, f2[o]) /\ p \notin ToSet(f2[o])
            BY <1>5, <4>2, <5>0, ListsFacts
          <5> QED BY <5>1, ListedFacts
        <4> QED BY <4>1, <4>2
      <3> QED BY <3>1, ListedSame
    <2> QED BY <2>1, <2>2
  <1>8. ASSUME NEW q \in New(n) PROVE Homed(g, f2, st, q)
    <2>1. CASE q = p
      BY <1>1, <1>4, <1>6, <2>1 DEF Homed
    <2>2. CASE q # p
      <3>1. Homed(h, f, st, q) /\ g[q] = h[q]
        BY <2>2, ListsFacts
      <3>2. q \in ToSet(f[h[q].at32]) => q \in ToSet(f2[h[q].at32])
        <4>1. h[q].at32 \in Owners
          BY <3>1 DEF Homed
        <4> QED BY <1>2, <1>3, <1>6, <2>2, <4>1
      <3> QED BY <3>1, <3>2 DEF Homed, Loose
    <2> QED BY <2>1, <2>2
  <1>9. f2 \in [Owners -> Seq(New(n))]
    <2>1. \A o \in Owners : f2[o] \in Seq(New(n))
      BY <1>7, ListedFacts
    <2> QED BY <1>2, <2>1
  <1>10. Lists(n, g, f2, st)
    BY <1>6, <1>7, <1>8, <1>9 DEF Lists
  <1>11. ASSUME NEW d \in Chats, d # c
         PROVE  f2[d] = f[d] /\ ReadOf(g, f2[d]) = ReadOf(h, f[d])
    <2>1. f2[d] = f[d] /\ f[d] \in Seq(New(n))
      BY <1>1, <1>2, <1>11
    <2>2. \A q \in ToSet(f[d]) : g[q] = h[q]
      BY <1>1, <1>5, <1>11, ListsFacts
    <2>3. \A q \in ToSet(f[d]) : g[q].rows = h[q].rows
      BY <2>2
    <2> QED BY ONLY n \in Nat, n >= ROOT_PAGES, h \in Heap(n), <2>1, <2>3, ReadsSame
  <1> QED BY <1>2, <1>10, <1>11 DEF f2

\* What the other chats have: the same lists, which read the same
Others(h, f, g, f2, c) ==
    \A d \in Chats : d # c => f2[d] = f[d] /\ ReadOf(g, f2[d]) = ReadOf(h, f[d])

\* Two steps that leave the other chats alone
LEMMA OthersThen ==
    ASSUME NEW h, NEW f, NEW g, NEW f2, NEW i, NEW f3, NEW c,
           Others(h, f, g, f2, c), Others(g, f2, i, f3, c)
    PROVE  Others(h, f, i, f3, c)
  BY DEF Others

\* Nothing done leaves them alone.
LEMMA OthersSame == ASSUME NEW h, NEW f, NEW c PROVE Others(h, f, h, f, c)
  BY DEF Others

\* After k steps of the first loop of trim_chat_local
FreedSoFar(n, s, f, st, c, t, k, f2) ==
    /\ Lists(n, t.mem, f2, st) /\ Others(s.mem, f, t.mem, f2, c)
    /\ Len(f2[c]) + k = Len(f[c])
    /\ \A j \in 1 .. Len(f2[c]) : f2[c][j] = f[c][k + j]

\* The loop of free_chain frees one page after the other,
LEMMA FreeOne ==
    ASSUME NEW n \in Nat, n >= ROOT_PAGES, NEW s \in Store(n), NEW f, NEW st,
           Lists(n, s.mem, f, st), NEW c \in Chats, NEW k \in Nat, k + 1 <= Len(f[c]),
           NEW t \in Store(n), NEW f2, FreedSoFar(n, s, f, st, c, t, k, f2)
    PROVE  \E f3 : FreedSoFar(n, s, f, st, c, FreePage(t, f[c][k + 1]), k + 1, f3)
  <1> DEFINE p == f[c][k + 1]
             u == FreePage(t, p)
             f3 == FirstFreed(f2, c)
  <1>1. /\ Lists(n, t.mem, f2, st) /\ Others(s.mem, f, t.mem, f2, c)
        /\ Len(f2[c]) + k = Len(f[c])
        /\ \A j \in 1 .. Len(f2[c]) : f2[c][j] = f[c][k + j]
    BY DEF FreedSoFar
  <1>2. f[c] \in Seq(New(n)) /\ f2[c] \in Seq(New(n))
    <2>1. f2[c] \in Seq(New(n))
      BY ONLY n \in Nat, n >= ROOT_PAGES, <1>1, c \in Chats, ListsFacts
    <2> QED BY <2>1, ListsFacts
  <1>3. Len(f2[c]) \in Nat /\ Len(f[c]) \in Nat
    BY <1>2
  <1>4. Len(f2[c]) > 0 /\ 1 \in 1 .. Len(f2[c])
    BY <1>1, <1>3
  <1>5. f2[c] # <<>> /\ p = f2[c][1]
    BY <1>1, <1>2, <1>4
  <1>6. p \in New(n) /\ t.mem \in Heap(n)
    BY <1>2, <1>4, <1>5 DEF Store
  <1> HIDE DEF p
  <1>7. /\ u \in Store(n) /\ u.mem[0].at32 = p
        /\ u.mem[p] = [Alloc("free") EXCEPT !.next = t.mem[0].at32]
        /\ \A q \in New(n) : q # p => u.mem[q] = t.mem[q]
    BY <1>6, FreePageTyped DEF FreelistHead, Super
  <1> HIDE DEF u
  <1>8. /\ Lists(n, u.mem, f3, st) /\ f3[c] = Tail(f2[c])
        /\ \A d \in Chats : d # c => f3[d] = f2[d] /\ ReadOf(u.mem, f3[d]) = ReadOf(t.mem, f2[d])
    BY ONLY n \in Nat, n >= ROOT_PAGES, c \in Chats, <1>1, <1>5, <1>6, <1>7, Freeing
  <1> HIDE DEF f3
  <1>9. Others(t.mem, f2, u.mem, f3, c)
    BY <1>8 DEF Others
  <1>10. Others(s.mem, f, u.mem, f3, c)
    BY <1>1, <1>9, OthersThen
  <1>11. /\ Len(f3[c]) + 1 = Len(f2[c]) /\ Len(f3[c]) \in Nat
         /\ \A j \in 1 .. Len(f3[c]) : f3[c][j] = f2[c][j + 1]
    BY <1>2, <1>5, <1>8, SeqTail
  <1>12. Len(f3[c]) + (k + 1) = Len(f[c])
    <2>1. \A x, y \in Nat : x + 1 = y => x + (k + 1) = y + k
      OBVIOUS
    <2>2. Len(f3[c]) + (k + 1) = Len(f2[c]) + k
      BY <1>3, <1>11, <2>1, Zenon
    <2> QED BY <1>1, <2>2, Zenon
  <1>13. \A j \in 1 .. Len(f3[c]) : f3[c][j] = f[c][(k + 1) + j]
    <2> TAKE j \in 1 .. Len(f3[c])
    <2>1. j + 1 \in 1 .. Len(f2[c]) /\ k + (j + 1) = (k + 1) + j
      BY <1>3, <1>11
    <2>2. f2[c][j + 1] = f[c][k + (j + 1)]
      BY <1>1, <2>1
    <2> QED BY <1>11, <2>1, <2>2
  <1>14. FreedSoFar(n, s, f, st, c, u, k + 1, f3)
    BY <1>8, <1>10, <1>12, <1>13 DEF FreedSoFar
  <1> QED BY <1>14 DEF u, p

\* The first loop of trim_chat_local
LEMMA FreeAll ==
    ASSUME NEW n \in Nat, n >= ROOT_PAGES, NEW s \in Store(n), NEW f, NEW st,
           Lists(n, s.mem, f, st), NEW c \in Chats
    PROVE  LET t == Freed(s, f[c])
           IN  \E f2 : /\ t \in Store(n) /\ Lists(n, t.mem, f2, st) /\ f2[c] = <<>>
                       /\ Others(s.mem, f, t.mem, f2, c)
  <1> DEFINE chain == f[c]
             len == Len(chain)
  <1>1. chain \in Seq(New(n)) /\ len \in Nat
    <2>1. chain \in Seq(New(n))
      BY ListsFacts
    <2> QED BY <2>1
  <1>2. PICK g : FreeSteps(n, s, chain, g) /\ Freed(s, chain) = g[len]
    BY <1>1, FreedUnfolds
  <1>3. /\ \A k \in 0 .. len : g[k] \in Store(n)
        /\ g[0] = s /\ \A k \in 1 .. len : g[k] = FreePage(g[k - 1], chain[k])
    BY <1>2 DEF FreeSteps
  <1> DEFINE S == {k \in Nat : k <= len => \E f2 : FreedSoFar(n, s, f, st, c, g[k], k, f2)}
  <1>4. 0 \in S
    <2>1. FreedSoFar(n, s, f, st, c, s, 0, f)
      <3>1. Len(f[c]) + 0 = Len(f[c]) /\ \A j \in 1 .. Len(f[c]) : 0 + j = j
        BY <1>1
      <3> QED BY <3>1, OthersSame DEF FreedSoFar
    <2> QED BY <1>3, <2>1
  <1>5. \A k \in Nat : k \in S => k + 1 \in S
    <2> TAKE k \in Nat
    <2> HIDE DEF len
    <2> SUFFICES ASSUME k \in S, k + 1 <= len
                 PROVE  \E f3 : FreedSoFar(n, s, f, st, c, g[k + 1], k + 1, f3)
      <3>1. k + 1 \in Nat
        OBVIOUS
      <3> QED BY <3>1
    <2> USE DEF len
    <2>1. k \in 0 .. len /\ k + 1 \in 1 .. len /\ (k + 1) - 1 = k /\ k + 1 <= Len(f[c])
      BY <1>1
    <2>2. PICK f2 : FreedSoFar(n, s, f, st, c, g[k], k, f2)
      BY <1>1, <2>1
    <2>3. g[k] \in Store(n) /\ g[k + 1] = FreePage(g[k], f[c][k + 1])
      BY <1>3, <2>1
    <2>4. \E f3 : FreedSoFar(n, s, f, st, c, FreePage(g[k], f[c][k + 1]), k + 1, f3)
      BY ONLY n \in Nat, n >= ROOT_PAGES, s \in Store(n), Lists(n, s.mem, f, st), c \in Chats,
              k \in Nat, <2>1, <2>2, <2>3, FreeOne
    <2> QED BY <2>3, <2>4
  <1>6. \A k \in Nat : k \in S
    <2> HIDE DEF S
    <2> QED BY <1>4, <1>5, NatSetInduction
  <1>7. PICK f2 : FreedSoFar(n, s, f, st, c, g[len], len, f2)
    BY <1>1, <1>6
  <1>8. f2[c] = <<>>
    <2>1. Lists(n, g[len].mem, f2, st) /\ Len(f2[c]) + len = len
      BY <1>7 DEF FreedSoFar
    <2>2. f2[c] \in Seq(New(n))
      BY ONLY n \in Nat, n >= ROOT_PAGES, <2>1, c \in Chats, ListsFacts
    <2>3. Len(f2[c]) \in Nat
      BY <2>2
    <2>4. Len(f2[c]) = 0
      <3>1. \A x, y \in Nat : x + y = y => x = 0
        OBVIOUS
      <3> QED BY ONLY <1>1, <2>1, <2>3, <3>1
    <2> QED BY <2>2, <2>4
  <1>9. g[len] \in Store(n)
    BY <1>1, <1>3
  <1>10. Lists(n, g[len].mem, f2, st) /\ Others(s.mem, f, g[len].mem, f2, c)
    BY <1>7 DEF FreedSoFar
  <1> HIDE DEF S
  <1> QED BY <1>2, <1>8, <1>9, <1>10

\* set_next changes nothing but the link.
LEMMA NextRelinks ==
    ASSUME NEW n \in Nat, n >= ROOT_PAGES, NEW h \in Heap(n), NEW p \in New(n), NEW q \in Ids(n)
    PROVE  LET g == [h EXCEPT ![p].next = q] IN g \in Heap(n) /\ Relinked(n, h, g, p, q)
  BY NextChanges DEF Relinked

ReadsStay(h, f, g, f2) ==
    \A d \in Chats : f2[d] = f[d] /\ ReadOf(g, f2[d]) = ReadOf(h, f[d])

\* A page taken disturbs no walk.
LEMMA TakenReads ==
    ASSUME NEW n \in Nat, n >= ROOT_PAGES, NEW h \in Heap(n), NEW m, NEW f, NEW st,
           Lists(n, h, f, st), NEW c, NEW g, NEW f2, NEW id,
           Taken(n, m, h, f, st, c, g, f2, id)
    PROVE  ReadsStay(h, f, g, f2)
  <1> SUFFICES ASSUME NEW d \in Chats PROVE f2[d] = f[d] /\ ReadOf(g, f2[d]) = ReadOf(h, f[d])
    BY DEF ReadsStay
  <1>1. f2[d] = f[d] /\ id \notin ToSet(f[d])
    BY DEF Taken
  <1>2. f[d] \in Seq(New(n)) /\ \A q \in ToSet(f[d]) : q \in New(n)
    BY ListsFacts
  <1>3. \A q \in ToSet(f[d]) : g[q].rows = h[q].rows
    BY <1>1, <1>2 DEF Taken
  <1>4. ReadOf(g, f[d]) = ReadOf(h, f[d])
    BY ONLY n \in Nat, n >= ROOT_PAGES, h \in Heap(n), <1>2, <1>3, ReadsSame
  <1> QED BY <1>1, <1>4

\* One message of the second loop of trim_chat_local
RewroteTo(n, e, f, st, c, m, k, v, f2) ==
    /\ v \in Engine(k) /\ Lists(k, v.s.mem, f2, st) /\ f2[c] # <<>> /\ f2[c][1] = f[c][1]
    /\ DOMAIN v.tips = DOMAIN e.tips
    /\ v.tips[c] = Tip(e.tips[c].head, Last(f2[c]), e.tips[c].count + 1)
    /\ \A d \in DOMAIN e.tips : d # c => v.tips[d] = e.tips[d]
    /\ v.ring = e.ring
    /\ ReadOf(v.s.mem, f2[c]) = Append(ReadOf(e.s.mem, f[c]), m)
    /\ Others(e.s.mem, f, v.s.mem, f2, c)

\* It goes to the last page of the chat, of which there is one.
LEMMA RewrittenTo ==
    ASSUME NEW n \in Nat, n >= ROOT_PAGES, NEW e \in Engine(n), NEW c \in Chats,
           c \in DOMAIN e.tips, NEW m \in Message, NEW k \in Nat, n <= k, NEW at,
           at.s \in Store(k), at.id \in New(k), HasRoom(at.s.mem[at.id]),
           NEW f, NEW f2, NEW st, Lists(k, at.s.mem, f2, st),
           f2[c] # <<>>, f2[c][1] = f[c][1], at.id = Last(f2[c]),
           ReadOf(at.s.mem, f2[c]) = ReadOf(e.s.mem, f[c]), Others(e.s.mem, f, at.s.mem, f2, c)
    PROVE  RewroteTo(n, e, f, st, c, m, k, Rewritten(e, c, m, at), f2)
  <1> DEFINE v == Rewritten(e, c, m, at)
  <1>1. /\ v \in Engine(k) /\ DOMAIN v.tips = DOMAIN e.tips
        /\ v.s.mem = [at.s.mem EXCEPT ![at.id] = Insert(at.s.mem[at.id], m)]
        /\ v.tips = [e.tips EXCEPT ![c] = Tip(e.tips[c].head, at.id, e.tips[c].count + 1)]
        /\ v.ring = e.ring
    <2>1. RewrittenAs(e, c, m, k, at)
      BY ONLY n \in Nat, n >= ROOT_PAGES, e \in Engine(n), c \in DOMAIN e.tips, m \in Message,
              k \in Nat, n <= k, at.s \in Store(k), at.id \in New(k), HasRoom(at.s.mem[at.id]),
              RewrittenTyped
    <2> QED BY <2>1 DEF RewrittenAs
  <1> HIDE DEF v
  <1>2. at.s.mem \in Heap(k) /\ k >= ROOT_PAGES
    BY DEF Store, ROOT_PAGES
  <1>3. v.s.mem = [at.s.mem EXCEPT ![Last(f2[c])] = Insert(at.s.mem[Last(f2[c])], m)]
    BY <1>1
  <1>4. /\ Lists(k, v.s.mem, f2, st)
        /\ ReadOf(v.s.mem, f2[c]) = Append(ReadOf(at.s.mem, f2[c]), m)
        /\ \A d \in Chats : d # c => ReadOf(v.s.mem, f2[d]) = ReadOf(at.s.mem, f2[d])
    <2>1. Filled(at.s.mem, f2, c, m, v.s.mem)
      BY <1>3 DEF Filled
    <2>2. FilledAs(k, at.s.mem, f2, st, c, m, v.s.mem)
      BY ONLY k \in Nat, <1>2, <2>1, Lists(k, at.s.mem, f2, st), c \in Chats, f2[c] # <<>>,
              m \in Message, Filling
    <2> QED BY <2>2 DEF FilledAs
  <1>5. Others(e.s.mem, f, v.s.mem, f2, c)
    BY <1>4 DEF Others
  <1>6. /\ v.tips[c] = Tip(e.tips[c].head, Last(f2[c]), e.tips[c].count + 1)
        /\ \A d \in DOMAIN e.tips : d # c => v.tips[d] = e.tips[d]
    BY <1>1
  <1>7. RewroteTo(n, e, f, st, c, m, k, v, f2)
    BY <1>1, <1>4, <1>5, <1>6 DEF RewroteTo
  <1> QED BY <1>7 DEF v

RewroteOne(n, e, f, st, c, m, v) ==
    \E k \in {n, n + 1} : \E f2 : RewroteTo(n, e, f, st, c, m, k, v, f2)

\* A trim puts a kept message on the tail, or on a page allocated after it.
LEMMA RewriteOne ==
    ASSUME NEW n \in Nat, n >= ROOT_PAGES, NEW e \in Engine(n), NEW f, NEW st,
           Lists(n, e.s.mem, f, st), NEW c \in Chats, f[c] # <<>>,
           c \in DOMAIN e.tips, e.tips[c].tail = Last(f[c]), NEW m \in Message
    PROVE  RewroteOne(n, e, f, st, c, m, Rewrite(e, c, m))
  <1> DEFINE at == RewriteTarget(e, c)
             tail == e.tips[c].tail
             a == AllocChatPage(e.s, c)
  <1>1. Rewrite(e, c, m) = Rewritten(e, c, m, at)
    BY DEF Rewrite, Rewritten
  <1>2. e.s \in Store(n) /\ e.tips \in Tips(n) /\ e.s.mem \in Heap(n)
    BY EngineParts
  <1>3. tail \in New(n) /\ c \in Owners
    BY <1>2, TipFacts
  <1>4. CASE HasRoom(e.s.mem[tail])
    <2>1. at.s = e.s /\ at.id = tail
      BY <1>4 DEF RewriteTarget
    <2> HIDE DEF at
    <2>2. RewroteTo(n, e, f, st, c, m, n, Rewritten(e, c, m, at), f)
      <3>1. n <= n /\ HasRoom(at.s.mem[at.id]) /\ at.id \in New(n) /\ at.s \in Store(n)
        BY <1>2, <1>3, <1>4, <2>1
      <3>2. Others(e.s.mem, f, at.s.mem, f, c) /\ Lists(n, at.s.mem, f, st)
            /\ ReadOf(at.s.mem, f[c]) = ReadOf(e.s.mem, f[c]) /\ at.id = Last(f[c])
        BY <2>1, OthersSame
      <3> QED BY ONLY n \in Nat, n >= ROOT_PAGES, e \in Engine(n), c \in Chats, m \in Message,
                      c \in DOMAIN e.tips, f[c] # <<>>, <3>1, <3>2, RewrittenTo
    <2> QED BY <1>1, <2>2 DEF RewroteOne
  <1>5. CASE ~HasRoom(e.s.mem[tail])
    <2> DEFINE s == [a.s EXCEPT !.mem[tail].next = a.id]
    <2>1. at.id = a.id /\ at.s = s
      BY <1>5 DEF RewriteTarget
    <2>2. \E k \in {n, n + 1} : \E f1 :
              a.s \in Store(k) /\ Taken(n, k, e.s.mem, f, st, c, a.s.mem, f1, a.id)
      BY ONLY n \in Nat, n >= ROOT_PAGES, c \in Chats, Lists(n, e.s.mem, f, st), <1>2, Taking
    <2> HIDE DEF a, at
    <2>2a. PICK k \in {n, n + 1} :
               \E f1 : a.s \in Store(k) /\ Taken(n, k, e.s.mem, f, st, c, a.s.mem, f1, a.id)
      BY <2>2
    <2>3. PICK f1 : a.s \in Store(k) /\ Taken(n, k, e.s.mem, f, st, c, a.s.mem, f1, a.id)
      BY <2>2a
    <2>4. /\ Lists(k, a.s.mem, f1, st \cup {a.id}) /\ a.id \in New(k) /\ a.s.mem[a.id] = ChatPage(c)
          /\ a.id \notin ToSet(f1[c]) /\ f1[c] = f[c]
      BY <1>3, <2>3 DEF Taken
    <2>5. k \in Nat /\ k >= ROOT_PAGES /\ n <= k /\ tail \in New(k) /\ a.id \in Ids(k) /\ tail # 0
      <3>1. k \in Nat /\ k >= ROOT_PAGES /\ n <= k
        BY DEF ROOT_PAGES
      <3>2. tail \in New(k) /\ tail # 0
        BY ONLY n \in Nat, n >= ROOT_PAGES, <1>3, <3>1, IdsGrow, IdFacts
      <3>3. a.id \in Ids(k)
        BY ONLY <2>4, <3>1, IdFacts
      <3> QED BY <3>1, <3>2, <3>3
    <2>6. a.s = [mem |-> a.s.mem, disk |-> a.s.disk] /\ a.s.mem \in Heap(k) /\ a.s.disk \in Heap(k)
      BY <2>3 DEF Store
    <2> DEFINE mem1 == [a.s.mem EXCEPT ![tail].next = a.id]
    <2> HIDE DEF tail
    <2>7. s = [mem |-> mem1, disk |-> a.s.disk]
      BY <2>6
    <2> HIDE DEF s
    <2>8. mem1 \in Heap(k) /\ Relinked(k, a.s.mem, mem1, tail, a.id)
      <3> DEFINE h == a.s.mem
                 id == a.id
      <3>1. k \in Nat /\ k >= ROOT_PAGES /\ h \in Heap(k) /\ tail \in New(k) /\ id \in Ids(k)
        BY <2>5, <2>6
      <3>2. mem1 = [h EXCEPT ![tail].next = id]
        OBVIOUS
      <3> HIDE DEF mem1, h, id
      <3>3. mem1 \in Heap(k) /\ Relinked(k, h, mem1, tail, id)
        BY ONLY <3>1, <3>2, NextRelinks
      <3> QED BY <3>3 DEF h, id
    <2> HIDE DEF mem1
    <2>9. s \in Store(k) /\ s.mem = mem1
      BY <2>6, <2>7, <2>8 DEF Store
    <2>10. /\ a.s.mem[a.id].at32 = c /\ a.s.mem[a.id].ty = "chat"
           /\ a.s.mem[a.id].rows = <<>> /\ a.s.mem[a.id].next = 0
      BY <1>3, <2>4, ChatPageTyped
    <2> DEFINE f2 == PageJoined(f1, c, a.id)
    <2>11. tail = IF f1[c] = <<>> THEN 0 ELSE Last(f1[c])
      BY <2>4 DEF tail
    <2>12. /\ Lists(k, mem1, f2, st) /\ f2[c] # <<>> /\ Last(f2[c]) = a.id
           /\ f2[c][1] = (IF f1[c] = <<>> THEN a.id ELSE f1[c][1])
           /\ \A o \in Owners : o # c => f2[o] = f1[o]
           /\ \A d \in Chats : ReadOf(mem1, f2[d]) = ReadOf(a.s.mem, f1[d])
      <3>1. /\ a.id \in New(k) /\ Lists(k, a.s.mem, f1, st \cup {a.id}) /\ a.id \notin ToSet(f1[c])
            /\ k \in Nat /\ k >= ROOT_PAGES /\ a.s.mem \in Heap(k)
        BY <2>4, <2>5, <2>6
      <3> DEFINE h == a.s.mem
                 id == a.id
                 s1 == st \cup {id}
      <3>2. /\ k \in Nat /\ k >= ROOT_PAGES /\ h \in Heap(k) /\ Lists(k, h, f1, s1)
            /\ id \in New(k) /\ id \notin ToSet(f1[c])
            /\ h[id].at32 = c /\ h[id].ty = "chat" /\ h[id].rows = <<>> /\ h[id].next = 0
            /\ mem1 \in Heap(k) /\ Relinked(k, h, mem1, tail, id)
            /\ f2 = PageJoined(f1, c, id) /\ s1 = st \cup {id}
        BY <2>8, <2>10, <3>1
      <3> HIDE DEF h, id, f2, s1
      <3>3. Joined(k, h, f1, st, c, id, mem1, f2)
        BY ONLY c \in Chats, <2>11, <3>2, Joining
      <3> QED BY <3>3 DEF h, id, Joined
    <2> HIDE DEF f2
    <2>13. \A d \in Chats : f1[d] = f[d] /\ ReadOf(a.s.mem, f1[d]) = ReadOf(e.s.mem, f[d])
      <3>1. ReadsStay(e.s.mem, f, a.s.mem, f1)
        BY ONLY n \in Nat, n >= ROOT_PAGES, Lists(n, e.s.mem, f, st), <1>2, <2>3, TakenReads
      <3> QED BY <3>1 DEF ReadsStay
    <2>14. Others(e.s.mem, f, at.s.mem, f2, c) /\ ReadOf(at.s.mem, f2[c]) = ReadOf(e.s.mem, f[c])
      <3>1. \A d \in Chats : d \in Owners
        BY DEF Owners
      <3> QED BY <2>1, <2>9, <2>12, <2>13, <3>1 DEF Others
    <2>15. HasRoom(at.s.mem[at.id])
      <3>1. at.s.mem[at.id].rows = <<>>
        BY <2>1, <2>5, <2>8, <2>9, <2>10 DEF Relinked
      <3> QED BY <3>1, CapFacts DEF HasRoom
    <2>16. /\ at.s \in Store(k) /\ at.id \in New(k) /\ Lists(k, at.s.mem, f2, st)
           /\ f2[c] # <<>> /\ f2[c][1] = f[c][1] /\ at.id = Last(f2[c]) /\ k \in Nat /\ n <= k
      BY <2>1, <2>4, <2>5, <2>9, <2>12
    <2>17. RewroteTo(n, e, f, st, c, m, k, Rewritten(e, c, m, at), f2)
      BY ONLY n \in Nat, n >= ROOT_PAGES, e \in Engine(n), c \in Chats, m \in Message,
              c \in DOMAIN e.tips, <2>14, <2>15, <2>16, RewrittenTo
    <2> QED BY <1>1, <2>17 DEF RewroteOne
  <1> QED BY <1>4, <1>5

\* After j steps of the second loop of trim_chat_local
RemadeAs(start, f, st, c, kept, j, k, v, f2) ==
    /\ v \in Engine(k) /\ Lists(k, v.s.mem, f2, st) /\ f2[c] # <<>>
    /\ DOMAIN v.tips = DOMAIN start.tips
    /\ v.tips[c] = Tip(f2[c][1], Last(f2[c]), j)
    /\ \A d \in DOMAIN start.tips : d # c => v.tips[d] = start.tips[d]
    /\ v.ring = start.ring
    /\ ReadOf(v.s.mem, f2[c]) = SubSeq(kept, 1, j)
    /\ Others(start.s.mem, f, v.s.mem, f2, c)
RemadeUpto(n, start, f, st, c, kept, j, v) ==
    \E k \in Nat : \E f2 : n <= k /\ RemadeAs(start, f, st, c, kept, j, k, v, f2)

\* One kept message after the other,
LEMMA RemakeOne ==
    ASSUME NEW n \in Nat, n >= ROOT_PAGES, NEW start, NEW f, NEW st, NEW c \in Chats,
           c \in DOMAIN start.tips, NEW kept \in Seq(Message), NEW j \in Nat, j + 1 <= Len(kept),
           NEW v, RemadeUpto(n, start, f, st, c, kept, j, v)
    PROVE  RemadeUpto(n, start, f, st, c, kept, j + 1, Rewrite(v, c, kept[j + 1]))
  <1>0. PICK k \in Nat : \E f2 : n <= k /\ RemadeAs(start, f, st, c, kept, j, k, v, f2)
    BY DEF RemadeUpto
  <1>1. PICK f2 : n <= k /\ RemadeAs(start, f, st, c, kept, j, k, v, f2)
    BY <1>0
  <1> DEFINE m == kept[j + 1]
             w == Rewrite(v, c, m)
  <1>2. m \in Message /\ Append(SubSeq(kept, 1, j), m) = SubSeq(kept, 1, j + 1)
    OBVIOUS
  <1> HIDE DEF m
  <1>3. /\ k >= ROOT_PAGES /\ v \in Engine(k) /\ Lists(k, v.s.mem, f2, st) /\ f2[c] # <<>>
        /\ c \in DOMAIN v.tips /\ DOMAIN v.tips = DOMAIN start.tips
        /\ v.tips[c] = Tip(f2[c][1], Last(f2[c]), j)
    <2>1. k >= ROOT_PAGES
      BY <1>1 DEF ROOT_PAGES
    <2> QED BY <1>1, <2>1 DEF RemadeAs
  <1>4. v.tips[c].tail = Last(f2[c]) /\ v.tips[c].head = f2[c][1] /\ v.tips[c].count = j
    BY <1>3 DEF Tip
  <1>4a. PICK i \in {k, k + 1} : \E f3 : RewroteTo(k, v, f2, st, c, m, i, w, f3)
    <2>1. RewroteOne(k, v, f2, st, c, m, Rewrite(v, c, m))
      BY ONLY k \in Nat, c \in Chats, <1>2, <1>3, <1>4, RewriteOne
    <2> QED BY <2>1 DEF RewroteOne
  <1>5. PICK f3 : RewroteTo(k, v, f2, st, c, m, i, w, f3)
    BY <1>4a
  <1> HIDE DEF w
  <1>6. i \in Nat /\ n <= i
    BY <1>1
  <1>7. w.tips[c] = Tip(f3[c][1], Last(f3[c]), j + 1)
    BY <1>4, <1>5 DEF RewroteTo
  <1>8. ReadOf(w.s.mem, f3[c]) = SubSeq(kept, 1, j + 1)
    BY <1>1, <1>2, <1>5 DEF RewroteTo, RemadeAs
  <1>9. Others(start.s.mem, f, w.s.mem, f3, c)
    BY <1>1, <1>5, OthersThen DEF RewroteTo, RemadeAs
  <1>10. /\ DOMAIN w.tips = DOMAIN start.tips /\ w.ring = start.ring
         /\ \A d \in DOMAIN start.tips : d # c => w.tips[d] = start.tips[d]
    BY <1>1, <1>5 DEF RewroteTo, RemadeAs
  <1>11. w \in Engine(i) /\ Lists(i, w.s.mem, f3, st) /\ f3[c] # <<>>
    BY <1>5 DEF RewroteTo
  <1>12. RemadeAs(start, f, st, c, kept, j + 1, i, w, f3)
    BY <1>7, <1>8, <1>9, <1>10, <1>11 DEF RemadeAs
  <1>13. RemadeUpto(n, start, f, st, c, kept, j + 1, w)
    BY <1>6, <1>12 DEF RemadeUpto
  <1> QED BY <1>13 DEF w, m

\* all of them are on the new chain, in order.
LEMMA RemakeAll ==
    ASSUME NEW n \in Nat, n >= ROOT_PAGES, NEW start \in Engine(n), NEW f, NEW st,
           Lists(n, start.s.mem, f, st), NEW c \in Chats, c \in DOMAIN start.tips, f[c] # <<>>,
           start.tips[c] = Tip(f[c][1], Last(f[c]), 0), ReadOf(start.s.mem, f[c]) = <<>>,
           NEW kept \in Seq(Message)
    PROVE  RemadeUpto(n, start, f, st, c, kept, Len(kept), Remade(start, c, kept))
  <1> DEFINE len == Len(kept)
  <1>1. len \in Nat
    OBVIOUS
  <1>2. start \in Engines(n, c)
    <2>1. n <= n
      OBVIOUS
    <2> QED BY <2>1 DEF Engines
  <1>3. PICK g : RemakeSteps(n, start, c, kept, g) /\ Remade(start, c, kept) = g[len]
    BY <1>2, RemadeUnfolds
  <1>4. g[0] = start /\ \A k \in 1 .. len : g[k] = Rewrite(g[k - 1], c, kept[k])
    BY <1>3 DEF RemakeSteps
  <1> HIDE DEF len
  <1> DEFINE S == {k \in Nat : k <= len => RemadeUpto(n, start, f, st, c, kept, k, g[k])}
  <1>5. 0 \in S
    <2>1. SubSeq(kept, 1, 0) = <<>> /\ n <= n
      OBVIOUS
    <2>2. RemadeAs(start, f, st, c, kept, 0, n, start, f)
      BY <2>1, OthersSame DEF RemadeAs
    <2> QED BY <1>4, <2>1, <2>2 DEF RemadeUpto
  <1>6. \A k \in Nat : k \in S => k + 1 \in S
    <2> TAKE k \in Nat
    <2> SUFFICES ASSUME k \in S, k + 1 <= len
                 PROVE  RemadeUpto(n, start, f, st, c, kept, k + 1, g[k + 1])
      <3>1. k + 1 \in Nat
        OBVIOUS
      <3> QED BY <3>1
    <2>1. k + 1 \in 1 .. len /\ (k + 1) - 1 = k /\ k + 1 <= Len(kept)
      BY <1>1 DEF len
    <2>2. RemadeUpto(n, start, f, st, c, kept, k, g[k])
      BY <1>1, <2>1
    <2>3. g[k + 1] = Rewrite(g[k], c, kept[k + 1])
      BY <1>4, <2>1
    <2>4. RemadeUpto(n, start, f, st, c, kept, k + 1, Rewrite(g[k], c, kept[k + 1]))
      BY ONLY n \in Nat, n >= ROOT_PAGES, c \in Chats, c \in DOMAIN start.tips,
              kept \in Seq(Message), k \in Nat, <2>1, <2>2, RemakeOne
    <2> QED BY <2>3, <2>4
  <1>7. \A k \in Nat : k \in S
    <2> HIDE DEF S
    <2> QED BY <1>5, <1>6, NatSetInduction
  <1> QED BY <1>1, <1>3, <1>7 DEF len

\* The walk from the first page of a list visits the list.
LEMMA ChainIs ==
    ASSUME NEW n \in Nat, n >= ROOT_PAGES, NEW h \in Heap(n), NEW f, NEW st, Lists(n, h, f, st),
           NEW o \in Owners, f[o] # <<>>
    PROVE  Chain(h, f[o][1]) = f[o] /\ ReadChain(h, f[o][1]) = ReadOf(h, f[o])
  <1>1. f[o] \in Seq(New(n)) /\ Path(h, f[o]) /\ Distinct(f[o])
    BY ListsFacts DEF Listed
  <1>2. Chain(h, f[o][1]) = f[o]
    BY <1>1, PathIsChain
  <1> QED BY <1>2, ReadIs

\* The tips lead to the chains.
TipsAre(t, f) ==
    /\ DOMAIN t = {c \in Chats : f[c] # <<>>}
    /\ \A c \in DOMAIN t : t[c].head = f[c][1] /\ t[c].tail = Last(f[c])

\* What trim_chat_keep_last leaves of the other chats, and of its own
Kepts(e, f, c, t, f2) ==
    /\ Others(e.s.mem, f, t.s.mem, f2, c)
    /\ \A d \in DOMAIN t.tips : d # c => d \in DOMAIN e.tips /\ t.tips[d] = e.tips[d]
    /\ \A d \in DOMAIN t.ring : d # c => d \in DOMAIN e.ring /\ t.ring[d] = e.ring[d]
Cut(kept, c, t, f2) ==
    /\ ReadOf(t.s.mem, f2[c]) = kept
    /\ c \in DOMAIN t.tips => t.tips[c].count = Len(kept)
    /\ c \in DOMAIN t.ring => c \in DOMAIN t.tips /\ t.ring[c] = LastOf(kept, RingMax)
TrimmedTo(n, e, f, st, c, keep, t) ==
    IF c \notin DOMAIN e.tips \/ e.tips[c].count <= keep THEN t = e
    ELSE \E k \in Nat : \E f2 :
            /\ n <= k /\ t \in Engine(k) /\ Lists(k, t.s.mem, f2, st) /\ TipsAre(t.tips, f2)
            /\ Kepts(e, f, c, t, f2) /\ Cut(LastOf(ReadOf(e.s.mem, f[c]), keep), c, t, f2)

FirstTip(n, t, c, id) ==
    LET u == Put(t, c, Tip(id, id, 0))
    IN  /\ u \in Tips(n) /\ DOMAIN u = DOMAIN t \cup {c} /\ u[c] = Tip(id, id, 0)
        /\ \A d : d \in DOMAIN t /\ d # c => u[d] = t[d]
\* The tip of a chat that has one page
LEMMA PutFirst ==
    ASSUME NEW n \in Nat, NEW t \in Tips(n), NEW c \in Owners, NEW id \in New(n)
    PROVE  FirstTip(n, t, c, id)
  BY PutTip DEF FirstTip

\* chat_trim_keep_last: the chat reads the last messages, and no other chat changes.
LEMMA TrimChain ==
    ASSUME NEW n \in Nat, n >= ROOT_PAGES, NEW e \in Engine(n), NEW f, NEW st,
           Lists(n, e.s.mem, f, st), TipsAre(e.tips, f), NEW c \in Chats, NEW keep \in Nat
    PROVE  TrimmedTo(n, e, f, st, c, keep, TrimChat(e, c, keep))
  <1> DEFINE tip   == e.tips[c]
             all   == ReadChain(e.s.mem, tip.head)
             kept  == Kept(all, keep)
             chain == Chain(e.s.mem, tip.head)
             freed == [e EXCEPT !.s = Freed(e.s, chain), !.index = DeleteChat(e.index, c)]
             a     == AllocChatPage(freed.s, c)
             start == [freed EXCEPT !.s = a.s, !.tips = Put(freed.tips, c, Tip(a.id, a.id, 0))]
             done  == Remade(start, c, kept)
             trimmed == TrimChat(e, c, keep)
  <1>1. trimmed =
            IF c \notin DOMAIN e.tips \/ tip.count <= keep THEN e
            ELSE IF kept = <<>>
                 THEN [freed EXCEPT !.tips = Without(freed.tips, {c}), !.ring = Without(freed.ring, {c})]
                 ELSE [done EXCEPT !.ring = Put(done.ring, c, LastOf(kept, RingMax))]
    BY DEF TrimChat, Freed, Remade
  <1> HIDE DEF trimmed
  <1> DEFINE idle == c \notin DOMAIN e.tips \/ e.tips[c].count <= keep
  <1>2. CASE idle
    <2>1. trimmed = e
      <3> HIDE DEF kept, freed, done
      <3> QED BY <1>1, <1>2
    <2> QED BY <1>2, <2>1 DEF TrimmedTo, trimmed
  <1>3. CASE ~idle
    <2>1. /\ e.s \in Store(n) /\ e.s.mem \in Heap(n) /\ e.tips \in Tips(n)
          /\ e.index \in Index(n) /\ e.ring \in Rings
          /\ e = [s |-> e.s, tips |-> e.tips, index |-> e.index, ring |-> e.ring]
      BY EngineParts
    <2>2. c \in DOMAIN e.tips /\ c \in Owners /\ f[c] # <<>> /\ tip.head = f[c][1]
      BY <1>3 DEF TipsAre, Owners
    <2>3. chain = f[c] /\ all = ReadOf(e.s.mem, f[c])
      BY <2>1, <2>2, ChainIs
    <2>4. trimmed = IF kept = <<>>
                 THEN [freed EXCEPT !.tips = Without(freed.tips, {c}), !.ring = Without(freed.ring, {c})]
                 ELSE [done EXCEPT !.ring = Put(done.ring, c, LastOf(kept, RingMax))]
      <3> HIDE DEF kept, freed, done
      <3> QED BY <1>1, <1>3
    <2> DEFINE rd == ReadOf(e.s.mem, f[c])
    <2>5. rd \in Seq(Message) /\ f[c] \in Seq(New(n))
      <3>1. f[c] \in Seq(New(n))
        BY <2>2, ListsFacts
      <3> QED BY <2>1, <3>1, HeapRows
    <2> HIDE DEF tip
    <2>6. kept = LastOf(rd, keep) /\ kept \in Seq(Message)
      <3>1. kept = LastOf(rd, keep)
        BY <2>3 DEF Kept
      <3> QED BY <2>5, <3>1, LastOfTyped
    <2> HIDE DEF kept, rd
    <2>7. PICK f1 : /\ Freed(e.s, f[c]) \in Store(n) /\ Lists(n, Freed(e.s, f[c]).mem, f1, st)
                    /\ f1[c] = <<>> /\ Others(e.s.mem, f, Freed(e.s, f[c]).mem, f1, c)
      BY ONLY n \in Nat, n >= ROOT_PAGES, c \in Chats, Lists(n, e.s.mem, f, st), <2>1, FreeAll
    <2>8. DeleteChat(e.index, c) \in Index(n)
      BY <2>1, <2>2, DeleteChatTyped
    <2>9. /\ freed.s \in Store(n) /\ freed.tips = e.tips /\ freed.ring = e.ring
          /\ freed.index \in Index(n)
          /\ Lists(n, freed.s.mem, f1, st) /\ Others(e.s.mem, f, freed.s.mem, f1, c)
          /\ freed = [s |-> freed.s, tips |-> freed.tips, index |-> freed.index, ring |-> freed.ring]
      <3> DEFINE s == Freed(e.s, chain)
                 i == DeleteChat(e.index, c)
      <3>1. freed = [e EXCEPT !.s = s, !.index = i]
        OBVIOUS
      <3>2. s = Freed(e.s, f[c])
        BY <2>3
      <3> HIDE DEF s, i, freed
      <3>3. freed = [s |-> s, tips |-> e.tips, index |-> i, ring |-> e.ring]
        BY <2>1, <3>1
      <3>4. i \in Index(n)
        BY <2>8 DEF i
      <3> QED BY <2>7, <3>2, <3>3, <3>4
    <2> HIDE DEF freed
    <2>10. CASE kept = <<>>
      <3> DEFINE t1 == Without(freed.tips, {c})
                 r1 == Without(freed.ring, {c})
      <3>1. trimmed = [freed EXCEPT !.tips = t1, !.ring = r1]
        BY <2>4, <2>10
      <3>2. /\ t1 = [d \in DOMAIN e.tips \ {c} |-> e.tips[d]]
            /\ r1 = [d \in DOMAIN e.ring \ {c} |-> e.ring[d]]
        BY <2>9 DEF Without
      <3>3. t1 \in Tips(n) /\ r1 \in Rings
        <4> DEFINE R == [head : New(n), tail : New(n), count : Nat]
                   Q == {r \in Seq(Message) : Len(r) <= RingMax}
        <4>1. e.tips \in Partial(Owners, R) /\ e.ring \in Partial(Owners, Q)
          BY <2>1 DEF Tips, Rings
        <4> HIDE DEF R, Q
        <4>2. Without(e.tips, {c}) \in Partial(Owners, R)
          BY <4>1, WithoutTyped
        <4>3. Without(e.ring, {c}) \in Partial(Owners, Q)
          BY <4>1, WithoutTyped
        <4> QED BY <2>9, <4>2, <4>3 DEF R, Q, Tips, Rings
      <3> HIDE DEF t1, r1
      <3>4. trimmed = [s |-> freed.s, tips |-> t1, index |-> freed.index, ring |-> r1]
        BY <2>9, <3>1
      <3>5. trimmed \in Engine(n) /\ Lists(n, trimmed.s.mem, f1, st)
        BY <2>9, <3>3, <3>4 DEF Engine
      <3>6. \A d \in Chats : d # c => f1[d] = f[d]
        BY <2>9 DEF Others
      <3>7. TipsAre(trimmed.tips, f1)
        <4>1. DOMAIN t1 = {d \in Chats : f1[d] # <<>>}
          BY <2>7, <3>2, <3>6 DEF TipsAre
        <4>2. ASSUME NEW d \in DOMAIN t1 PROVE t1[d].head = f1[d][1] /\ t1[d].tail = Last(f1[d])
          <5>1. d \in Chats /\ d # c /\ d \in DOMAIN e.tips /\ t1[d] = e.tips[d]
            BY <3>2 DEF TipsAre
          <5> QED BY <3>6, <5>1 DEF TipsAre
        <4> QED BY <3>4, <4>1, <4>2 DEF TipsAre
      <3>8. Kepts(e, f, c, trimmed, f1)
        <4>1. /\ \A d \in DOMAIN t1 : d # c => d \in DOMAIN e.tips /\ t1[d] = e.tips[d]
              /\ \A d \in DOMAIN r1 : d # c => d \in DOMAIN e.ring /\ r1[d] = e.ring[d]
          BY <3>2
        <4> QED BY <2>9, <3>4, <4>1 DEF Kepts
      <3>9. Cut(kept, c, trimmed, f1)
        <4>1. c \notin DOMAIN t1 /\ c \notin DOMAIN r1
          BY <3>2
        <4>2. ReadOf(trimmed.s.mem, f1[c]) = kept
          BY <2>7, <2>10, ReadNone
        <4> QED BY <3>4, <4>1, <4>2 DEF Cut
      <3>10. n <= n
        OBVIOUS
      <3> QED BY <1>3, <2>6, <3>5, <3>7, <3>8, <3>9, <3>10 DEF TrimmedTo, rd, trimmed
    <2>11. CASE kept # <<>>
      <3>1. \E k \in {n, n + 1} : \E f2 :
                a.s \in Store(k) /\ Taken(n, k, freed.s.mem, f1, st, c, a.s.mem, f2, a.id)
        BY ONLY n \in Nat, n >= ROOT_PAGES, c \in Chats, <2>9, Taking
      <3> HIDE DEF a
      <3>1a. PICK k \in {n, n + 1} :
                 \E f2 : a.s \in Store(k) /\ Taken(n, k, freed.s.mem, f1, st, c, a.s.mem, f2, a.id)
        BY <3>1
      <3>2. PICK f2 : a.s \in Store(k) /\ Taken(n, k, freed.s.mem, f1, st, c, a.s.mem, f2, a.id)
        BY <3>1a
      <3>3. k \in Nat /\ k >= ROOT_PAGES /\ n <= k
        BY DEF ROOT_PAGES
      <3> DEFINE h == a.s.mem
                 id == a.id
                 f3 == PageJoined(f2, c, id)
      <3>4. /\ Lists(k, h, f2, st \cup {id}) /\ id \in New(k) /\ id \notin ToSet(f2[c])
            /\ f2[c] = <<>> /\ h \in Heap(k)
            /\ h[id].at32 = c /\ h[id].ty = "chat" /\ h[id].rows = <<>> /\ h[id].next = 0
        <4>1. /\ h[id] = ChatPage(c) /\ f2[c] = f1[c] /\ Lists(k, h, f2, st \cup {id})
              /\ id \in New(k) /\ id \notin ToSet(f2[c])
          BY <2>2, <3>2 DEF Taken
        <4>2. h \in Heap(k)
          BY <3>2 DEF Store
        <4> HIDE DEF h, id
        <4> QED BY <2>2, <2>7, <3>3, <4>1, <4>2, ChatPageTyped
      <3>5. \A d \in Chats : f2[d] = f1[d] /\ ReadOf(h, f2[d]) = ReadOf(freed.s.mem, f1[d])
        <4>1. freed.s.mem \in Heap(n)
          BY <2>9 DEF Store
        <4>2. ReadsStay(freed.s.mem, f1, h, f2)
          BY ONLY n \in Nat, n >= ROOT_PAGES, <2>9, <3>2, <4>1, TakenReads
        <4> QED BY <4>2 DEF ReadsStay
      <3> HIDE DEF h, id
      <3>6. Joined(k, h, f2, st, c, id, h, f3)
        <4>1. Relinked(k, h, h, 0, id)
          BY DEF Relinked
        <4>2. 0 = IF f2[c] = <<>> THEN 0 ELSE Last(f2[c])
          BY <3>4
        <4> QED BY ONLY c \in Chats, <3>3, <3>4, <4>1, <4>2, Joining
      <3> HIDE DEF f3
      <3>7. /\ Lists(k, h, f3, st) /\ f3[c] # <<>> /\ Last(f3[c]) = id /\ f3[c][1] = id
            /\ \A d \in Chats : d # c => f3[d] = f1[d]
            /\ \A d \in Chats : ReadOf(h, f3[d]) = ReadOf(freed.s.mem, f1[d])
        <4>1. \A d \in Chats : d \in Owners
          BY DEF Owners
        <4> QED BY <3>4, <3>5, <3>6, <4>1 DEF Joined
      <3> DEFINE t0 == Put(freed.tips, c, Tip(id, id, 0))
      <3>8. /\ t0 \in Tips(k) /\ DOMAIN t0 = DOMAIN e.tips /\ t0[c] = Tip(id, id, 0)
            /\ \A d \in DOMAIN e.tips : d # c => t0[d] = e.tips[d]
        <4>1. freed.tips \in Tips(k)
          BY <2>1, <2>9, <3>3, MapsGrow
        <4>2. 0 \in Nat /\ DOMAIN e.tips \cup {c} = DOMAIN e.tips
          BY <2>2
        <4>3. id \in New(k) /\ c \in Owners
          BY <2>2, <3>4
        <4>4. FirstTip(k, freed.tips, c, id)
          BY ONLY <3>3, <4>1, <4>3, PutFirst
        <4> QED BY <2>9, <4>2, <4>4 DEF FirstTip
      <3>9. start = [s |-> a.s, tips |-> t0, index |-> freed.index, ring |-> freed.ring]
        <4>1. start = [freed EXCEPT !.s = a.s, !.tips = t0]
          BY DEF id
        <4> HIDE DEF start, t0
        <4> QED BY <2>9, <4>1
      <3> HIDE DEF start, t0
      <3>10. start \in Engine(k)
        <4>1. freed.index \in Index(k)
          BY <2>1, <2>9, <3>3, MapsGrow
        <4> QED BY <2>1, <2>9, <3>2, <3>8, <3>9, <4>1 DEF Engine
      <3>11. /\ start.s.mem = h /\ start.tips = t0 /\ start.ring = e.ring
             /\ c \in DOMAIN start.tips /\ start.tips[c] = Tip(f3[c][1], Last(f3[c]), 0)
             /\ ReadOf(start.s.mem, f3[c]) = <<>> /\ Lists(k, start.s.mem, f3, st)
        <4>1. start.s.mem = h /\ start.tips = t0 /\ start.ring = e.ring
          BY <2>9, <3>9 DEF h
        <4>2. ReadOf(h, f3[c]) = <<>>
          BY <2>7, <3>7, ReadNone
        <4> QED BY <2>2, <3>7, <3>8, <4>1, <4>2
      <3>12. RemadeUpto(k, start, f3, st, c, kept, Len(kept), done)
        BY ONLY c \in Chats, <2>6, <3>3, <3>7, <3>10, <3>11, RemakeAll
      <3> HIDE DEF done
      <3>12a. PICK i \in Nat : \E f4 : k <= i /\ RemadeAs(start, f3, st, c, kept, Len(kept), i, done, f4)
        BY <3>12 DEF RemadeUpto
      <3>13. PICK f4 : k <= i /\ RemadeAs(start, f3, st, c, kept, Len(kept), i, done, f4)
        BY <3>12a
      <3>14. /\ done \in Engine(i) /\ Lists(i, done.s.mem, f4, st) /\ f4[c] # <<>>
             /\ DOMAIN done.tips = DOMAIN e.tips
             /\ done.tips[c] = Tip(f4[c][1], Last(f4[c]), Len(kept))
             /\ \A d \in DOMAIN e.tips : d # c => done.tips[d] = e.tips[d]
             /\ done.ring = e.ring
             /\ ReadOf(done.s.mem, f4[c]) = SubSeq(kept, 1, Len(kept))
             /\ Others(h, f3, done.s.mem, f4, c)
        BY <3>8, <3>11, <3>13 DEF RemadeAs
      <3> DEFINE last == LastOf(kept, RingMax)
                 r1 == Put(done.ring, c, last)
      <3>15. /\ done = [s |-> done.s, tips |-> done.tips, index |-> done.index, ring |-> done.ring]
             /\ done.s \in Store(i) /\ done.tips \in Tips(i) /\ done.index \in Index(i)
        BY <3>14, EngineParts
      <3>16. r1 \in Rings
        <4>1. last \in Seq(Message) /\ Len(last) <= RingMax
          BY <2>6, CapFacts, LastOfTyped
        <4> HIDE DEF last
        <4> QED BY <2>1, <2>2, <3>14, <4>1, PutRing
      <3>17. r1 = [d \in DOMAIN e.ring \cup {c} |-> IF d = c THEN last ELSE e.ring[d]]
        BY <3>14 DEF Put
      <3> HIDE DEF r1, last
      <3>18. trimmed = [done EXCEPT !.ring = r1]
        BY <2>4, <2>11 DEF r1, last
      <3>19. trimmed = [s |-> done.s, tips |-> done.tips, index |-> done.index, ring |-> r1]
        BY <3>15, <3>18
      <3>20. trimmed \in Engine(i) /\ Lists(i, trimmed.s.mem, f4, st) /\ n <= i
        <4>1. n <= i
          BY <3>3, <3>13
        <4> QED BY <3>14, <3>15, <3>16, <3>19, <4>1 DEF Engine
      <3>21. \A d \in Chats : d # c => f4[d] = f[d] /\ ReadOf(trimmed.s.mem, f4[d]) = ReadOf(e.s.mem, f[d])
        BY <2>9, <3>7, <3>14, <3>19 DEF Others
      <3>22. TipsAre(trimmed.tips, f4)
        <4>1. DOMAIN done.tips = {d \in Chats : f4[d] # <<>>}
          BY <2>2, <3>14, <3>21 DEF TipsAre
        <4>2. ASSUME NEW d \in DOMAIN done.tips
              PROVE  done.tips[d].head = f4[d][1] /\ done.tips[d].tail = Last(f4[d])
          <5>1. CASE d = c
            BY <3>14, <5>1 DEF Tip
          <5>2. CASE d # c
            BY <3>14, <3>21, <5>2 DEF TipsAre
          <5> QED BY <5>1, <5>2
        <4> QED BY <3>19, <4>1, <4>2 DEF TipsAre
      <3>23. Kepts(e, f, c, trimmed, f4)
        <4>1. \A d \in DOMAIN r1 : d # c => d \in DOMAIN e.ring /\ r1[d] = e.ring[d]
          BY <3>17
        <4> QED BY <3>14, <3>19, <3>21, <4>1 DEF Kepts, Others
      <3>24. Cut(kept, c, trimmed, f4)
        <4>1. SubSeq(kept, 1, Len(kept)) = kept
          BY <2>6
        <4>2. r1[c] = last
          BY <3>17
        <4> QED BY <2>2, <3>14, <3>19, <4>1, <4>2 DEF Cut, Tip, last
      <3> QED BY <1>3, <2>6, <3>20, <3>22, <3>23, <3>24 DEF TrimmedTo, rd, trimmed
    <2> QED BY <2>10, <2>11
  <1> QED BY <1>2, <1>3

-----------------------------------------------------------------------------
(* The last of some rows. *)

\* What the last k of a sequence are
LEMMA LastOfFacts ==
    ASSUME NEW rows \in Seq(Message), NEW k \in Nat
    PROVE  /\ LastOf(rows, k) \in Seq(Message) /\ Len(rows) \in Nat
           /\ Len(LastOf(rows, k)) = (IF Len(rows) > k THEN k ELSE Len(rows))
           /\ Len(LastOf(rows, k)) \in Nat /\ Len(LastOf(rows, k)) <= Len(rows)
           /\ \A j \in 1 .. Len(LastOf(rows, k)) :
                 LastOf(rows, k)[j] = rows[(Len(rows) - Len(LastOf(rows, k))) + j]
  <1> DEFINE u == LastOf(rows, k)
             len == Len(rows)
  <1>1. len \in Nat
    OBVIOUS
  <1>2. CASE len > k
    <2>1. u = SubSeq(rows, len - k + 1, len)
      BY <1>2 DEF LastOf
    <2>2. u \in Seq(Message) /\ Len(u) = k /\ \A j \in 1 .. k : u[j] = rows[(len - k) + j]
      BY <1>1, <1>2, <2>1
    <2> HIDE DEF u, len
    <2>3. Len(u) \in Nat /\ Len(u) <= len /\ \A j \in 1 .. Len(u) : u[j] = rows[(len - Len(u)) + j]
      BY <1>1, <1>2, <2>2
    <2> QED BY <1>1, <1>2, <2>2, <2>3 DEF u, len
  <1>3. CASE ~(len > k)
    <2>1. u = SubSeq(rows, 1, len)
      BY <1>3 DEF LastOf
    <2>2. u \in Seq(Message) /\ Len(u) = len /\ \A j \in 1 .. len : u[j] = rows[j]
      BY <1>1, <2>1
    <2>3. \A j \in 1 .. len : (len - len) + j = j
      BY <1>1
    <2> HIDE DEF u, len
    <2>4. \A j \in 1 .. Len(u) : u[j] = rows[(len - Len(u)) + j]
      BY <1>1, <2>2, <2>3
    <2> QED BY <1>1, <1>3, <2>2, <2>4 DEF u, len
  <1> QED BY <1>2, <1>3

\* Sequences of messages that agree everywhere are one.
LEMMA SameRowsEqual ==
    ASSUME NEW u \in Seq(Message), NEW v \in Seq(Message), Len(u) = Len(v),
           \A j \in 1 .. Len(u) : u[j] = v[j]
    PROVE  u = v
  OBVIOUS

\* The last of the last are the last.
LEMMA LastOfLast ==
    ASSUME NEW rows \in Seq(Message), NEW l \in Nat, NEW k \in Nat, k <= Len(LastOf(rows, l))
    PROVE  LastOf(LastOf(rows, l), k) = LastOf(rows, k)
  <1> DEFINE u == LastOf(rows, l)
             a == LastOf(u, k)
             d == LastOf(rows, k)
             len == Len(rows)
             m == Len(u)
  <1>1. /\ u \in Seq(Message) /\ m \in Nat /\ m <= len /\ len \in Nat
        /\ \A j \in 1 .. m : u[j] = rows[(len - m) + j]
    BY LastOfFacts
  <1> HIDE DEF u
  <1>2. a \in Seq(Message) /\ Len(a) = k /\ \A j \in 1 .. k : a[j] = u[(m - k) + j]
    <2>1. /\ a \in Seq(Message) /\ Len(a) = IF m > k THEN k ELSE m
          /\ \A j \in 1 .. Len(a) : a[j] = u[(m - Len(a)) + j]
      BY <1>1, LastOfFacts
    <2>2. (IF m > k THEN k ELSE m) = k
      BY <1>1 DEF u
    <2> HIDE DEF a
    <2> QED BY <2>1, <2>2
  <1>3. d \in Seq(Message) /\ Len(d) = k /\ \A j \in 1 .. k : d[j] = rows[(len - k) + j]
    <2>1. /\ d \in Seq(Message) /\ Len(d) = IF len > k THEN k ELSE len
          /\ \A j \in 1 .. Len(d) : d[j] = rows[(len - Len(d)) + j]
      BY <1>1, LastOfFacts
    <2>2. (IF len > k THEN k ELSE len) = k
      BY <1>1 DEF u
    <2> HIDE DEF d
    <2> QED BY <2>1, <2>2
  <1>4. \A j \in 1 .. k : a[j] = d[j]
    <2> TAKE j \in 1 .. k
    <2>1. k <= m
      BY DEF u
    <2> HIDE DEF m, len, a, d
    <2>2. (m - k) + j \in 1 .. m /\ (len - m) + ((m - k) + j) = (len - k) + j
      BY <1>1, <2>1
    <2>3. u[(m - k) + j] = rows[(len - m) + ((m - k) + j)]
      BY <1>1, <2>2
    <2> QED BY <1>2, <1>3, <2>2, <2>3
  <1> HIDE DEF a, d
  <1>5. a = d
    BY <1>2, <1>3, <1>4, SameRowsEqual
  <1> QED BY <1>5 DEF a, d, u

\* A ring that holds the last rows still does when a row comes to both.
LEMMA LastOfPush ==
    ASSUME NEW rows \in Seq(Message), NEW r \in Seq(Message), r = LastOf(rows, Len(r)),
           NEW m \in Message
    PROVE  PushRing(r, m) = LastOf(Append(rows, m), Len(PushRing(r, m)))
  <1> DEFINE all == Append(rows, m)
             more == Append(r, m)
  <1>1. /\ all \in Seq(Message) /\ Len(all) = Len(rows) + 1 /\ all[Len(rows) + 1] = m
        /\ \A j \in 1 .. Len(rows) : all[j] = rows[j]
        /\ more \in Seq(Message) /\ Len(more) = Len(r) + 1 /\ more[Len(r) + 1] = m
        /\ \A j \in 1 .. Len(r) : more[j] = r[j]
        /\ Len(rows) \in Nat /\ Len(r) \in Nat
    OBVIOUS
  <1>2. Len(r) <= Len(rows) /\ \A j \in 1 .. Len(r) : r[j] = rows[(Len(rows) - Len(r)) + j]
    <2> DEFINE k == Len(r)
               u == LastOf(rows, k)
    <2>0. k \in Nat
      OBVIOUS
    <2>1. /\ Len(u) <= Len(rows)
          /\ \A j \in 1 .. Len(u) : u[j] = rows[(Len(rows) - Len(u)) + j]
      BY <2>0, LastOfFacts
    <2>2. r = u
      OBVIOUS
    <2> HIDE DEF u
    <2> QED BY <2>1, <2>2
  <1> DEFINE k == Len(r) + 1
             d == LastOf(all, k)
  <1> HIDE DEF all, more
  <1>3. d = more
    <2>1. k \in Nat /\ k <= Len(all)
      BY <1>1, <1>2
    <2>2. /\ d \in Seq(Message) /\ Len(d) = k
          /\ \A j \in 1 .. k : d[j] = all[(Len(all) - k) + j]
      <3>1. (IF Len(all) > k THEN k ELSE Len(all)) = k
        BY <1>1, <2>1
      <3>2. /\ d \in Seq(Message) /\ Len(d) = (IF Len(all) > k THEN k ELSE Len(all))
            /\ \A j \in 1 .. Len(d) : d[j] = all[(Len(all) - Len(d)) + j]
        BY <1>1, <2>1, LastOfFacts
      <3> HIDE DEF d
      <3> QED BY <3>1, <3>2
    <2>3. \A j \in 1 .. k : d[j] = more[j]
      <3> TAKE j \in 1 .. k
      <3>1. CASE j = k
        <4>1. (Len(all) - k) + j = Len(rows) + 1
          BY <1>1, <2>1, <3>1
        <4> QED BY <1>1, <2>2, <3>1, <4>1
      <3>2. CASE j # k
        <4>1. j \in 1 .. Len(r)
          BY <1>1, <3>2
        <4>2. (Len(all) - k) + j = (Len(rows) - Len(r)) + j
          BY <1>1
        <4>3. (Len(rows) - Len(r)) + j \in 1 .. Len(rows)
          BY <1>1, <1>2, <4>1
        <4> QED BY <1>1, <1>2, <2>2, <4>1, <4>2, <4>3
      <3> QED BY <3>1, <3>2
    <2> HIDE DEF d
    <2> QED BY <1>1, <2>2, <2>3, SameRowsEqual
  <1> DEFINE p == PushRing(r, m)
  <1>4. p = LastOf(more, RingMax) /\ RingMax \in Nat
    BY CapFacts DEF PushRing, more
  <1>5. Len(p) \in Nat /\ Len(p) <= RingMax /\ Len(p) <= Len(more) /\ p = LastOf(more, Len(p))
    <2> DEFINE len == IF Len(more) > RingMax THEN RingMax ELSE Len(more)
    <2>1. Len(p) = len /\ len \in Nat
      BY <1>1, <1>4, LastOfFacts
    <2>2. CASE Len(more) > RingMax
      BY <1>1, <1>4, <2>1, <2>2
    <2>3. CASE ~(Len(more) > RingMax)
      <3>1. Len(p) = Len(more) /\ p = SubSeq(more, 1, Len(more)) /\ p = more
        BY <1>1, <1>4, <2>1, <2>3 DEF LastOf
      <3>2. LastOf(more, Len(more)) = SubSeq(more, 1, Len(more))
        BY <1>1 DEF LastOf
      <3> QED BY <1>1, <1>4, <2>1, <2>3, <3>1, <3>2
    <2> QED BY <2>2, <2>3
  <1> HIDE DEF p
  <1>6. LastOf(more, Len(p)) = LastOf(all, Len(p))
    <2>1. k \in Nat /\ Len(p) <= Len(LastOf(all, k))
      BY <1>1, <1>3, <1>5
    <2>2. LastOf(LastOf(all, k), Len(p)) = LastOf(all, Len(p))
      BY <1>1, <1>5, <2>1, LastOfLast
    <2> QED BY <1>3, <2>2
  <1> QED BY <1>5, <1>6 DEF p, all

-----------------------------------------------------------------------------
(* The invariant of the chains. *)

\* The pages that may be in no list: of the append under way, of those that failed
Limbo(ph, cl, lo) == lo \cup IF ph = "link" THEN {cl.page} ELSE {}

\* What a walk reads are the messages of the log and those of failed appends, when
\* trims do not get in the way of opens and failures.
InOrder(su) == su.trims = 0 \/ (su.fails = 0 /\ su.ckpts = 0)
Told(rd, fl, lg, b) ==
    NotIn(rd, fl) = lg /\ Distinct(rd) /\ \A m \in ToSet(rd) : m.body <= b
Ordered(su, h, f, lg, fl, b) ==
    /\ lg \in [Chats -> Seq(Message)]
    /\ InOrder(su) => \A c \in Chats : Told(ReadOf(h, f[c]), fl, lg[c], b)

\* Without trims, pages are taken in ascending order.
Ascends(s) == \A j, k \in DOMAIN s : j < k => s[j] < s[k]
Rising(su, f) == su.trims = 0 => f[0] = <<>> /\ \A c \in Chats : Ascends(f[c])

Failures(su, fl, b) == (su.fails = 0 => fl = {}) /\ \A m \in fl : m.body <= b

Laid(n, h, f, st, su, lg, fl, b) ==
    /\ h \in Heap(n) /\ Lists(n, h, f, st)
    /\ Ordered(su, h, f, lg, fl, b) /\ Rising(su, f) /\ Failures(su, fl, b)

\* The tips and the rings of a running engine
Counts(t, h, f, fl) ==
    \A c \in DOMAIN t : /\ Len(NotIn(ReadOf(h, f[c]), fl)) <= t[c].count
                        /\ t[c].count <= Len(ReadOf(h, f[c]))
RingsAre(rg, t, h, f, fl) ==
    fl = {} => \A c \in DOMAIN rg : /\ c \in DOMAIN t
                                    /\ rg[c] = LastOf(ReadOf(h, f[c]), Len(rg[c]))
Tipped(t, rg, h, f, fl) == TipsAre(t, f) /\ Counts(t, h, f, fl) /\ RingsAre(rg, t, h, f, fl)

\* The append under way
AtLink(su, cl, m, f, t) ==
    /\ m[cl.page] = ChatPage(cl.chat) /\ \A o \in Owners : cl.page \notin ToSet(f[o])
    /\ cl.prev = IF cl.chat \in DOMAIN t THEN t[cl.chat].tail ELSE 0
    /\ su.trims = 0 => \A c \in Chats : \A p \in ToSet(f[c]) : p < cl.page
Calling(su, ph, cl, m, f, t, i) ==
    /\ ph \in {"link", "insert"} => cl.msg.body = i
    /\ ph = "link" => AtLink(su, cl, m, f, t)
    /\ ph = "insert" => cl.chat \in DOMAIN t /\ cl.page = t[cl.chat].tail

\* What a checkpoint leaves: the engine ends with one, and then the file is all there is.
Resting(n, ph, dk, m, w, su) ==
    /\ ph \in {"flushed", "snapped", "persisted"} => dk = m /\ su.ckpts > 0
    /\ ph \in {"closed", "replay"} => w = <<>>
    /\ ph = "closed" /\ su.ckpts = 0 => n = ROOT_PAGES

Chained(n, f) ==
    /\ Laid(n, View(phase, disk, mem), f, Limbo(phase, call, lost), setup, log, failed,
            Placed(phase, did.appends))
    /\ phase # "closed" => Tipped(tips, ring, mem, f, failed)
    /\ Calling(setup, phase, call, mem, f, tips, did.appends)
    /\ Resting(n, phase, disk, mem, wal, setup)
Chains == did.crashes = 0 => \E n \in Nat : n >= ROOT_PAGES /\ \E f : Chained(n, f)

-----------------------------------------------------------------------------
(* The messages of one chat. *)

\* The number of the append in the body tells messages apart.
LEMMA NumFacts ==
    ASSUME NEW m \in Message, NEW n \in Message
    PROVE  m.body \in Nat /\ \A x \in Int : m.body = x + 1 /\ n.body <= x => m # n
  BY DEF Message

\* A later append has a larger number.
LEMMA ToldLater ==
    ASSUME NEW rd \in Seq(Message), NEW fl, NEW lg, NEW x \in Int, NEW y \in Int, x <= y,
           Told(rd, fl, lg, x)
    PROVE  Told(rd, fl, lg, y)
  <1>1. \A m \in ToSet(rd) : m.body \in Nat
    <2>1. ToSet(rd) \subseteq Message
      BY RowsFacts
    <2> QED BY <2>1 DEF Message
  <1> QED BY <1>1 DEF Told

\* An append adds its message to both.
LEMMA ToldMore ==
    ASSUME NEW rd \in Seq(Message), NEW fl \in SUBSET Message, NEW lg, NEW x \in Int,
           Told(rd, fl, lg, x), \A k \in fl : k.body <= x, NEW m \in Message, m.body = x + 1
    PROVE  /\ Told(Append(rd, m), fl, Append(lg, m), x + 1)
           /\ Told(Append(rd, m), fl \cup {m}, lg, x + 1)
           /\ m \notin fl /\ m \notin ToSet(rd)
  <1>1. rd \in Seq(Message) /\ ToSet(rd) \subseteq Message /\ Append(rd, m) \in Seq(Message)
    BY RowsFacts, RowsGrow
  <1>2. m \notin fl
    BY NumFacts
  <1>3. m \notin ToSet(rd)
    BY <1>1, NumFacts DEF Told
  <1>4. ToSet(Append(rd, m)) = ToSet(rd) \cup {m} /\ Distinct(Append(rd, m))
    BY <1>3, RowsGrow DEF Told
  <1>5. \A k \in ToSet(Append(rd, m)) : k.body <= x + 1
    <2>1. \A k \in ToSet(rd) : k.body \in Nat /\ k.body <= x
      BY <1>1 DEF Told, Message
    <2>2. m.body <= x + 1
      OBVIOUS
    <2> QED BY <1>4, <2>1, <2>2
  <1>6. NotIn(Append(rd, m), fl) = Append(NotIn(rd, fl), m)
    BY <1>2, NotInMore
  <1>7. NotIn(Append(rd, m), fl \cup {m}) = NotIn(rd, fl)
    <2>1. NotIn(Append(rd, m), fl \cup {m}) = NotIn(rd, fl \cup {m})
      BY NotInMore
    <2>2. NotIn(rd, fl \cup {m}) = NotIn(rd, fl)
      BY <1>3, NotInFacts
    <2> QED BY <2>1, <2>2
  <1> QED BY <1>2, <1>3, <1>4, <1>5, <1>6, <1>7 DEF Told

\* A trim keeps the last of both.
LEMMA ToldCut ==
    ASSUME NEW rd \in Seq(Message), NEW lg, NEW x, Told(rd, {}, lg, x), NEW k \in Nat
    PROVE  Told(LastOf(rd, k), {}, LastOf(lg, k), x)
  <1> DEFINE u == LastOf(rd, k)
             d == Len(rd) - Len(u)
  <1>1. /\ u \in Seq(Message) /\ Len(u) \in Nat /\ d \in Nat /\ Len(rd) \in Nat
        /\ \A j \in 1 .. Len(u) : u[j] = rd[d + j]
    <2>1. /\ u \in Seq(Message) /\ Len(u) \in Nat /\ Len(u) <= Len(rd) /\ Len(rd) \in Nat
          /\ \A j \in 1 .. Len(u) : u[j] = rd[(Len(rd) - Len(u)) + j]
      BY LastOfFacts
    <2> QED BY <2>1
  <1>2. \A j \in 1 .. Len(u) : d + j \in 1 .. Len(rd)
    BY <1>1
  <1>3. NotIn(u, {}) = u /\ NotIn(rd, {}) = rd
    BY <1>1, NotInFacts
  <1> HIDE DEF u, d
  <1>4. DOMAIN u = 1 .. Len(u) /\ DOMAIN rd = 1 .. Len(rd)
    BY <1>1
  <1>5. Distinct(u)
    <2> SUFFICES ASSUME NEW i \in 1 .. Len(u), NEW j \in 1 .. Len(u), u[i] = u[j] PROVE i = j
      BY <1>4 DEF Distinct
    <2>1. d + i \in DOMAIN rd /\ d + j \in DOMAIN rd /\ rd[d + i] = rd[d + j]
      BY <1>1, <1>2, <1>4
    <2>2. d + i = d + j
      BY <2>1 DEF Told, Distinct
    <2> QED BY <1>1, <2>2
  <1>6. ToSet(u) \subseteq ToSet(rd)
    BY <1>1, <1>2, <1>4 DEF ToSet
  <1> QED BY <1>3, <1>5, <1>6 DEF Told, u

\* What the two invariants say of an engine that runs
Runs(n, f) ==
    /\ n >= ROOT_PAGES /\ E \in Engine(n) /\ CallOK(n, phase, call, mem, tips)
    /\ mem \in Heap(n) /\ tips \in Tips(n) /\ ring \in Rings
    /\ setup \in Setups /\ did \in [Bounded -> Nat] /\ did.appends \in Nat
    /\ failed \subseteq Message
    /\ Laid(n, mem, f, Limbo(phase, call, lost), setup, log, failed, Placed(phase, did.appends))
    /\ Tipped(tips, ring, mem, f, failed)
    /\ Calling(setup, phase, call, mem, f, tips, did.appends)
    /\ Resting(n, phase, disk, mem, wal, setup)

\* A heap has one size.
LEMMA SameHeap ==
    ASSUME NEW n \in Nat, n >= ROOT_PAGES, NEW k \in Nat, k >= ROOT_PAGES,
           NEW h, h \in Heap(n), h \in Heap(k)
    PROVE  n = k
  <1>1. DOMAIN h = Ids(n) /\ DOMAIN h = Ids(k)
    BY HeapFacts
  <1>2. SizePages(h) = n
    BY <1>1, SizeOf
  <1>3. SizePages(h) = k
    BY <1>1, SizeOf
  <1> QED BY <1>2, <1>3

\* The invariant, while the engine is running
LEMMA Chaining ==
    ASSUME Typed, Chains, did.crashes = 0, phase # "closed"
    PROVE  \E n \in Nat : \E f : Runs(n, f)
  <1>1. PICK n \in Nat : n >= ROOT_PAGES /\ \E f : Chained(n, f)
    BY DEF Chains
  <1>2. PICK f : Chained(n, f)
    BY <1>1
  <1>3. PICK k \in Nat : /\ k >= ROOT_PAGES /\ E \in Engine(k)
                         /\ CallOK(k, phase, call, mem, tips) /\ Files(k, wal, snap, lost)
    BY Running
  <1>4. View(phase, disk, mem) = mem
    BY DEF View
  <1>5. /\ Laid(n, mem, f, Limbo(phase, call, lost), setup, log, failed, Placed(phase, did.appends))
        /\ Tipped(tips, ring, mem, f, failed)
        /\ Calling(setup, phase, call, mem, f, tips, did.appends)
        /\ Resting(n, phase, disk, mem, wal, setup)
    BY <1>2, <1>4 DEF Chained
  <1>6. mem \in Heap(n) /\ mem \in Heap(k) /\ tips \in Tips(k) /\ ring \in Rings
    BY <1>3, <1>5, EngineNow DEF Laid
  <1>7. n = k
    BY <1>1, <1>3, <1>6, SameHeap
  <1>8. setup \in Setups /\ did \in [Bounded -> Nat] /\ did.appends \in Nat /\ failed \subseteq Message
    BY DEF Typed, CountsOK, Bounded
  <1>9. Runs(n, f)
    BY <1>1, <1>3, <1>5, <1>6, <1>7, <1>8 DEF Runs
  <1> QED BY <1>9

\* The next state, when there is an engine
LEMMA NextRuns ==
    ASSUME NEW n \in Nat, n >= ROOT_PAGES, NEW f, phase' # "closed",
           Laid(n, mem', f, Limbo(phase', call', lost'), setup', log', failed',
                Placed(phase', did'.appends)),
           Tipped(tips', ring', mem', f, failed'),
           Calling(setup', phase', call', mem', f, tips', did'.appends),
           Resting(n, phase', disk', mem', wal', setup')
    PROVE  Chains'
  <1>1. View(phase', disk', mem') = mem'
    BY DEF View
  <1>2. Chained(n, f)'
    BY <1>1 DEF Chained
  <1> QED BY <1>2 DEF Chains

\* No process has died if none has before.
LEMMA NoneDied ==
    ASSUME Typed, NEW what \in Bounded, Does(what), did'.crashes = 0
    PROVE  did.crashes = 0 /\ what # "crashes" /\ did'.appends = IF what = "appends" THEN did.appends + 1
                                                                                 ELSE did.appends
  <1>1. did \in [Bounded -> Nat] /\ did' = [did EXCEPT ![what] = @ + 1]
    BY DEF Typed, CountsOK, Does
  <1>2. "crashes" \in Bounded /\ "appends" \in Bounded /\ did["crashes"] \in Nat
    BY <1>1 DEF Bounded
  <1> QED BY <1>1, <1>2

\* A call has no page outside the phases of an append.
LEMMA NotCalling ==
    ASSUME NEW su, NEW ph, ph \notin {"link", "insert"}, NEW cl, NEW m, NEW f, NEW t, NEW i, NEW lo
    PROVE  Calling(su, ph, cl, m, f, t, i) /\ Limbo(ph, cl, lo) = lo /\ Placed(ph, i) = i
  BY DEF Calling, Limbo, Placed

\* no checkpoint either.
LEMMA NotResting ==
    ASSUME NEW ph \in {"open", "link", "insert"}, NEW n, NEW dk, NEW m, NEW w, NEW su
    PROVE  Resting(n, ph, dk, m, w, su)
  BY DEF Resting

\* Nothing that the chains depend on
LEMMA SameChains ==
    ASSUME Chains, did' = did, phase' = phase, disk' = disk, mem' = mem, call' = call, lost' = lost,
           setup' = setup, log' = log, failed' = failed, tips' = tips, ring' = ring, wal' = wal
    PROVE  Chains'
  BY DEF Chains, Chained

\* A new file has no chain.
LEMMA InitChains == Init => Chains
  <1> SUFFICES ASSUME Init PROVE Chains
    OBVIOUS
  <1> DEFINE n == ROOT_PAGES
             f == [o \in Owners |-> <<>>]
             h == EmptyHeap
  <1>1. n \in Nat /\ n >= ROOT_PAGES /\ h \in Heap(n) /\ New(n) = {} /\ h[0].at32 = 0
    BY EmptyEngine DEF New, ROOT_PAGES, EmptyHeap, Alloc, Super
  <1>2. /\ disk = h /\ wal = <<>> /\ phase = "closed" /\ did.appends = 0 /\ did = [what \in Bounded |-> 0]
        /\ log = [c \in Chats |-> <<>>] /\ failed = {} /\ lost = {}
    BY DEF Init, Bounded
  <1> HIDE DEF n, h
  <1>3. Lists(n, h, f, {})
    <2>1. \A o \in Owners : f[o] = <<>> /\ Listed(n, h, o, <<>>) /\ <<>> \in Seq(New(n))
      BY <1>1, ListedEmpty
    <2>2. h[0].at32 = HeadOf(f[0])
      BY <1>1 DEF HeadOf, Owners
    <2> QED BY <1>1, <2>1, <2>2 DEF Lists
  <1>4. \A c \in Chats : f[c] = <<>> /\ ReadOf(h, f[c]) = <<>> /\ NotIn(<<>>, {}) = <<>>
    BY ReadNone, NotInNone DEF Owners
  <1>5. Laid(n, h, f, {}, setup, log, failed, 0)
    <2>1. Ordered(setup, h, f, log, failed, 0)
      <3>1. \A c \in Chats : Told(ReadOf(h, f[c]), {}, log[c], 0)
        BY <1>2, <1>4 DEF Told, Distinct, ToSet
      <3>2. log \in [Chats -> Seq(Message)]
        BY <1>2
      <3> QED BY <1>2, <3>1, <3>2 DEF Ordered
    <2>2. Rising(setup, f)
      BY <1>4 DEF Rising, Ascends, Owners
    <2>3. Failures(setup, failed, 0)
      BY <1>2 DEF Failures
    <2> QED BY <1>1, <1>2, <1>3, <2>1, <2>2, <2>3 DEF Laid
  <1>6. View(phase, disk, mem) = h
    BY <1>2 DEF View
  <1>7. /\ Calling(setup, phase, call, mem, f, tips, did.appends) /\ Limbo(phase, call, lost) = {}
        /\ Placed(phase, did.appends) = 0
    BY <1>2, NotCalling
  <1>8. Resting(n, phase, disk, mem, wal, setup)
    BY <1>2 DEF Resting, n
  <1>9. Chained(n, f)
    BY <1>2, <1>5, <1>6, <1>7, <1>8 DEF Chained
  <1> QED BY <1>1, <1>9 DEF Chains

\* The ring is the last of the messages, as many as it has.
LEMMA LastOfItself ==
    ASSUME NEW rows \in Seq(Message), NEW k \in Nat
    PROVE  LastOf(rows, k) = LastOf(rows, Len(LastOf(rows, k)))
  <1> DEFINE u == LastOf(rows, k)
             len == Len(rows)
  <1>1. /\ u \in Seq(Message) /\ len \in Nat /\ Len(u) = (IF len > k THEN k ELSE len)
    BY LastOfFacts
  <1>2. CASE len > k
    BY <1>1, <1>2
  <1>3. CASE ~(len > k)
    <2>1. Len(u) = len
      BY <1>1, <1>3
    <2>2. u = SubSeq(rows, 1, len) /\ LastOf(rows, len) = SubSeq(rows, 1, len)
      BY <1>1, <1>3 DEF LastOf
    <2> QED BY <2>1, <2>2
  <1> QED BY <1>2, <1>3

\* What chat_recent and warm_chat_rings read from a tip is what the list holds.
LEMMA TipReads ==
    ASSUME NEW n \in Nat, n >= ROOT_PAGES, NEW h \in Heap(n), NEW f, NEW st, Lists(n, h, f, st),
           NEW t, TipsAre(t, f)
    PROVE  /\ \A c \in DOMAIN t : /\ c \in Chats /\ f[c] # <<>>
                                  /\ ReadChain(h, t[c].head) = ReadOf(h, f[c])
                                  /\ Chain(h, t[c].head) = f[c]
           /\ \A c \in Chats : ReadOf(h, f[c]) \in Seq(Message) /\ f[c] \in Seq(New(n))
           /\ \A c \in Chats : c \notin DOMAIN t => ReadOf(h, f[c]) = <<>>
  <1>1. \A c \in Chats : c \in Owners /\ f[c] \in Seq(New(n))
    BY ListsFacts
  <1>2. \A c \in Chats : ReadOf(h, f[c]) \in Seq(Message)
    BY <1>1, HeapRows
  <1>3. ASSUME NEW c \in DOMAIN t
        PROVE  /\ c \in Chats /\ f[c] # <<>> /\ ReadChain(h, t[c].head) = ReadOf(h, f[c])
               /\ Chain(h, t[c].head) = f[c]
    <2>1. c \in Chats /\ f[c] # <<>> /\ t[c].head = f[c][1]
      BY DEF TipsAre
    <2> QED BY <1>1, <2>1, ChainIs
  <1>4. \A c \in Chats : c \notin DOMAIN t => ReadOf(h, f[c]) = <<>>
    BY ReadNone DEF TipsAre
  <1> QED BY <1>1, <1>2, <1>3, <1>4

\* The end of open (the index is rebuilt or loaded)
LEMMA OpenedChains ==
    ASSUME Typed, Chains, Opened PROVE Chains'
  <1> SUFFICES ASSUME did'.crashes = 0 PROVE Chains'
    BY DEF Chains
  <1>1. /\ did' = did /\ phase = "replay" /\ phase' = "open" /\ disk' = disk /\ mem' = mem
        /\ call' = call /\ lost' = lost /\ setup' = setup /\ log' = log /\ failed' = failed
        /\ tips' = tips /\ ring' = WarmRings(E) /\ wal' = wal
    BY DEF Opened, dirVars, pastVars, failVars
  <1>2. PICK n \in Nat : \E f : Runs(n, f)
    BY <1>1, Chaining
  <1>3. PICK f : Runs(n, f)
    BY <1>2
  <1>4. /\ n >= ROOT_PAGES /\ mem \in Heap(n) /\ Tipped(tips, ring, mem, f, failed)
        /\ Laid(n, mem, f, lost, setup, log, failed, did.appends)
    BY <1>1, <1>3, NotCalling DEF Runs
  <1>5. RingsAre(ring', tips, mem, f, failed)
    <2>1. ring' = [c \in DOMAIN tips |-> LastOf(ReadChain(mem, tips[c].head), RingMax)]
      BY <1>1 DEF WarmRings, E
    <2>2. \A c \in DOMAIN tips : /\ c \in Chats /\ ReadChain(mem, tips[c].head) = ReadOf(mem, f[c])
                                 /\ ReadOf(mem, f[c]) \in Seq(Message)
      BY <1>4, TipReads DEF Laid, Tipped
    <2>3. \A c \in DOMAIN ring' : c \in DOMAIN tips /\ ring'[c] = LastOf(ReadOf(mem, f[c]), RingMax)
      BY <2>1, <2>2
    <2>4. \A c \in DOMAIN ring' : ring'[c] = LastOf(ReadOf(mem, f[c]), Len(ring'[c]))
      BY <2>2, <2>3, LastOfItself, CapFacts
    <2> QED BY <2>3, <2>4 DEF RingsAre
  <1>6. Tipped(tips', ring', mem', f, failed')
    BY <1>1, <1>4, <1>5 DEF Tipped
  <1>7. Laid(n, mem', f, Limbo(phase', call', lost'), setup', log', failed', Placed(phase', did'.appends))
    BY <1>1, <1>4, NotCalling
  <1>8. Calling(setup', phase', call', mem', f, tips', did'.appends)
    BY <1>1, NotCalling
  <1>9. Resting(n, phase', disk', mem', wal', setup')
    BY <1>1, NotResting
  <1> QED BY <1>1, <1>4, <1>6, <1>7, <1>8, <1>9, NextRuns

\* chat_recent fills the ring with what it has read.
LEMMA RecentChains ==
    ASSUME Typed, Chains, NEW c \in Chats, NEW want \in Wants, Recent(c, want) PROVE Chains'
  <1> SUFFICES ASSUME did'.crashes = 0 PROVE Chains'
    BY DEF Chains
  <1>1. /\ did' = did /\ phase = "open" /\ phase' = phase /\ disk' = disk /\ mem' = mem
        /\ call' = call /\ lost' = lost /\ setup' = setup /\ log' = log /\ failed' = failed
        /\ tips' = tips /\ ring' = RefilledRing(E, c) /\ wal' = wal /\ c \in DOMAIN tips
    BY DEF Recent, dirVars, pastVars, failVars, Refills, E
  <1>2. PICK n \in Nat : \E f : Runs(n, f)
    BY <1>1, Chaining
  <1>3. PICK f : Runs(n, f)
    BY <1>2
  <1>4. /\ n >= ROOT_PAGES /\ mem \in Heap(n) /\ Tipped(tips, ring, mem, f, failed)
        /\ Laid(n, mem, f, lost, setup, log, failed, did.appends)
    BY <1>1, <1>3, NotCalling DEF Runs
  <1>5. RingsAre(ring', tips, mem, f, failed)
    <2>1. ring' = Put(ring, c, LastOf(ReadChain(mem, tips[c].head), RingMax))
      BY <1>1 DEF RefilledRing, E
    <2>2. /\ ReadChain(mem, tips[c].head) = ReadOf(mem, f[c]) /\ ReadOf(mem, f[c]) \in Seq(Message)
      BY <1>1, <1>4, TipReads DEF Laid, Tipped
    <2>3. ring' = [d \in DOMAIN ring \cup {c} |-> IF d = c THEN LastOf(ReadOf(mem, f[c]), RingMax) ELSE ring[d]]
      BY <2>1, <2>2 DEF Put
    <2>4. /\ \A d \in DOMAIN ring' : d = c \/ (d \in DOMAIN ring /\ ring'[d] = ring[d])
          /\ ring'[c] = LastOf(ReadOf(mem, f[c]), RingMax)
      BY <2>3
    <2>5. ring'[c] = LastOf(ReadOf(mem, f[c]), Len(ring'[c]))
      BY <2>2, <2>4, LastOfItself, CapFacts
    <2>6. RingsAre(ring, tips, mem, f, failed)
      BY <1>4 DEF Tipped
    <2> QED BY <1>1, <2>4, <2>5, <2>6 DEF RingsAre
  <1>6. Tipped(tips', ring', mem', f, failed')
    BY <1>1, <1>4, <1>5 DEF Tipped
  <1>7. Laid(n, mem', f, Limbo(phase', call', lost'), setup', log', failed', Placed(phase', did'.appends))
    BY <1>1, <1>4, NotCalling
  <1>8. Calling(setup', phase', call', mem', f, tips', did'.appends)
    BY <1>1, NotCalling
  <1>9. Resting(n, phase', disk', mem', wal', setup')
    BY <1>1, NotResting
  <1> QED BY <1>1, <1>4, <1>6, <1>7, <1>8, <1>9, NextRuns

\* A page written back changes what is in the file, not what is seen.
LEMMA EvictChains ==
    ASSUME Typed, Chains, NEW id \in DOMAIN mem, Evict(id) PROVE Chains'
  <1> SUFFICES ASSUME did'.crashes = 0 PROVE Chains'
    BY DEF Chains
  <1>1. /\ Does("evicts") /\ phase \in {"replay", "open", "link", "insert"} /\ phase' = phase /\ mem' = mem
        /\ call' = call /\ lost' = lost /\ setup' = setup /\ log' = log /\ failed' = failed
        /\ tips' = tips /\ ring' = ring /\ wal' = wal
    BY DEF Evict, viewVars, failVars
  <1>2. did.crashes = 0 /\ did'.appends = did.appends
    BY <1>1, NoneDied DEF Bounded
  <1>3. PICK n \in Nat : \E f : Runs(n, f)
    BY <1>1, <1>2, Chaining
  <1>4. PICK f : Runs(n, f)
    BY <1>3
  <1>5. /\ n >= ROOT_PAGES /\ Tipped(tips, ring, mem, f, failed)
        /\ Laid(n, mem, f, Limbo(phase, call, lost), setup, log, failed, Placed(phase, did.appends))
        /\ Calling(setup, phase, call, mem, f, tips, did.appends)
        /\ Resting(n, phase, disk, mem, wal, setup)
    BY <1>4 DEF Runs
  <1>6. Resting(n, phase', disk', mem', wal', setup')
    BY <1>1, <1>5 DEF Resting
  <1> QED BY <1>1, <1>2, <1>5, <1>6, NextRuns

\* flush: the file is what memory is.
LEMMA CkptFlushChains ==
    ASSUME Typed, Chains, CkptFlush PROVE Chains'
  <1> SUFFICES ASSUME did'.crashes = 0 PROVE Chains'
    BY DEF Chains
  <1>1. /\ Does("ckpts") /\ phase = "open" /\ phase' = "flushed" /\ mem' = mem /\ disk' = mem
        /\ call' = call /\ lost' = lost /\ setup' = setup /\ log' = log /\ failed' = failed
        /\ tips' = tips /\ ring' = ring /\ wal' = wal
    BY DEF CkptFlush, viewVars, failVars, Flushed
  <1>2. did.crashes = 0 /\ did'.appends = did.appends
    BY <1>1, NoneDied DEF Bounded
  <1>3. PICK n \in Nat : \E f : Runs(n, f)
    BY <1>1, <1>2, Chaining
  <1>4. PICK f : Runs(n, f)
    BY <1>3
  <1>5. /\ n >= ROOT_PAGES /\ Tipped(tips, ring, mem, f, failed)
        /\ Laid(n, mem, f, lost, setup, log, failed, did.appends)
    BY <1>1, <1>4, NotCalling DEF Runs
  <1>6. Resting(n, phase', disk', mem', wal', setup')
    <2>1. did["ckpts"] \in Nat /\ setup["ckpts"] \in Nat
      BY <1>4, SetupFacts DEF Runs, Bounded
    <2>2. setup.ckpts > 0
      BY <1>1, <2>1 DEF Does, May
    <2> QED BY <1>1, <2>2 DEF Resting
  <1>7. /\ Laid(n, mem', f, Limbo(phase', call', lost'), setup', log', failed', Placed(phase', did'.appends))
        /\ Calling(setup', phase', call', mem', f, tips', did'.appends)
    BY <1>1, <1>2, <1>5, NotCalling
  <1> QED BY <1>1, <1>5, <1>6, <1>7, NextRuns

\* Until the log is rotated, the file stays that.
LEMMA CkptMiddle ==
    ASSUME Typed, Chains, did'.crashes = 0, phase \in {"flushed", "snapped"},
           phase' \in {"flushed", "snapped", "persisted"},
           did' = did, disk' = disk, mem' = mem, call' = call, lost' = lost, setup' = setup,
           log' = log, failed' = failed, tips' = tips, ring' = ring
    PROVE  Chains'
  <1>1. PICK n \in Nat : \E f : Runs(n, f)
    BY Chaining
  <1>2. PICK f : Runs(n, f)
    BY <1>1
  <1>3. /\ n >= ROOT_PAGES /\ Tipped(tips, ring, mem, f, failed)
        /\ Laid(n, mem, f, lost, setup, log, failed, did.appends)
        /\ Resting(n, phase, disk, mem, wal, setup)
    BY <1>2, NotCalling DEF Runs
  <1>4. Resting(n, phase', disk', mem', wal', setup')
    BY <1>3 DEF Resting
  <1>5. /\ Laid(n, mem', f, Limbo(phase', call', lost'), setup', log', failed', Placed(phase', did'.appends))
        /\ Calling(setup', phase', call', mem', f, tips', did'.appends)
    BY <1>3, NotCalling
  <1> QED BY <1>3, <1>4, <1>5, NextRuns

\* The snapshot of the index,
LEMMA CkptSnapshotChains == ASSUME Typed, Chains, CkptSnapshot PROVE Chains'
  <1> SUFFICES ASSUME did'.crashes = 0 PROVE Chains'
    BY DEF Chains
  <1> QED BY CkptMiddle DEF CkptSnapshot, viewVars, pastVars, failVars

\* the superblock,
LEMMA CkptPersistChains == ASSUME Typed, Chains, CkptPersist PROVE Chains'
  <1> SUFFICES ASSUME did'.crashes = 0 PROVE Chains'
    BY DEF Chains
  <1> QED BY CkptMiddle DEF CkptPersist, viewVars, pastVars, failVars

\* and the log started anew, with nothing left to redo.
LEMMA CkptRotateChains == ASSUME Typed, Chains, CkptRotate PROVE Chains'
  <1> SUFFICES ASSUME did'.crashes = 0 PROVE Chains'
    BY DEF Chains
  <1>1. /\ did' = did /\ phase = "persisted" /\ disk' = disk /\ lost' = lost /\ setup' = setup
        /\ log' = log /\ failed' = failed /\ wal' = <<>>
        /\ IF closing THEN Gone ELSE phase' = "open" /\ UNCHANGED <<viewVars, replayed, call, closing>>
    BY DEF CkptRotate, pastVars, failVars
  <1>2. PICK n \in Nat : \E f : Runs(n, f)
    BY <1>1, Chaining
  <1>3. PICK f : Runs(n, f)
    BY <1>2
  <1>4. /\ n >= ROOT_PAGES /\ Tipped(tips, ring, mem, f, failed)
        /\ Laid(n, mem, f, lost, setup, log, failed, did.appends)
        /\ disk = mem /\ setup.ckpts > 0
    BY <1>1, <1>3, NotCalling DEF Runs, Resting
  <1>5. CASE closing
    <2>1. phase' = "closed"
      BY <1>1, <1>5 DEF Gone
    <2>2. View(phase', disk', mem') = mem
      BY <1>1, <1>4, <2>1 DEF View
    <2>3. /\ Limbo(phase', call', lost') = lost /\ Placed(phase', did'.appends) = did.appends
          /\ Calling(setup', phase', call', mem', f, tips', did'.appends)
      BY <1>1, <2>1, NotCalling
    <2>4. Resting(n, phase', disk', mem', wal', setup')
      BY <1>1, <1>4, <2>1 DEF Resting
    <2>5. Chained(n, f)'
      BY <1>1, <1>4, <2>1, <2>2, <2>3, <2>4 DEF Chained
    <2> QED BY <1>4, <2>5 DEF Chains
  <1>6. CASE ~closing
    <2>1. phase' = "open" /\ mem' = mem /\ tips' = tips /\ ring' = ring /\ call' = call
      BY <1>1, <1>6 DEF viewVars
    <2>2. /\ Laid(n, mem', f, Limbo(phase', call', lost'), setup', log', failed', Placed(phase', did'.appends))
          /\ Calling(setup', phase', call', mem', f, tips', did'.appends)
      BY <1>1, <1>4, <2>1, NotCalling
    <2>3. Resting(n, phase', disk', mem', wal', setup')
      BY <2>1, NotResting
    <2> QED BY <1>1, <1>4, <2>1, <2>2, <2>3, NextRuns
  <1> QED BY <1>5, <1>6

\* The log is empty when an engine opens, and so nothing is replayed.
LEMMA ReplayChains == ASSUME Typed, Chains, Replay PROVE Chains'
  <1> SUFFICES ASSUME did'.crashes = 0 PROVE Chains'
    BY DEF Chains
  <1>1. did' = did /\ phase = "replay" /\ replayed < Len(wal)
    BY DEF Replay, pastVars
  <1>2. PICK n \in Nat : \E f : Runs(n, f)
    BY <1>1, Chaining
  <1>3. wal = <<>>
    BY <1>1, <1>2 DEF Runs, Resting
  <1>4. replayed \in 0 .. 0
    BY <1>3 DEF Typed, CountsOK
  <1> QED BY <1>1, <1>3, <1>4

\* Nothing is said once the process has died.
LEMMA CrashChains == ASSUME Typed, Crash PROVE Chains'
  <1>1. Does("crashes") /\ "crashes" \in Bounded
    BY DEF Crash, Bounded
  <1>2. did'.crashes # 0
    BY <1>1, NoneDied
  <1> QED BY <1>2 DEF Chains

\* A page taken for an append changes nothing that clients see.
TookPage(n, m, h, f, st, c, a, g, f2) ==
    /\ m \in {n, n + 1} /\ a.s \in Store(m) /\ g = a.s.mem
    /\ Taken(n, m, h, f, st, c, g, f2, a.id)

\* What the page that was taken is to what was known before
TookAs(m, g, f2, st, c, a, su, lg, fl, b, t, rg) ==
    /\ m \in Nat /\ m >= ROOT_PAGES /\ g \in Heap(m)
    /\ Laid(m, g, f2, st \cup {a.id}, su, lg, fl, b) /\ Tipped(t, rg, g, f2, fl)
    /\ g[a.id] = ChatPage(c) /\ \A o \in Owners : a.id \notin ToSet(f2[o])
    /\ su.trims = 0 => \A d \in Chats : \A p \in ToSet(f2[d]) : p < a.id

\* A page taken leaves the reads, the tips and the rings as they were.
LEMMA TookLaid ==
    ASSUME NEW n \in Nat, n >= ROOT_PAGES, NEW h, NEW f, NEW st, NEW su, NEW lg, NEW fl, NEW b,
           Laid(n, h, f, st, su, lg, fl, b), NEW c, NEW m, NEW a, NEW g, NEW f2,
           TookPage(n, m, h, f, st, c, a, g, f2), NEW t, NEW rg, Tipped(t, rg, h, f, fl)
    PROVE  TookAs(m, g, f2, st, c, a, su, lg, fl, b, t, rg)
  <1>1. m \in Nat /\ m >= ROOT_PAGES /\ g \in Heap(m)
    BY DEF TookPage, Store, ROOT_PAGES
  <1>2. /\ h \in Heap(n) /\ Lists(n, h, f, st) /\ Ordered(su, h, f, lg, fl, b) /\ Rising(su, f)
        /\ Failures(su, fl, b) /\ Taken(n, m, h, f, st, c, g, f2, a.id)
    BY DEF Laid, TookPage
  <1>3. \A d \in Chats : f2[d] = f[d] /\ ReadOf(g, f2[d]) = ReadOf(h, f[d])
    <2>1. ReadsStay(h, f, g, f2)
      BY <1>2, TakenReads
    <2> QED BY <2>1 DEF ReadsStay
  <1>4. /\ Lists(m, g, f2, st \cup {a.id}) /\ g[a.id] = ChatPage(c)
        /\ \A o \in Owners : a.id \notin ToSet(f2[o])
        /\ f[0] = <<>> => f2[0] = <<>> /\ a.id = n
    BY <1>2 DEF Taken
  <1>5. Ordered(su, g, f2, lg, fl, b)
    BY <1>2, <1>3 DEF Ordered
  <1>6. Rising(su, f2)
    BY <1>2, <1>3, <1>4 DEF Rising
  <1>7. Tipped(t, rg, g, f2, fl)
    <2>1. TipsAre(t, f) /\ Counts(t, h, f, fl) /\ RingsAre(rg, t, h, f, fl)
      BY DEF Tipped
    <2>2. DOMAIN t \subseteq Chats
      BY <2>1 DEF TipsAre
    <2>3. TipsAre(t, f2)
      <3>1. {d \in Chats : f[d] # <<>>} = {d \in Chats : f2[d] # <<>>}
        BY <1>3
      <3> QED BY <1>3, <2>1, <2>2, <3>1 DEF TipsAre
    <2>4. Counts(t, g, f2, fl)
      BY <1>3, <2>1, <2>2 DEF Counts
    <2>5. RingsAre(rg, t, g, f2, fl)
      BY <1>3, <2>1, <2>2 DEF RingsAre
    <2> QED BY <2>3, <2>4, <2>5 DEF Tipped
  <1>8. su.trims = 0 => \A d \in Chats : \A p \in ToSet(f2[d]) : p < a.id
    <2> SUFFICES ASSUME su.trims = 0, NEW d \in Chats, NEW p \in ToSet(f2[d]) PROVE p < a.id
      OBVIOUS
    <2>1. a.id = n
      BY <1>2, <1>4 DEF Rising
    <2>2. d \in Owners /\ p \in ToSet(f[d])
      BY <1>3 DEF Owners
    <2>3. p \in New(n)
      BY <1>2, <2>2, ListsFacts
    <2> QED BY <2>1, <2>3 DEF New, ROOT_PAGES
  <1>9. Laid(m, g, f2, st \cup {a.id}, su, lg, fl, b)
    BY <1>1, <1>2, <1>4, <1>5, <1>6 DEF Laid
  <1> QED BY <1>1, <1>4, <1>7, <1>8, <1>9 DEF TookAs

\* What alloc_chat_page gives, for the invariant
LEMMA TakePage ==
    ASSUME NEW n \in Nat, n >= ROOT_PAGES, NEW s \in Store(n), NEW f, NEW st,
           Lists(n, s.mem, f, st), NEW c \in Chats
    PROVE  \E m, f2 : TookPage(n, m, s.mem, f, st, c, AllocChatPage(s, c), AllocChatPage(s, c).s.mem, f2)
  <1> DEFINE a == AllocChatPage(s, c)
  <1>1. \E m \in {n, n + 1} : \E f2 : a.s \in Store(m) /\ Taken(n, m, s.mem, f, st, c, a.s.mem, f2, a.id)
    BY Taking
  <1> HIDE DEF a
  <1>2. PICK m, f2 : m \in {n, n + 1} /\ a.s \in Store(m) /\ Taken(n, m, s.mem, f, st, c, a.s.mem, f2, a.id)
    BY <1>1
  <1>3. TookPage(n, m, s.mem, f, st, c, a, a.s.mem, f2)
    BY <1>2 DEF TookPage
  <1> QED BY <1>3 DEF a

\* The chosen id and page of a chat_append that begins
Begun(c, fits, m, prev, a) ==
    /\ did' = [did EXCEPT !.appends = @ + 1, !.bigs = did'.bigs]
    /\ IF fits
       THEN /\ phase' = "insert" /\ call'.chat = c /\ call'.page = prev
            /\ mem' = mem /\ c \in DOMAIN tips /\ prev = tips[c].tail
       ELSE /\ phase' = "link" /\ call'.chat = c /\ call'.page = a.id /\ call'.prev = prev
            /\ mem' = a.s.mem
    /\ call'.msg = m /\ m.body = did.appends + 1

\* The two ways an append begins: on the tail, or with a page of its own
LEMMA StartBegins ==
    ASSUME did \in [Bounded -> Nat], NEW c \in Chats, AppendStart(c), NEW n \in Nat, n >= ROOT_PAGES,
           tips \in Tips(n)
    PROVE  \E fits \in BOOLEAN : \E m :
              Begun(c, fits, m, IF c \in DOMAIN tips THEN tips[c].tail ELSE 0, AllocChatPage(E.s, c))
  <1>2. PICK id \in Choose(c), big \in {FALSE} \cup {May("bigs")} :
        LET m == [id |-> id, body |-> did.appends + 1]
            prev == IF c \in DOMAIN tips THEN tips[c].tail ELSE 0
            fits == prev # 0 /\ HasRoom(mem[prev]) /\ ~big
            a == AllocChatPage(E.s, c)
        IN  /\ did' = [did EXCEPT !.appends = @ + 1, !.bigs = @ + IF big THEN 1 ELSE 0]
            /\ IF fits
               THEN
                 /\ phase' = "insert"
                 /\ call' = [chat |-> c, msg |-> m, big |-> big, page |-> prev, prev |-> 0]
                 /\ UNCHANGED <<mem, disk>>
               ELSE
                 /\ phase' = "link"
                 /\ call' = [chat |-> c, msg |-> m, big |-> big, page |-> a.id, prev |-> prev]
                 /\ mem' = a.s.mem /\ disk' = a.s.disk
    BY DEF AppendStart
  <1> DEFINE m == [id |-> id, body |-> did.appends + 1]
             prev == IF c \in DOMAIN tips THEN tips[c].tail ELSE 0
             a == AllocChatPage(E.s, c)
             room == HasRoom(mem[prev])
             more == IF big THEN 1 ELSE 0
  <1>3. did' = [did EXCEPT !.appends = @ + 1, !.bigs = @ + more]
    BY <1>2
  <1>4. did' = [did EXCEPT !.appends = @ + 1, !.bigs = did'.bigs]
    <2> HIDE DEF more
    <2>1. "bigs" \in Bounded
      BY DEF Bounded
    <2> QED BY <1>3, <2>1
  <1>5. m.body = did.appends + 1
    OBVIOUS
  <1>6. CASE prev # 0 /\ room /\ ~big
    <2>1. phase' = "insert" /\ mem' = mem /\ call'.chat = c /\ call'.page = prev /\ call'.msg = m
      BY <1>2, <1>6
    <2>2. c \in DOMAIN tips /\ prev = tips[c].tail
      BY <1>6
    <2> HIDE DEF m, a
    <2>3. Begun(c, TRUE, m, prev, a)
      BY <1>4, <1>5, <2>1, <2>2 DEF Begun
    <2> QED BY <2>3 DEF a
  <1>7. CASE ~(prev # 0 /\ room /\ ~big)
    <2>1. /\ phase' = "link" /\ mem' = a.s.mem /\ call'.chat = c /\ call'.page = a.id
          /\ call'.prev = prev /\ call'.msg = m
      BY <1>2, <1>7
    <2> HIDE DEF m, a
    <2>3. Begun(c, FALSE, m, prev, a)
      BY <1>4, <1>5, <2>1 DEF Begun
    <2> QED BY <2>3 DEF a
  <1> QED BY <1>6, <1>7

\* chat_append: room on the tail, or a page taken for the message
LEMMA AppendStartChains ==
    ASSUME Typed, Chains, NEW c \in Chats, AppendStart(c) PROVE Chains'
  <1> SUFFICES ASSUME did'.crashes = 0 PROVE Chains'
    BY DEF Chains
  <1>1. /\ phase = "open" /\ lost' = lost /\ setup' = setup /\ log' = log /\ failed' = failed
        /\ tips' = tips /\ ring' = ring
    BY DEF AppendStart, failVars
  <1> DEFINE prev == IF c \in DOMAIN tips THEN tips[c].tail ELSE 0
             a == AllocChatPage(E.s, c)
  <1>3. PICK k \in Nat : k >= ROOT_PAGES /\ E \in Engine(k)
    BY <1>1, Running
  <1>4. \E fits \in BOOLEAN : \E m : Begun(c, fits, m, prev, a)
    BY <1>3, EngineNow, StartBegins DEF Typed, CountsOK
  <1>5. PICK fits, m : fits \in BOOLEAN /\ Begun(c, fits, m, prev, a)
    BY <1>4
  <1>6. did.crashes = 0 /\ did'.appends = did.appends + 1 /\ did.appends \in Nat
    <2>1. did \in [Bounded -> Nat] /\ did' = [did EXCEPT !.appends = @ + 1, !.bigs = did'.bigs]
      BY <1>5 DEF Typed, CountsOK, Begun
    <2>2. "crashes" \in Bounded /\ "appends" \in Bounded
      BY DEF Bounded
    <2> QED BY <2>1, <2>2
  <1>7. PICK n \in Nat : \E f : Runs(n, f)
    BY <1>1, <1>6, Chaining
  <1>8. PICK f : Runs(n, f)
    BY <1>7
  <1>9. /\ n >= ROOT_PAGES /\ Tipped(tips, ring, mem, f, failed) /\ E \in Engine(n)
        /\ Laid(n, mem, f, lost, setup, log, failed, did.appends)
    BY <1>1, <1>8, NotCalling DEF Runs
  <1>10. call'.msg.body = did'.appends /\ call'.chat = c
    BY <1>5, <1>6 DEF Begun
  <1> HIDE DEF prev, a
  <1>11. CASE fits
    <2>1. phase' = "insert" /\ call'.page = prev /\ mem' = mem /\ c \in DOMAIN tips /\ prev = tips[c].tail
      BY <1>5, <1>11 DEF Begun
    <2>2. Limbo(phase', call', lost') = lost /\ Placed(phase', did'.appends) = did.appends
      BY <1>1, <1>6, <2>1 DEF Limbo, Placed
    <2>3. Laid(n, mem', f, Limbo(phase', call', lost'), setup', log', failed', Placed(phase', did'.appends))
      BY <1>1, <1>9, <2>1, <2>2
    <2>4. Calling(setup', phase', call', mem', f, tips', did'.appends)
      BY <1>1, <1>10, <2>1 DEF Calling
    <2>5. Resting(n, phase', disk', mem', wal', setup')
      BY <2>1, NotResting
    <2> QED BY <1>1, <1>9, <2>1, <2>3, <2>4, <2>5, NextRuns
  <1>12. CASE ~fits
    <2>1. phase' = "link" /\ call'.page = a.id /\ call'.prev = prev /\ mem' = a.s.mem
      BY <1>5, <1>12 DEF Begun
    <2>2. E.s \in Store(n) /\ E.s.mem = mem /\ Lists(n, mem, f, lost)
      BY <1>9, EngineNow DEF Laid
    <2>3. \E k2, f2 : TookPage(n, k2, E.s.mem, f, lost, c, a, a.s.mem, f2)
      BY <1>9, <2>2, TakePage DEF a
    <2>4. PICK k2, f2 : TookPage(n, k2, mem, f, lost, c, a, a.s.mem, f2)
      BY <2>2, <2>3
    <2>12. TookAs(k2, a.s.mem, f2, lost, c, a, setup, log, failed, did.appends, tips, ring)
      BY ONLY n \in Nat, <1>9, <2>4, TookLaid
    <2>5. /\ k2 \in Nat /\ k2 >= ROOT_PAGES
          /\ Laid(k2, a.s.mem, f2, lost \cup {a.id}, setup, log, failed, did.appends)
          /\ Tipped(tips, ring, a.s.mem, f2, failed)
          /\ a.s.mem[a.id] = ChatPage(c) /\ \A o \in Owners : a.id \notin ToSet(f2[o])
          /\ setup.trims = 0 => \A d \in Chats : \A p \in ToSet(f2[d]) : p < a.id
      BY <2>12 DEF TookAs
    <2>6. Limbo(phase', call', lost') = lost \cup {a.id} /\ Placed(phase', did'.appends) = did.appends
      BY <1>1, <1>6, <2>1 DEF Limbo, Placed
    <2>7. AtLink(setup', call', mem', f2, tips')
      BY <1>1, <1>10, <2>1, <2>5 DEF AtLink, prev
    <2>8. Calling(setup', phase', call', mem', f2, tips', did'.appends)
      BY <1>10, <2>1, <2>7 DEF Calling
    <2>9. Resting(k2, phase', disk', mem', wal', setup')
      BY <2>1, NotResting
    <2>10. Laid(k2, mem', f2, Limbo(phase', call', lost'), setup', log', failed', Placed(phase', did'.appends))
      BY <1>1, <2>1, <2>5, <2>6
    <2>11. Tipped(tips', ring', mem', f2, failed')
      BY <1>1, <2>1, <2>5
    <2> QED BY <2>1, <2>5, <2>8, <2>9, <2>10, <2>11, NextRuns
  <1> QED BY <1>11, <1>12

\* A larger page at the end keeps a list ascending.
LEMMA AscendsMore ==
    ASSUME NEW T, NEW s \in Seq(T), NEW p, Ascends(s), \A q \in ToSet(s) : q < p
    PROVE  Ascends(Append(s, p))
  <1> DEFINE u == Append(s, p)
             len == Len(s)
  <1>1. /\ len \in Nat /\ DOMAIN s = 1 .. len /\ DOMAIN u = 1 .. len + 1 /\ u[len + 1] = p
        /\ \A k \in 1 .. len : u[k] = s[k]
    OBVIOUS
  <1>2. \A k \in 1 .. len : s[k] \in ToSet(s)
    BY <1>1 DEF ToSet
  <1> HIDE DEF u, len
  <1>3. ASSUME NEW j \in 1 .. len + 1, NEW k \in 1 .. len + 1, j < k PROVE u[j] < u[k]
    <2>1. j \in 1 .. len /\ u[j] = s[j]
      BY <1>1, <1>3
    <2>2. CASE k = len + 1
      BY <1>1, <1>2, <2>1, <2>2
    <2>3. CASE k # len + 1
      <3>1. k \in 1 .. len /\ u[k] = s[k]
        BY <1>1, <2>3
      <3> QED BY <1>1, <1>3, <2>1, <3>1 DEF Ascends
    <2> QED BY <2>2, <2>3
  <1>4. Ascends(u)
    BY <1>1, <1>3 DEF Ascends
  <1> QED BY <1>4 DEF u

\* A page that joins leaves what was known of the others.
LEMMA LaidJoined ==
    ASSUME NEW n \in Nat, n >= ROOT_PAGES, NEW h, NEW f, NEW st, NEW su, NEW lg, NEW fl, NEW b,
           NEW c \in Chats, NEW id, Laid(n, h, f, st \cup {id}, su, lg, fl, b),
           NEW g \in Heap(n), NEW f2, Joined(n, h, f, st, c, id, g, f2),
           su.trims = 0 => \A d \in Chats : \A p \in ToSet(f[d]) : p < id
    PROVE  Laid(n, g, f2, st, su, lg, fl, b)
  <1>1. /\ h \in Heap(n) /\ Lists(n, h, f, st \cup {id}) /\ Ordered(su, h, f, lg, fl, b)
        /\ Rising(su, f) /\ Failures(su, fl, b)
    BY DEF Laid
  <1>2. /\ Lists(n, g, f2, st) /\ f2[c] = Append(f[c], id)
        /\ \A o \in Owners : o # c => f2[o] = f[o]
        /\ \A d \in Chats : ReadOf(g, f2[d]) = ReadOf(h, f[d])
    BY DEF Joined
  <1>3. Ordered(su, g, f2, lg, fl, b)
    BY <1>1, <1>2 DEF Ordered
  <1>4. f[c] \in Seq(New(n)) /\ 0 \in Owners /\ c # 0 /\ \A d \in Chats : d \in Owners
    BY <1>1, ListsFacts
  <1>5. Rising(su, f2)
    <2> SUFFICES ASSUME su.trims = 0 PROVE f2[0] = <<>> /\ \A d \in Chats : Ascends(f2[d])
      BY DEF Rising
    <2>1. f[0] = <<>> /\ \A d \in Chats : Ascends(f[d])
      BY <1>1 DEF Rising
    <2>2. Ascends(f2[c])
      BY <1>2, <1>4, <2>1, AscendsMore
    <2> QED BY <1>2, <1>4, <2>1, <2>2
  <1> QED BY <1>1, <1>2, <1>3, <1>5 DEF Laid

\* What linking the new page of a chat does
Attached(n, e, f, st, c, id, fl, v, f2) ==
    /\ v \in Engine(n) /\ Joined(n, e.s.mem, f, st, c, id, v.s.mem, f2)
    /\ Tipped(v.tips, v.ring, v.s.mem, f2, fl)
    /\ c \in DOMAIN v.tips /\ v.tips[c].tail = id
    /\ v.s.mem \in Heap(n) /\ v.s.disk = e.s.disk

\* The link step gives the chat a tip that ends at the new page.
LEMMA Attaching ==
    ASSUME NEW n \in Nat, n >= ROOT_PAGES, NEW e \in Engine(n), NEW f, NEW st, NEW c \in Chats,
           NEW id \in New(n), Lists(n, e.s.mem, f, st \cup {id}), e.s.mem[id] = ChatPage(c),
           id \notin ToSet(f[c]), NEW fl, Tipped(e.tips, e.ring, e.s.mem, f, fl),
           NEW prev, prev = IF c \in DOMAIN e.tips THEN e.tips[c].tail ELSE 0
    PROVE  Attached(n, e, f, st, c, id, fl, ApplyLink(e, c, id, prev), PageJoined(f, c, id))
  <1> DEFINE v == ApplyLink(e, c, id, prev)
             f2 == PageJoined(f, c, id)
  <1>1. /\ TipsAre(e.tips, f) /\ Counts(e.tips, e.s.mem, f, fl)
        /\ RingsAre(e.ring, e.tips, e.s.mem, f, fl)
    BY DEF Tipped
  <1>2. /\ e.s.mem \in Heap(n) /\ e.tips \in Tips(n) /\ c \in Owners /\ c # 0
        /\ 0 \in Ids(n) /\ New(n) \subseteq Ids(n)
    <2>1. e.s.mem \in Heap(n) /\ e.tips \in Tips(n)
      BY EngineParts
    <2>2. c \in Owners /\ c # 0
      BY ListsFacts
    <2>3. 0 \in Ids(n) /\ New(n) \subseteq Ids(n)
      BY IdFacts
    <2> QED BY <2>1, <2>2, <2>3
  <1>3. prev = (IF f[c] = <<>> THEN 0 ELSE Last(f[c])) /\ prev \in Ids(n)
    <2>1. CASE c \in DOMAIN e.tips
      <3>1. f[c] # <<>> /\ e.tips[c].tail = Last(f[c])
        BY <1>1, <2>1 DEF TipsAre
      <3>2. e.tips[c].tail \in New(n)
        BY <1>2, <2>1, TipFacts
      <3> QED BY <1>2, <2>1, <3>1, <3>2
    <2>2. CASE c \notin DOMAIN e.tips
      BY <1>1, <1>2, <2>2 DEF TipsAre
    <2> QED BY <2>1, <2>2
  <1>4. /\ v \in Engine(n)
        /\ v.s.disk = e.s.disk /\ v.ring = e.ring
        /\ v.s.mem[id].ty = "chat" /\ v.s.mem[id].at32 = c
        /\ \A p \in Ids(n) : /\ v.s.mem[p].rows = e.s.mem[p].rows
                             /\ p # id => /\ v.s.mem[p].ty = e.s.mem[p].ty
                                          /\ v.s.mem[p].at32 = e.s.mem[p].at32
        /\ DOMAIN v.tips = DOMAIN e.tips \cup {c}
        /\ \A d : d \in DOMAIN e.tips /\ d # c => v.tips[d] = e.tips[d]
        /\ \A p \in Ids(n) : p # prev => v.s.mem[p].next = e.s.mem[p].next
        /\ prev # 0 => v.s.mem[prev].next = id
        /\ v.tips[c] = IF c \in DOMAIN e.tips
                       THEN Tip(e.tips[c].head, id, e.tips[c].count) ELSE Tip(id, id, 0)
    <2>1. v \in Engine(n)
      BY ONLY n \in Nat, n >= ROOT_PAGES, e \in Engine(n), id \in New(n), <1>2, <1>3, LinkFacts
    <2>6. v.s.disk = e.s.disk /\ v.ring = e.ring
      BY ONLY n \in Nat, n >= ROOT_PAGES, e \in Engine(n), id \in New(n), <1>2, <1>3, LinkFacts
    <2>7. /\ v.s.mem[id].ty = "chat" /\ v.s.mem[id].at32 = c
      BY ONLY n \in Nat, n >= ROOT_PAGES, e \in Engine(n), id \in New(n), <1>2, <1>3, LinkFacts
    <2>2. \A p \in Ids(n) : /\ v.s.mem[p].rows = e.s.mem[p].rows
                            /\ p # id => /\ v.s.mem[p].ty = e.s.mem[p].ty
                                         /\ v.s.mem[p].at32 = e.s.mem[p].at32
      BY ONLY n \in Nat, n >= ROOT_PAGES, e \in Engine(n), id \in New(n), <1>2, <1>3, LinkFacts
    <2>3. /\ DOMAIN v.tips = DOMAIN e.tips \cup {c}
          /\ \A d : d \in DOMAIN e.tips /\ d # c => v.tips[d] = e.tips[d]
      BY ONLY n \in Nat, n >= ROOT_PAGES, e \in Engine(n), id \in New(n), <1>2, <1>3, LinkFacts
    <2>4. /\ \A p \in Ids(n) : p # prev => v.s.mem[p].next = e.s.mem[p].next
          /\ prev # 0 => v.s.mem[prev].next = id
      BY ONLY n \in Nat, n >= ROOT_PAGES, e \in Engine(n), id \in New(n), <1>2, <1>3, LinkFacts
    <2>5. v.tips[c] = IF c \in DOMAIN e.tips
                      THEN Tip(e.tips[c].head, id, e.tips[c].count) ELSE Tip(id, id, 0)
      BY ONLY n \in Nat, n >= ROOT_PAGES, e \in Engine(n), id \in New(n), <1>2, <1>3, LinkFacts
    <2> HIDE DEF v
    <2> QED BY <2>1, <2>2, <2>3, <2>4, <2>5, <2>6, <2>7
  <1> HIDE DEF v
  <1>5. v.s.mem \in Heap(n)
    BY <1>4, EngineParts
  <1>6. /\ e.s.mem[id].at32 = c /\ e.s.mem[id].ty = "chat"
        /\ e.s.mem[id].rows = <<>> /\ e.s.mem[id].next = 0
    BY <1>2, ChatPageTyped
  <1>7. Relinked(n, e.s.mem, v.s.mem, prev, id)
    <2>1. ASSUME NEW q \in Ids(n)
          PROVE  /\ v.s.mem[q].at32 = e.s.mem[q].at32 /\ v.s.mem[q].ty = e.s.mem[q].ty
                 /\ v.s.mem[q].rows = e.s.mem[q].rows
                 /\ q # prev => v.s.mem[q].next = e.s.mem[q].next
      BY <1>4, <1>6, <2>1
    <2> QED BY <1>4, <2>1 DEF Relinked
  <1> DEFINE h == e.s.mem
             g == v.s.mem
  <1>8. /\ h \in Heap(n) /\ h[id].at32 = c /\ h[id].ty = "chat" /\ h[id].rows = <<>>
        /\ h[id].next = 0 /\ g \in Heap(n) /\ Relinked(n, h, g, prev, id)
        /\ Lists(n, h, f, st \cup {id})
        /\ prev = IF f[c] = <<>> THEN 0 ELSE Last(f[c])
    BY <1>2, <1>3, <1>5, <1>6, <1>7
  <1>9. Joined(n, h, f, st, c, id, g, f2)
    <2> HIDE DEF h, g
    <2> QED BY ONLY n \in Nat, n >= ROOT_PAGES, c \in Chats, id \in New(n), id \notin ToSet(f[c]),
                    <1>8, Joining
  <1> HIDE DEF f2
  <1>10. /\ f2[c] = Append(f[c], id) /\ f2[c] # <<>> /\ Last(f2[c]) = id
         /\ f2[c][1] = (IF f[c] = <<>> THEN id ELSE f[c][1])
         /\ \A d \in Chats : d # c => f2[d] = f[d]
         /\ \A d \in Chats : ReadOf(g, f2[d]) = ReadOf(h, f[d])
    BY <1>9 DEF Joined, Owners
  <1>11. v.tips[c].head = f2[c][1] /\ v.tips[c].tail = id
    <2>1. c \in DOMAIN e.tips => f[c] # <<>> /\ e.tips[c].head = f[c][1]
      BY <1>1 DEF TipsAre
    <2>2. c \notin DOMAIN e.tips => f[c] = <<>>
      BY <1>1 DEF TipsAre
    <2> QED BY <1>4, <1>10, <2>1, <2>2 DEF Tip
  <1>12. TipsAre(v.tips, f2)
    <2>1. DOMAIN v.tips = {d \in Chats : f2[d] # <<>>}
      BY <1>1, <1>4, <1>10 DEF TipsAre
    <2>2. \A d \in DOMAIN v.tips : v.tips[d].head = f2[d][1] /\ v.tips[d].tail = Last(f2[d])
      <3> TAKE d \in DOMAIN v.tips
      <3>1. CASE d = c
        BY <1>10, <1>11, <3>1
      <3>2. CASE d # c
        <4>1. d \in DOMAIN e.tips /\ d \in Chats /\ v.tips[d] = e.tips[d] /\ f2[d] = f[d]
          BY <1>1, <1>4, <1>10, <3>2 DEF TipsAre
        <4> QED BY <1>1, <4>1 DEF TipsAre
      <3> QED BY <3>1, <3>2
    <2> QED BY <2>1, <2>2 DEF TipsAre
  <1>13. Counts(v.tips, g, f2, fl)
    <2> SUFFICES ASSUME NEW d \in DOMAIN v.tips
                 PROVE  /\ Len(NotIn(ReadOf(g, f2[d]), fl)) <= v.tips[d].count
                        /\ v.tips[d].count <= Len(ReadOf(g, f2[d]))
      BY DEF Counts
    <2>1. d \in Chats /\ ReadOf(g, f2[d]) = ReadOf(h, f[d])
      BY <1>10, <1>12 DEF TipsAre
    <2>2. CASE d \in DOMAIN e.tips
      <3>1. v.tips[d].count = e.tips[d].count
        BY <1>4, <2>2 DEF Tip
      <3> QED BY <1>1, <2>1, <2>2, <3>1 DEF Counts
    <2>3. CASE d \notin DOMAIN e.tips
      <3>1. d = c /\ f[c] = <<>> /\ v.tips[c].count = 0
        BY <1>1, <1>4, <2>1, <2>3 DEF TipsAre, Tip
      <3>2. ReadOf(g, f2[d]) = <<>> /\ NotIn(<<>>, fl) = <<>>
        BY <2>1, <3>1, ReadNone, NotInNone
      <3>3. Len(<<>>) <= 0 /\ 0 <= Len(<<>>)
        OBVIOUS
      <3> QED BY <3>1, <3>2, <3>3
    <2> QED BY <2>2, <2>3
  <1>14. RingsAre(v.ring, v.tips, g, f2, fl)
    <2>1. \A d \in DOMAIN v.tips : d \in Chats
      BY <1>12 DEF TipsAre
    <2> QED BY <1>1, <1>4, <1>10, <2>1 DEF RingsAre
  <1>15. Attached(n, e, f, st, c, id, fl, v, f2)
    BY <1>4, <1>5, <1>9, <1>11, <1>12, <1>13, <1>14 DEF Attached, Tipped
  <1> QED BY <1>15 DEF v, f2

\* What the two invariants say of an append that has a page
Links(n, f) ==
    /\ n >= ROOT_PAGES /\ E \in Engine(n) /\ call.chat \in Chats /\ call.page \in New(n)
    /\ Laid(n, mem, f, lost \cup {call.page}, setup, log, failed, did.appends - 1)
    /\ mem[call.page] = ChatPage(call.chat) /\ \A o \in Owners : call.page \notin ToSet(f[o])
    /\ setup.trims = 0 => \A c \in Chats : \A p \in ToSet(f[c]) : p < call.page
    /\ call.msg.body = did.appends
    /\ Attached(n, E, f, lost, call.chat, call.page, failed,
                ApplyLink(E, call.chat, call.page, call.prev), PageJoined(f, call.chat, call.page))

\* The invariant, at the link step
LEMMA LinkRuns ==
    ASSUME Typed, Chains, did.crashes = 0, phase = "link"
    PROVE  \E n \in Nat : \E f : Links(n, f)
  <1>1. PICK n \in Nat : \E f : Runs(n, f)
    BY Chaining
  <1>2. PICK f : Runs(n, f)
    BY <1>1
  <1>3. /\ n >= ROOT_PAGES /\ E \in Engine(n) /\ call.chat \in Chats /\ call.page \in New(n)
        /\ Laid(n, mem, f, lost \cup {call.page}, setup, log, failed, did.appends - 1)
        /\ call.msg.body = did.appends /\ AtLink(setup, call, mem, f, tips)
        /\ Tipped(tips, ring, mem, f, failed)
    BY <1>2 DEF Runs, Limbo, Placed, CallOK, Calling
  <1>4. E.s.mem = mem /\ E.tips = tips /\ E.ring = ring
    BY <1>3, EngineNow
  <1>5. /\ Lists(n, E.s.mem, f, lost \cup {call.page}) /\ E.s.mem[call.page] = ChatPage(call.chat)
        /\ call.page \notin ToSet(f[call.chat]) /\ Tipped(E.tips, E.ring, E.s.mem, f, failed)
        /\ call.prev = IF call.chat \in DOMAIN E.tips THEN E.tips[call.chat].tail ELSE 0
    BY <1>3, <1>4 DEF Laid, AtLink, Owners
  <1>6. Attached(n, E, f, lost, call.chat, call.page, failed,
                 ApplyLink(E, call.chat, call.page, call.prev), PageJoined(f, call.chat, call.page))
    BY ONLY n \in Nat, <1>3, <1>5, Attaching
  <1>7. Links(n, f)
    BY <1>3, <1>6 DEF Links, AtLink
  <1> QED BY <1>7

\* chat_append: the link in the log and the pages
LEMMA AppendLinkChains ==
    ASSUME Typed, Chains, AppendLink PROVE Chains'
  <1> SUFFICES ASSUME did'.crashes = 0 PROVE Chains'
    BY DEF Chains
  <1> DEFINE v == ApplyLink(E, call.chat, call.page, call.prev)
  <1>1. /\ did' = did /\ phase = "link" /\ phase' = "insert" /\ call' = call /\ lost' = lost
        /\ setup' = setup /\ log' = log /\ failed' = failed
        /\ mem' = v.s.mem /\ tips' = v.tips /\ ring' = v.ring
    BY DEF AppendLink, Becomes, pastVars, failVars
  <1>2. PICK n \in Nat : \E f : Links(n, f)
    BY <1>1, LinkRuns
  <1>3. PICK f : Links(n, f)
    BY <1>2
  <1> DEFINE f2 == PageJoined(f, call.chat, call.page)
  <1> HIDE DEF v, f2
  <1>4. /\ n >= ROOT_PAGES /\ E \in Engine(n) /\ call.chat \in Chats
        /\ Laid(n, mem, f, lost \cup {call.page}, setup, log, failed, did.appends - 1)
        /\ setup.trims = 0 => \A c \in Chats : \A p \in ToSet(f[c]) : p < call.page
        /\ call.msg.body = did.appends
        /\ Attached(n, E, f, lost, call.chat, call.page, failed, v, f2)
    BY <1>3 DEF Links, v, f2
  <1>5. /\ Joined(n, mem, f, lost, call.chat, call.page, v.s.mem, f2)
        /\ Tipped(v.tips, v.ring, v.s.mem, f2, failed)
        /\ call.chat \in DOMAIN v.tips /\ v.tips[call.chat].tail = call.page /\ v.s.mem \in Heap(n)
    BY <1>4, EngineNow DEF Attached
  <1>6. Laid(n, v.s.mem, f2, lost, setup, log, failed, did.appends - 1)
    BY ONLY n \in Nat, <1>4, <1>5, LaidJoined
  <1>7. Limbo(phase', call', lost') = lost /\ Placed(phase', did'.appends) = did.appends - 1
    BY <1>1 DEF Limbo, Placed
  <1>8. Laid(n, mem', f2, Limbo(phase', call', lost'), setup', log', failed', Placed(phase', did'.appends))
    BY <1>1, <1>6, <1>7
  <1>9. Calling(setup', phase', call', mem', f2, tips', did'.appends)
    BY <1>1, <1>4, <1>5 DEF Calling
  <1>10. Tipped(tips', ring', mem', f2, failed')
    BY <1>1, <1>5
  <1>11. Resting(n, phase', disk', mem', wal', setup')
    BY <1>1, NotResting
  <1> QED BY <1>1, <1>4, <1>8, <1>9, <1>10, <1>11, NextRuns

\* Numbers of appends only grow.
LEMMA LaidLater ==
    ASSUME NEW n \in Nat, n >= ROOT_PAGES, NEW h, NEW f, NEW st, NEW su, NEW lg,
           NEW fl \in SUBSET Message, NEW x \in Int, NEW y \in Int, x <= y,
           Laid(n, h, f, st, su, lg, fl, x)
    PROVE  Laid(n, h, f, st, su, lg, fl, y)
  <1>1. /\ h \in Heap(n) /\ Lists(n, h, f, st) /\ Ordered(su, h, f, lg, fl, x)
        /\ Rising(su, f) /\ Failures(su, fl, x)
    BY DEF Laid
  <1>2. \A c \in Chats : ReadOf(h, f[c]) \in Seq(Message)
    <2>1. \A c \in Chats : c \in Owners /\ f[c] \in Seq(New(n))
      BY <1>1, ListsFacts
    <2> QED BY <1>1, <2>1, HeapRows
  <1>3. Ordered(su, h, f, lg, fl, y)
    BY <1>1, <1>2, ToldLater DEF Ordered
  <1>4. Failures(su, fl, y)
    <2>1. \A m \in fl : m.body \in Nat /\ m.body <= x
      BY <1>1 DEF Failures, Message
    <2> QED BY <1>1, <2>1 DEF Failures
  <1> QED BY <1>1, <1>3, <1>4 DEF Laid

\* chat_append: a message no page holds; the page taken is lost, or linked and empty.
LEMMA AppendTooLargeChains ==
    ASSUME Typed, Chains, AppendTooLarge PROVE Chains'
  <1> SUFFICES ASSUME did'.crashes = 0 PROVE Chains'
    BY DEF Chains
  <1> DEFINE c == call.chat
             id == call.page
             v == ApplyLink(E, c, id, call.prev)
             a == AllocChatPage(v.s, c)
             w == [v EXCEPT !.s = a.s]
  <1>1. /\ did' = did /\ phase = "link" /\ lost' = lost /\ setup' = setup /\ log' = log
        /\ failed' = failed
        /\ IF call.prev = 0
           THEN Becomes(w) /\ call' = [call EXCEPT !.page = a.id, !.prev = id] /\ phase' = phase
           ELSE Becomes(v) /\ call' = NoCall /\ phase' = "open"
    BY DEF AppendTooLarge, pastVars, failVars
  <1>2. PICK n \in Nat : \E f : Links(n, f)
    BY <1>1, LinkRuns
  <1>3. PICK f : Links(n, f)
    BY <1>2
  <1> DEFINE f2 == PageJoined(f, c, id)
  <1>4. /\ n >= ROOT_PAGES /\ E \in Engine(n) /\ c \in Chats
        /\ Laid(n, mem, f, lost \cup {id}, setup, log, failed, did.appends - 1)
        /\ setup.trims = 0 => \A d \in Chats : \A p \in ToSet(f[d]) : p < id
        /\ call.msg.body = did.appends
        /\ Attached(n, E, f, lost, c, id, failed, v, f2)
    BY <1>3 DEF Links
  <1> HIDE DEF c, id, v, a, f2
  <1>5. /\ Joined(n, mem, f, lost, c, id, v.s.mem, f2)
        /\ Tipped(v.tips, v.ring, v.s.mem, f2, failed)
        /\ c \in DOMAIN v.tips /\ v.tips[c].tail = id /\ v.s.mem \in Heap(n) /\ v \in Engine(n)
    BY <1>4, EngineNow DEF Attached
  <1>6. Laid(n, v.s.mem, f2, lost, setup, log, failed, did.appends - 1)
    BY ONLY n \in Nat, <1>4, <1>5, LaidJoined
  <1>7. did.appends \in Nat /\ failed \in SUBSET Message
    BY DEF Typed, CountsOK, Bounded
  <1>8. CASE call.prev = 0
    <2>1. /\ v = [s |-> v.s, tips |-> v.tips, index |-> v.index, ring |-> v.ring] /\ v.s \in Store(n)
      BY <1>5, EngineParts
    <2>2. /\ phase' = "link" /\ call' = [call EXCEPT !.page = a.id, !.prev = id]
          /\ mem' = a.s.mem /\ tips' = v.tips /\ ring' = v.ring
      BY <1>1, <1>8, <2>1 DEF Becomes
    <2>3. call'.chat = c /\ call'.page = a.id /\ call'.prev = id /\ call'.msg = call.msg
      <3>1. \E k \in Nat : call \in CallType(k)
        BY DEF Typed, Sized, CallOK
      <3> QED BY <2>2, <3>1 DEF CallType, c
    <2>4. Lists(n, v.s.mem, f2, lost)
      BY <1>6 DEF Laid
    <2>5. \E k2, f3 : TookPage(n, k2, v.s.mem, f2, lost, c, a, a.s.mem, f3)
      <3> USE DEF a
      <3> QED BY ONLY n \in Nat, <1>4, <2>1, <2>4, TakePage
    <2>6. PICK k2, f3 : TookPage(n, k2, v.s.mem, f2, lost, c, a, a.s.mem, f3)
      BY <2>5
    <2>7. TookAs(k2, a.s.mem, f3, lost, c, a, setup, log, failed, did.appends - 1, v.tips, v.ring)
      BY ONLY n \in Nat, <1>4, <1>5, <1>6, <2>6, TookLaid
    <2>8. /\ k2 \in Nat /\ k2 >= ROOT_PAGES
          /\ Laid(k2, a.s.mem, f3, lost \cup {a.id}, setup, log, failed, did.appends - 1)
          /\ Tipped(v.tips, v.ring, a.s.mem, f3, failed)
          /\ a.s.mem[a.id] = ChatPage(c) /\ \A o \in Owners : a.id \notin ToSet(f3[o])
          /\ setup.trims = 0 => \A d \in Chats : \A p \in ToSet(f3[d]) : p < a.id
      BY <2>7 DEF TookAs
    <2>9. Limbo(phase', call', lost') = lost \cup {a.id} /\ Placed(phase', did'.appends) = did.appends - 1
      BY <1>1, <2>2, <2>3 DEF Limbo, Placed
    <2>10. AtLink(setup', call', mem', f3, tips')
      BY <1>1, <1>5, <2>2, <2>3, <2>8 DEF AtLink
    <2>11. Calling(setup', phase', call', mem', f3, tips', did'.appends)
      BY <1>1, <1>4, <2>2, <2>3, <2>10 DEF Calling
    <2>12. Resting(k2, phase', disk', mem', wal', setup')
      BY <2>2, NotResting
    <2>13. Laid(k2, mem', f3, Limbo(phase', call', lost'), setup', log', failed', Placed(phase', did'.appends))
      BY <1>1, <2>2, <2>8, <2>9
    <2>14. Tipped(tips', ring', mem', f3, failed')
      BY <1>1, <2>2, <2>8
    <2> QED BY <2>2, <2>8, <2>11, <2>12, <2>13, <2>14, NextRuns
  <1>9. CASE call.prev # 0
    <2>1. phase' = "open" /\ mem' = v.s.mem /\ tips' = v.tips /\ ring' = v.ring
      BY <1>1, <1>9 DEF Becomes
    <2>2. Laid(n, v.s.mem, f2, lost, setup, log, failed, did.appends)
      <3>1. did.appends - 1 \in Int /\ did.appends \in Int /\ did.appends - 1 <= did.appends
        BY <1>7
      <3> QED BY <1>4, <1>6, <1>7, <3>1, LaidLater
    <2>3. Calling(setup', phase', call', mem', f2, tips', did'.appends)
      BY <2>1, NotCalling
    <2>4. Limbo(phase', call', lost') = lost /\ Placed(phase', did'.appends) = did.appends
      BY <1>1, <2>1, NotCalling
    <2>5. Laid(n, mem', f2, Limbo(phase', call', lost'), setup', log', failed', Placed(phase', did'.appends))
      BY <1>1, <2>1, <2>2, <2>4
    <2>6. Resting(n, phase', disk', mem', wal', setup')
      BY <2>1, NotResting
    <2>7. Tipped(tips', ring', mem', f2, failed')
      BY <1>1, <1>5, <2>1
    <2> QED BY <1>4, <2>1, <2>3, <2>5, <2>6, <2>7, NextRuns
  <1> QED BY <1>8, <1>9

\* What it is to what was known before: an append that succeeds, or one that fails
FilledLaid(n, f, st, su, lg, fl, b, h, c, m, g) ==
    /\ Laid(n, g, f, st, su, Acked(lg, c, m), fl, b + 1)
    /\ su.fails # 0 => Laid(n, g, f, st, su, lg, fl \cup {m}, b + 1)
    /\ m \notin fl
    /\ ReadOf(g, f[c]) = Append(ReadOf(h, f[c]), m)
    /\ \A d \in Chats : d # c => ReadOf(g, f[d]) = ReadOf(h, f[d])
    /\ \A d \in Chats : ReadOf(h, f[d]) \in Seq(Message)

\* The tail filled: the message is the last one read, acknowledged or failed.
LEMMA FilledTold ==
    ASSUME NEW n \in Nat, n >= ROOT_PAGES, NEW f, NEW st, NEW su, NEW lg,
           NEW fl \in SUBSET Message, NEW b \in Int, NEW h, Laid(n, h, f, st, su, lg, fl, b),
           NEW c \in Chats, f[c] # <<>>, NEW m \in Message, m.body = b + 1,
           NEW g \in Heap(n), Filled(h, f, c, m, g)
    PROVE  FilledLaid(n, f, st, su, lg, fl, b, h, c, m, g)
  <1>1. /\ h \in Heap(n) /\ Lists(n, h, f, st) /\ Ordered(su, h, f, lg, fl, b)
        /\ Rising(su, f) /\ Failures(su, fl, b)
    BY DEF Laid
  <1>2. \A d \in Chats : ReadOf(h, f[d]) \in Seq(Message)
    <2>1. \A d \in Chats : d \in Owners /\ f[d] \in Seq(New(n))
      BY <1>1, ListsFacts
    <2> QED BY <1>1, <2>1, HeapRows
  <1>3. /\ Lists(n, g, f, st) /\ ReadOf(g, f[c]) = Append(ReadOf(h, f[c]), m)
        /\ \A d \in Chats : d # c => ReadOf(g, f[d]) = ReadOf(h, f[d])
    <2>2. h \in Heap(n) /\ Lists(n, h, f, st)
      BY <1>1
    <2>3. FilledAs(n, h, f, st, c, m, g)
      BY <2>2, Filling
    <2> QED BY <2>3 DEF FilledAs
  <1>4. b + 1 \in Int /\ b <= b + 1
    OBVIOUS
  <1>5. \A k \in fl : k.body \in Nat /\ k.body <= b
    BY <1>1 DEF Failures, Message
  <1>6. m \notin fl
    BY <1>5
  <1>7. lg \in [Chats -> Seq(Message)] /\ Acked(lg, c, m) \in [Chats -> Seq(Message)]
        /\ Acked(lg, c, m)[c] = Append(lg[c], m)
        /\ \A d \in Chats : d # c => Acked(lg, c, m)[d] = lg[d]
    <2>1. lg \in [Chats -> Seq(Message)]
      BY <1>1 DEF Ordered
    <2>2. Append(lg[c], m) \in Seq(Message)
      BY <2>1
    <2> QED BY <2>1, <2>2 DEF Acked
  <1>8. ASSUME InOrder(su), NEW d \in Chats
        PROVE  /\ Told(ReadOf(g, f[d]), fl, Acked(lg, c, m)[d], b + 1)
               /\ Told(ReadOf(g, f[d]), fl \cup {m}, lg[d], b + 1)
    <2>1. ReadOf(h, f[d]) \in Seq(Message) /\ Told(ReadOf(h, f[d]), fl, lg[d], b)
      BY <1>1, <1>2, <1>8 DEF Ordered
    <2> DEFINE rd == ReadOf(h, f[d])
    <2>2. /\ rd \in Seq(Message) /\ Told(rd, fl, lg[d], b) /\ \A k \in fl : k.body <= b
      BY <1>5, <2>1
    <2>3. ReadOf(g, f[d]) = IF d = c THEN Append(rd, m) ELSE rd
      BY <1>3
    <2> HIDE DEF rd
    <2>4. /\ Told(Append(rd, m), fl, Append(lg[d], m), b + 1)
          /\ Told(Append(rd, m), fl \cup {m}, lg[d], b + 1) /\ m \notin ToSet(rd)
      BY <2>2, ToldMore
    <2>5. Told(rd, fl, lg[d], b + 1)
      BY <1>4, <2>2, ToldLater
    <2>6. Told(rd, fl \cup {m}, lg[d], b + 1)
      <3>1. NotIn(rd, fl \cup {m}) = NotIn(rd, fl)
        BY <2>2, <2>4, NotInFacts
      <3> QED BY <2>5, <3>1 DEF Told
    <2> QED BY <1>7, <2>3, <2>4, <2>5, <2>6
  <1>9. Ordered(su, g, f, Acked(lg, c, m), fl, b + 1) /\ Ordered(su, g, f, lg, fl \cup {m}, b + 1)
    BY <1>7, <1>8 DEF Ordered
  <1>10. Failures(su, fl, b + 1) /\ (su.fails # 0 => Failures(su, fl \cup {m}, b + 1))
    <2>1. \A k \in fl \cup {m} : k.body <= b + 1
      BY <1>4, <1>5
    <2> QED BY <1>1, <2>1 DEF Failures
  <1>11. /\ Laid(n, g, f, st, su, Acked(lg, c, m), fl, b + 1)
         /\ su.fails # 0 => Laid(n, g, f, st, su, lg, fl \cup {m}, b + 1)
    BY <1>1, <1>3, <1>9, <1>10 DEF Laid
  <1> QED BY <1>2, <1>3, <1>6, <1>11 DEF FilledLaid

\* What the two invariants say of an append that has a page with room
Fills(n, f) ==
    /\ n >= ROOT_PAGES /\ E \in Engine(n) /\ mem \in Heap(n) /\ tips \in Tips(n) /\ ring \in Rings
    /\ call.chat \in Chats /\ call.chat \in DOMAIN tips /\ call.page \in New(n)
    /\ f[call.chat] # <<>> /\ call.page = Last(f[call.chat])
    /\ call.msg \in Message /\ call.msg.body = did.appends /\ HasRoom(mem[call.page])
    /\ Laid(n, mem, f, lost, setup, log, failed, did.appends - 1)
    /\ Tipped(tips, ring, mem, f, failed)

\* The invariant, at the insert step
LEMMA InsertRuns ==
    ASSUME Typed, Chains, did.crashes = 0, phase = "insert"
    PROVE  \E n \in Nat : \E f : Fills(n, f)
  <1>1. PICK n \in Nat : \E f : Runs(n, f)
    BY Chaining
  <1>2. PICK f : Runs(n, f)
    BY <1>1
  <1>3. /\ n >= ROOT_PAGES /\ E \in Engine(n) /\ mem \in Heap(n) /\ tips \in Tips(n) /\ ring \in Rings
        /\ call.chat \in Chats /\ call.page \in New(n) /\ HasRoom(mem[call.page])
        /\ Laid(n, mem, f, lost, setup, log, failed, did.appends - 1)
        /\ call.msg.body = did.appends /\ call.chat \in DOMAIN tips
        /\ call.page = tips[call.chat].tail /\ Tipped(tips, ring, mem, f, failed)
    <2>1. Limbo(phase, call, lost) = lost
      BY DEF Limbo
    <2> QED BY <1>2, <2>1 DEF Runs, Placed, CallOK, Calling
  <1>4. call.msg \in Message
    BY <1>2 DEF Runs, CallOK, CallType
  <1>5. f[call.chat] # <<>> /\ tips[call.chat].tail = Last(f[call.chat])
    BY <1>3 DEF Tipped, TipsAre
  <1>6. Fills(n, f)
    BY <1>3, <1>4, <1>5 DEF Fills
  <1> QED BY <1>6

\* The tip counts the message and the ring has it; a failed append changes neither.
LEMMA FilledTips ==
    ASSUME NEW n \in Nat, NEW t \in Tips(n), NEW rg \in Rings, NEW h, NEW f,
           NEW fl \in SUBSET Message, Tipped(t, rg, h, f, fl), NEW c \in DOMAIN t,
           NEW m \in Message, NEW g,
           NEW n1, NEW st, NEW su, NEW lg, NEW b,
           FilledLaid(n1, f, st, su, lg, fl, b, h, c, m, g),
           NEW u, u = [t EXCEPT ![c] = Tip(@.head, Last(f[c]), @.count + 1)],
           NEW old, old = IF c \in DOMAIN rg THEN rg[c] ELSE <<>>
    PROVE  /\ Tipped(u, Put(rg, c, PushRing(old, m)), g, f, fl)
           /\ Tipped(t, rg, g, f, fl \cup {m})
  <1>1. /\ TipsAre(t, f) /\ Counts(t, h, f, fl) /\ RingsAre(rg, t, h, f, fl)
        /\ \A d \in DOMAIN t : d \in Chats /\ f[d] # <<>> /\ t[d].count \in Nat
        /\ \A d \in Chats : ReadOf(h, f[d]) \in Seq(Message)
        /\ ReadOf(g, f[c]) = Append(ReadOf(h, f[c]), m) /\ m \notin fl
        /\ \A d \in Chats : d # c => ReadOf(g, f[d]) = ReadOf(h, f[d])
    <2>1. \A d \in DOMAIN t : t[d].count \in Nat
      BY TipFacts
    <2> QED BY <2>1 DEF Tipped, TipsAre, FilledLaid
  <1>2. /\ DOMAIN u = DOMAIN t /\ \A d \in DOMAIN t : d # c => u[d] = t[d]
        /\ u[c].head = t[c].head /\ u[c].tail = Last(f[c]) /\ u[c].count = t[c].count + 1
    BY DEF Tip
  <1>3. TipsAre(u, f)
    BY <1>1, <1>2 DEF TipsAre
  <1> DEFINE rd == ReadOf(h, f[c])
  <1>4. rd \in Seq(Message) /\ Len(rd) \in Nat /\ Len(Append(rd, m)) = Len(rd) + 1
    BY <1>1
  <1>5. /\ Len(NotIn(rd, fl)) \in Nat /\ Len(NotIn(Append(rd, m), fl)) = Len(NotIn(rd, fl)) + 1
    <2> HIDE DEF rd
    <2>1. NotIn(rd, fl) \in Seq(Message) /\ NotIn(Append(rd, m), fl) = Append(NotIn(rd, fl), m)
      BY <1>1, <1>4, NotInMore
    <2>2. \A x \in Seq(Message) : Len(Append(x, m)) = Len(x) + 1 /\ Len(x) \in Nat
      OBVIOUS
    <2> QED BY <2>1, <2>2
  <1>6. Len(NotIn(rd, fl)) <= t[c].count /\ t[c].count <= Len(rd)
    BY <1>1 DEF Counts
  <1>7. Counts(u, g, f, fl)
    <2> SUFFICES ASSUME NEW d \in DOMAIN u
                 PROVE  /\ Len(NotIn(ReadOf(g, f[d]), fl)) <= u[d].count
                        /\ u[d].count <= Len(ReadOf(g, f[d]))
      BY DEF Counts
    <2>1. CASE d = c
      <3>1. ReadOf(g, f[d]) = Append(rd, m) /\ u[d].count = t[c].count + 1 /\ t[c].count \in Nat
        BY <1>1, <1>2, <2>1
      <3> HIDE DEF rd
      <3> QED BY <1>4, <1>5, <1>6, <3>1
    <2>2. CASE d # c
      BY <1>1, <1>2, <2>2 DEF Counts
    <2> QED BY <2>1, <2>2
  <1>8. RingsAre(Put(rg, c, PushRing(old, m)), u, g, f, fl)
    <2> SUFFICES ASSUME fl = {}, NEW d \in DOMAIN rg \cup {c}
                 PROVE  LET r == Put(rg, c, PushRing(old, m))
                        IN  d \in DOMAIN u /\ r[d] = LastOf(ReadOf(g, f[d]), Len(r[d]))
      BY DEF RingsAre, Put
    <2>1. \A x \in DOMAIN rg : x \in DOMAIN t /\ rg[x] = LastOf(ReadOf(h, f[x]), Len(rg[x]))
      BY <1>1 DEF RingsAre
    <2> DEFINE r == Put(rg, c, PushRing(old, m))
    <2>2. r[d] = IF d = c THEN PushRing(old, m) ELSE rg[d]
      BY DEF Put
    <2> HIDE DEF r
    <2>3. CASE d = c
      <3>1. old \in Seq(Message)
        <4>1. c \in DOMAIN rg => rg[c] \in Seq(Message)
          <5> DEFINE R == {rr \in Seq(Message) : Len(rr) <= RingMax}
          <5>1. rg \in Partial(Owners, R)
            BY DEF Rings
          <5> HIDE DEF R
          <5>2. c \in DOMAIN rg => rg[c] \in R
            BY <5>1 DEF Partial
          <5> QED BY <5>2 DEF R
        <4> QED BY <4>1
      <3>2. old = LastOf(rd, Len(old))
        <4>1. CASE c \in DOMAIN rg
          BY <2>1, <4>1
        <4>2. CASE c \notin DOMAIN rg
          <5>1. old = <<>> /\ Len(<<>>) = 0 /\ 0 \in Nat
            BY <4>2
          <5> HIDE DEF rd
          <5>2. LastOf(rd, 0) \in Seq(Message) /\ Len(LastOf(rd, 0)) = 0
            <6>1. LastOf(rd, 0) \in Seq(Message) /\ Len(LastOf(rd, 0)) <= 0
              BY <1>4, <5>1, LastOfTyped
            <6> QED BY <6>1
          <5>3. LastOf(rd, 0) = <<>>
            BY <5>2
          <5> QED BY <5>1, <5>3
        <4> QED BY <4>1, <4>2
      <3> HIDE DEF rd
      <3>3. PushRing(old, m) = LastOf(Append(rd, m), Len(PushRing(old, m)))
        BY ONLY <1>4, <3>1, <3>2, m \in Message, LastOfPush
      <3>4. ReadOf(g, f[d]) = Append(rd, m)
        BY <1>1, <2>3 DEF rd
      <3>5. r[d] = LastOf(ReadOf(g, f[d]), Len(r[d])) /\ d \in DOMAIN u
        BY <1>2, <2>2, <2>3, <3>3, <3>4
      <3> QED BY <3>5 DEF r
    <2>4. CASE d # c
      <3>1. d \in DOMAIN rg /\ d \in DOMAIN t /\ d \in Chats /\ r[d] = rg[d]
        BY <1>1, <2>1, <2>2, <2>4
      <3>2. r[d] = LastOf(ReadOf(g, f[d]), Len(r[d])) /\ d \in DOMAIN u
        BY <1>1, <1>2, <2>1, <2>4, <3>1
      <3> QED BY <3>2 DEF r
    <2> QED BY <2>3, <2>4
  <1>9. Counts(t, g, f, fl \cup {m})
    <2> SUFFICES ASSUME NEW d \in DOMAIN t
                 PROVE  /\ Len(NotIn(ReadOf(g, f[d]), fl \cup {m})) <= t[d].count
                        /\ t[d].count <= Len(ReadOf(g, f[d]))
      BY DEF Counts
    <2>1. /\ d \in Chats /\ t[d].count \in Nat /\ Len(NotIn(ReadOf(h, f[d]), fl)) <= t[d].count
          /\ t[d].count <= Len(ReadOf(h, f[d])) /\ ReadOf(h, f[d]) \in Seq(Message)
      BY <1>1 DEF Counts
    <2> DEFINE rx == ReadOf(h, f[d])
    <2>2. ReadOf(g, f[d]) = IF d = c THEN Append(rx, m) ELSE rx
      BY <1>1, <2>1
    <2>3. /\ rx \in Seq(Message) /\ Len(NotIn(rx, fl)) <= t[d].count /\ t[d].count <= Len(rx)
      BY <2>1
    <2> HIDE DEF rx
    <2>4. /\ Len(NotIn(rx, fl \cup {m})) <= Len(NotIn(rx, fl))
          /\ NotIn(Append(rx, m), fl \cup {m}) = NotIn(rx, fl \cup {m})
          /\ NotIn(rx, fl) \in Seq(Message) /\ NotIn(rx, fl \cup {m}) \in Seq(Message)
      <3>1. Len(NotIn(rx, fl \cup {m})) <= Len(NotIn(rx, fl))
        BY ONLY <2>3, m \in Message, NotInFacts
      <3>2. NotIn(rx, fl) \in Seq(Message) /\ NotIn(rx, fl \cup {m}) \in Seq(Message)
        BY ONLY <2>3, m \in Message, NotInFacts
      <3>3. m \in fl \cup {m}
        OBVIOUS
      <3>4. NotIn(Append(rx, m), fl \cup {m}) = NotIn(rx, fl \cup {m})
        BY ONLY <2>3, <3>3, m \in Message, NotInMore
      <3> QED BY <3>1, <3>2, <3>4
    <2>5. /\ Len(NotIn(rx, fl)) \in Nat /\ Len(NotIn(rx, fl \cup {m})) \in Nat
          /\ Len(rx) \in Nat /\ Len(Append(rx, m)) = Len(rx) + 1
      BY <2>3, <2>4
    <2> QED BY <2>1, <2>2, <2>3, <2>4, <2>5
  <1>10. RingsAre(rg, t, g, f, fl \cup {m})
    BY DEF RingsAre
  <1> QED BY <1>1, <1>3, <1>7, <1>8, <1>9, <1>10 DEF Tipped

\* chat_append: the message on its page, the index, the tip, the ring
LEMMA AppendInsertChains ==
    ASSUME Typed, Chains, AppendInsert PROVE Chains'
  <1> SUFFICES ASSUME did'.crashes = 0 PROVE Chains'
    BY DEF Chains
  <1> DEFINE c == call.chat
             id == call.page
             m == call.msg
             old == IF c \in DOMAIN ring THEN ring[c] ELSE <<>>
  <1>1. /\ did' = did /\ phase = "insert" /\ phase' = "open" /\ lost' = lost /\ setup' = setup
        /\ failed' = failed /\ mem' = [mem EXCEPT ![id] = Insert(mem[id], m)]
        /\ tips' = [tips EXCEPT ![c] = Tip(@.head, id, @.count + 1)]
        /\ ring' = Put(ring, c, PushRing(old, m)) /\ log' = Acked(log, c, m)
    BY DEF AppendInsert, failVars, Acked
  <1>2. PICK n \in Nat : \E f : Fills(n, f)
    BY <1>1, InsertRuns
  <1>3. PICK f : Fills(n, f)
    BY <1>2
  <1>4. /\ n >= ROOT_PAGES /\ mem \in Heap(n) /\ tips \in Tips(n) /\ ring \in Rings
        /\ c \in Chats /\ c \in DOMAIN tips /\ id \in New(n)
        /\ f[c] # <<>> /\ id = Last(f[c])
        /\ m \in Message /\ m.body = did.appends /\ HasRoom(mem[id])
        /\ Laid(n, mem, f, lost, setup, log, failed, did.appends - 1)
        /\ Tipped(tips, ring, mem, f, failed)
    BY <1>3 DEF Fills
  <1> DEFINE b == did.appends - 1
  <1>5. did.appends \in Nat /\ failed \in SUBSET Message /\ b \in Int /\ b + 1 = did.appends
    <2>1. did.appends \in Nat /\ failed \in SUBSET Message
      BY DEF Typed, CountsOK, Bounded
    <2> QED BY <2>1
  <1> HIDE DEF c, id, m, old, b
  <1>6. mem' \in Heap(n)
    BY <1>1, <1>4, FillPage
  <1>7. Filled(mem, f, c, m, mem') /\ Laid(n, mem, f, lost, setup, log, failed, b)
    BY <1>1, <1>4 DEF Filled, b
  <1>8. FilledLaid(n, f, lost, setup, log, failed, b, mem, c, m, mem')
    BY ONLY n \in Nat, <1>4, <1>5, <1>6, <1>7, FilledTold
  <1>9. Tipped(tips', ring', mem', f, failed)
    <2>1. tips' = [tips EXCEPT ![c] = Tip(@.head, Last(f[c]), @.count + 1)]
      BY <1>1, <1>4
    <2>2. Tipped(tips', Put(ring, c, PushRing(old, m)), mem', f, failed)
      BY ONLY n \in Nat, <1>4, <1>5, <1>8, <2>1, FilledTips DEF old
    <2> QED BY <1>1, <2>2
  <1>10. Laid(n, mem', f, lost, setup, log', failed, did.appends)
    BY <1>1, <1>5, <1>8 DEF FilledLaid
  <1>11. /\ Calling(setup', phase', call', mem', f, tips', did'.appends)
         /\ Limbo(phase', call', lost') = lost /\ Placed(phase', did'.appends) = did.appends
    BY <1>1, NotCalling
  <1>12. Resting(n, phase', disk', mem', wal', setup')
    BY <1>1, NotResting
  <1>13. Laid(n, mem', f, Limbo(phase', call', lost'), setup', log', failed', Placed(phase', did'.appends))
    BY <1>1, <1>10, <1>11
  <1>14. Tipped(tips', ring', mem', f, failed')
    BY <1>1, <1>9
  <1> QED BY <1>1, <1>4, <1>11, <1>12, <1>13, <1>14, NextRuns

\* chat_append: an error after the page was written
LEMMA AppendFailsChains ==
    ASSUME Typed, Chains, AppendFails PROVE Chains'
  <1> SUFFICES ASSUME did'.crashes = 0 PROVE Chains'
    BY DEF Chains
  <1>1. /\ phase \in {"link", "insert"} /\ Does("fails") /\ phase' = "open" /\ setup' = setup
        /\ tips' = tips /\ ring' = ring /\ log' = log
    BY DEF AppendFails
  <1>2. /\ phase = "link" => lost' = lost \cup {call.page} /\ mem' = mem /\ failed' = failed
        /\ phase = "insert" => /\ mem' = [mem EXCEPT ![call.page] = Insert(mem[call.page], call.msg)]
                               /\ failed' = failed \cup {call.msg} /\ lost' = lost
    BY DEF AppendFails
  <1>3. "fails" \in Bounded /\ "fails" # "appends"
    BY DEF Bounded
  <1>4. did.crashes = 0 /\ did'.appends = did.appends
    BY <1>1, <1>3, NoneDied
  <1>5. did.appends \in Nat /\ failed \in SUBSET Message /\ setup.fails # 0
    <2>1. did \in [Bounded -> Nat] /\ setup \in Setups /\ failed \subseteq Message
      BY DEF Typed, CountsOK
    <2>2. setup["fails"] \in Nat /\ did["fails"] \in Nat /\ did["fails"] < setup["fails"]
      BY <1>1, <1>3, <2>1, SetupFacts DEF Does, May
    <2>3. "appends" \in Bounded
      BY DEF Bounded
    <2> QED BY <2>1, <2>2, <2>3
  <1>6. CASE phase = "link"
    <2>1. PICK n \in Nat : \E f : Runs(n, f)
      BY <1>4, <1>6, Chaining
    <2>2. PICK f : Runs(n, f)
      BY <2>1
    <2>3. /\ n >= ROOT_PAGES /\ Tipped(tips, ring, mem, f, failed)
          /\ Laid(n, mem, f, lost \cup {call.page}, setup, log, failed, did.appends - 1)
      BY <1>6, <2>2 DEF Runs, Limbo, Placed
    <2>4. Laid(n, mem, f, lost \cup {call.page}, setup, log, failed, did.appends)
      <3>1. did.appends - 1 \in Int /\ did.appends \in Int /\ did.appends - 1 <= did.appends
        BY <1>5
      <3> QED BY <1>5, <2>3, <3>1, LaidLater
    <2>5. /\ Calling(setup', phase', call', mem', f, tips', did'.appends)
          /\ Limbo(phase', call', lost') = lost' /\ Placed(phase', did'.appends) = did.appends
      BY <1>1, <1>4, NotCalling
    <2>6. Resting(n, phase', disk', mem', wal', setup')
      BY <1>1, NotResting
    <2>7. Laid(n, mem', f, Limbo(phase', call', lost'), setup', log', failed', Placed(phase', did'.appends))
      BY <1>1, <1>2, <1>6, <2>4, <2>5
    <2>8. Tipped(tips', ring', mem', f, failed')
      BY <1>1, <1>2, <1>6, <2>3
    <2> QED BY <1>1, <2>3, <2>5, <2>6, <2>7, <2>8, NextRuns
  <1>7. CASE phase = "insert"
    <2>1. PICK n \in Nat : \E f : Fills(n, f)
      BY <1>4, <1>7, InsertRuns
    <2>2. PICK f : Fills(n, f)
      BY <2>1
    <2> DEFINE c == call.chat
               id == call.page
               m == call.msg
               b == did.appends - 1
    <2>3. /\ n >= ROOT_PAGES /\ mem \in Heap(n) /\ tips \in Tips(n) /\ ring \in Rings
          /\ c \in Chats /\ c \in DOMAIN tips /\ id \in New(n)
          /\ f[c] # <<>> /\ id = Last(f[c])
          /\ m \in Message /\ m.body = did.appends /\ HasRoom(mem[id])
          /\ Laid(n, mem, f, lost, setup, log, failed, b)
          /\ Tipped(tips, ring, mem, f, failed)
      BY <2>2 DEF Fills
    <2>4. b \in Int /\ b + 1 = did.appends
      BY <1>5
    <2>5. /\ mem' = [mem EXCEPT ![id] = Insert(mem[id], m)]
          /\ failed' = failed \cup {m} /\ lost' = lost
      BY <1>2, <1>7
    <2> HIDE DEF c, id, m, b
    <2>6. mem' \in Heap(n)
      BY <2>3, <2>5, FillPage
    <2>7. Filled(mem, f, c, m, mem') /\ m.body = b + 1
      BY <2>3, <2>4, <2>5 DEF Filled
    <2>8. FilledLaid(n, f, lost, setup, log, failed, b, mem, c, m, mem')
      BY ONLY n \in Nat, <1>5, <2>3, <2>4, <2>6, <2>7, FilledTold
    <2>9. Tipped(tips, ring, mem', f, failed \cup {m})
      <3> DEFINE u == [tips EXCEPT ![c] = Tip(@.head, Last(f[c]), @.count + 1)]
                 old == IF c \in DOMAIN ring THEN ring[c] ELSE <<>>
      <3>1. u = [tips EXCEPT ![c] = Tip(@.head, Last(f[c]), @.count + 1)]
        OBVIOUS
      <3>2. old = IF c \in DOMAIN ring THEN ring[c] ELSE <<>>
        OBVIOUS
      <3> HIDE DEF u, old
      <3> QED BY ONLY n \in Nat, <1>5, <2>3, <2>8, <3>1, <3>2, FilledTips
    <2>10. Laid(n, mem', f, lost, setup, log, failed \cup {m}, did.appends)
      BY <1>5, <2>4, <2>8 DEF FilledLaid
    <2>11. /\ Calling(setup', phase', call', mem', f, tips', did'.appends)
           /\ Limbo(phase', call', lost') = lost /\ Placed(phase', did'.appends) = did.appends
      BY <1>1, <1>4, <2>5, NotCalling
    <2>12. Resting(n, phase', disk', mem', wal', setup')
      BY <1>1, NotResting
    <2>13. Laid(n, mem', f, Limbo(phase', call', lost'), setup', log', failed', Placed(phase', did'.appends))
      BY <1>1, <2>5, <2>10, <2>11
    <2>14. Tipped(tips', ring', mem', f, failed')
      BY <1>1, <2>5, <2>9
    <2> QED BY <1>1, <2>3, <2>11, <2>12, <2>13, <2>14, NextRuns
  <1> QED BY <1>1, <1>6, <1>7

\* What the log is after a trim
CutLog(lg, c, keep) == [lg EXCEPT ![c] = LastOf(@, keep)]

\* The log of a trimmed chat
LEMMA CutLogFacts ==
    ASSUME NEW lg \in [Chats -> Seq(Message)], NEW c \in Chats, NEW keep \in Nat
    PROVE  /\ CutLog(lg, c, keep) \in [Chats -> Seq(Message)]
           /\ CutLog(lg, c, keep)[c] = LastOf(lg[c], keep)
           /\ \A d \in Chats : d # c => CutLog(lg, c, keep)[d] = lg[d]
           /\ Len(lg[c]) <= keep => LastOf(lg[c], keep) = lg[c]
  <1>1. lg[c] \in Seq(Message) /\ LastOf(lg[c], keep) \in Seq(Message)
    BY LastOfTyped
  <1>2. Len(lg[c]) <= keep => LastOf(lg[c], keep) = lg[c]
    <2> SUFFICES ASSUME Len(lg[c]) <= keep PROVE LastOf(lg[c], keep) = lg[c]
      OBVIOUS
    <2>1. ~(Len(lg[c]) > keep)
      BY <1>1
    <2> QED BY <1>1, <2>1 DEF LastOf
  <1> QED BY <1>1, <1>2 DEF CutLog

\* A trim that finds little
LEMMA IdleTrim ==
    ASSUME NEW n \in Nat, n >= ROOT_PAGES, NEW h, NEW f, NEW st, NEW su, su.trims # 0, NEW lg,
           NEW fl \in SUBSET Message, NEW b, Laid(n, h, f, st, su, lg, fl, b),
           NEW t, NEW rg, Tipped(t, rg, h, f, fl), NEW c \in Chats, NEW keep \in Nat,
           t \in Tips(n), c \notin DOMAIN t \/ t[c].count <= keep
    PROVE  Laid(n, h, f, st, su, CutLog(lg, c, keep), fl, b)
  <1>1. /\ h \in Heap(n) /\ Lists(n, h, f, st) /\ Ordered(su, h, f, lg, fl, b)
        /\ Rising(su, f) /\ Failures(su, fl, b) /\ TipsAre(t, f) /\ Counts(t, h, f, fl)
    BY DEF Laid, Tipped
  <1>2. /\ \A d \in Chats : ReadOf(h, f[d]) \in Seq(Message)
        /\ c \notin DOMAIN t => ReadOf(h, f[c]) = <<>>
    BY <1>1, TipReads
  <1>3. lg \in [Chats -> Seq(Message)]
    BY <1>1 DEF Ordered
  <1>4. ASSUME InOrder(su) PROVE CutLog(lg, c, keep)[c] = lg[c]
    <2>1. fl = {}
      BY <1>1, <1>4 DEF InOrder, Failures
    <2>2. NotIn(ReadOf(h, f[c]), fl) = ReadOf(h, f[c])
      BY <1>2, <2>1, NotInFacts
    <2>3. lg[c] = ReadOf(h, f[c])
      BY <1>1, <1>4, <2>2 DEF Ordered, Told
    <2>4. Len(lg[c]) <= keep
      <3>1. CASE c \notin DOMAIN t
        BY <1>2, <2>3, <3>1
      <3>2. CASE c \in DOMAIN t
        <4>1. Len(lg[c]) <= t[c].count /\ t[c].count <= keep
          BY <1>1, <2>2, <2>3, <3>2 DEF Counts
        <4>2. t[c].count \in Nat /\ Len(lg[c]) \in Nat
          BY <1>3, <3>2, TipFacts
        <4> QED BY <4>1, <4>2
      <3> QED BY <3>1, <3>2
    <2> QED BY <1>3, <2>4, CutLogFacts
  <1>5. Ordered(su, h, f, CutLog(lg, c, keep), fl, b)
    <2>1. /\ CutLog(lg, c, keep) \in [Chats -> Seq(Message)]
          /\ \A d \in Chats : d # c => CutLog(lg, c, keep)[d] = lg[d]
      BY <1>3, CutLogFacts
    <2>2. InOrder(su) => \A d \in Chats : CutLog(lg, c, keep)[d] = lg[d]
      BY <1>4, <2>1
    <2> QED BY <1>1, <2>1, <2>2 DEF Ordered
  <1> QED BY <1>1, <1>5 DEF Laid

\* A trim that rewrites the chat
LEMMA RealTrim ==
    ASSUME NEW n \in Nat, n >= ROOT_PAGES, NEW e, NEW f, NEW st, NEW su,
           su.trims # 0, NEW lg, NEW fl \in SUBSET Message, NEW b,
           Laid(n, e.s.mem, f, st, su, lg, fl, b), Tipped(e.tips, e.ring, e.s.mem, f, fl),
           NEW c \in Chats, NEW keep \in Nat, NEW k \in Nat, NEW t \in Engine(k), NEW f2,
           Lists(k, t.s.mem, f2, st), TipsAre(t.tips, f2), Kepts(e, f, c, t, f2),
           Cut(LastOf(ReadOf(e.s.mem, f[c]), keep), c, t, f2)
    PROVE  /\ Laid(k, t.s.mem, f2, st, su, CutLog(lg, c, keep), fl, b)
           /\ Tipped(t.tips, t.ring, t.s.mem, f2, fl)
  <1> DEFINE h == e.s.mem
             g == t.s.mem
             rd == ReadOf(h, f[c])
             kept == LastOf(rd, keep)
  <1>1. /\ h \in Heap(n) /\ Lists(n, h, f, st) /\ Ordered(su, h, f, lg, fl, b)
        /\ Rising(su, f) /\ Failures(su, fl, b) /\ TipsAre(e.tips, f)
        /\ Counts(e.tips, h, f, fl) /\ RingsAre(e.ring, e.tips, h, f, fl)
    BY DEF Laid, Tipped
  <1>2. \A d \in Chats : ReadOf(h, f[d]) \in Seq(Message)
    BY <1>1, TipReads
  <1>3. rd \in Seq(Message) /\ kept \in Seq(Message)
    BY <1>2, LastOfTyped
  <1>4. /\ \A d \in Chats : d # c => f2[d] = f[d] /\ ReadOf(g, f2[d]) = ReadOf(h, f[d])
        /\ \A d \in DOMAIN t.tips : d # c => d \in DOMAIN e.tips /\ t.tips[d] = e.tips[d]
        /\ \A d \in DOMAIN t.ring : d # c => d \in DOMAIN e.ring /\ t.ring[d] = e.ring[d]
    BY DEF Kepts, Others
  <1>5. /\ ReadOf(g, f2[c]) = kept
        /\ c \in DOMAIN t.tips => t.tips[c].count = Len(kept)
        /\ c \in DOMAIN t.ring => c \in DOMAIN t.tips /\ t.ring[c] = LastOf(kept, RingMax)
    BY DEF Cut
  <1>6. lg \in [Chats -> Seq(Message)]
    BY <1>1 DEF Ordered
  <1> DEFINE l2 == CutLog(lg, c, keep)
  <1>7. /\ l2 \in [Chats -> Seq(Message)] /\ l2[c] = LastOf(lg[c], keep)
        /\ \A d \in Chats : d # c => l2[d] = lg[d]
    BY <1>6, CutLogFacts
  <1> HIDE DEF l2
  <1>8. Ordered(su, g, f2, l2, fl, b)
    <2> SUFFICES ASSUME InOrder(su), NEW d \in Chats PROVE Told(ReadOf(g, f2[d]), fl, l2[d], b)
      BY <1>7 DEF Ordered
    <2>1. fl = {}
      BY <1>1 DEF InOrder, Failures
    <2>2. Told(ReadOf(h, f[d]), fl, lg[d], b)
      BY <1>1 DEF Ordered
    <2>3. CASE d = c
      <3>1. Told(rd, {}, lg[c], b)
        BY <2>1, <2>2, <2>3
      <3> HIDE DEF rd
      <3>2. Told(kept, {}, LastOf(lg[c], keep), b)
        BY <1>3, <3>1, ToldCut
      <3> HIDE DEF kept, g
      <3> QED BY <1>5, <1>7, <2>1, <2>3, <3>2
    <2>4. CASE d # c
      BY <1>4, <1>7, <2>2, <2>4
    <2> QED BY <2>3, <2>4
  <1>9. Rising(su, f2)
    BY DEF Rising
  <1>10. g \in Heap(k)
    BY EngineParts
  <1>11. Laid(k, g, f2, st, su, l2, fl, b)
    BY <1>1, <1>8, <1>9, <1>10 DEF Laid
  <1>12. Counts(t.tips, g, f2, fl)
    <2> SUFFICES ASSUME NEW d \in DOMAIN t.tips
                 PROVE  /\ Len(NotIn(ReadOf(g, f2[d]), fl)) <= t.tips[d].count
                        /\ t.tips[d].count <= Len(ReadOf(g, f2[d]))
      BY DEF Counts
    <2>1. CASE d = c
      <3>1. Len(NotIn(kept, fl)) <= Len(kept) /\ Len(kept) \in Nat
        <4> HIDE DEF kept
        <4> QED BY <1>3, NotInFacts
      <3> HIDE DEF kept
      <3> QED BY <1>5, <2>1, <3>1
    <2>2. CASE d # c
      <3>1. d \in Chats
        BY DEF TipsAre
      <3> QED BY <1>1, <1>4, <2>2, <3>1 DEF Counts
    <2> QED BY <2>1, <2>2
  <1>13. RingsAre(t.ring, t.tips, g, f2, fl)
    <2> SUFFICES ASSUME fl = {}, NEW d \in DOMAIN t.ring
                 PROVE  d \in DOMAIN t.tips /\ t.ring[d] = LastOf(ReadOf(g, f2[d]), Len(t.ring[d]))
      BY DEF RingsAre
    <2>1. CASE d = c
      <3>1. LastOf(kept, RingMax) = LastOf(kept, Len(LastOf(kept, RingMax)))
        <4> HIDE DEF kept
        <4> QED BY <1>3, LastOfItself, CapFacts
      <3> HIDE DEF kept
      <3> QED BY <1>5, <2>1, <3>1
    <2>2. CASE d # c
      <3>1. d \in DOMAIN e.ring /\ t.ring[d] = e.ring[d]
        BY <1>4, <2>2
      <3>2. d \in DOMAIN e.tips /\ e.ring[d] = LastOf(ReadOf(h, f[d]), Len(e.ring[d]))
        BY <1>1, <3>1 DEF RingsAre
      <3>3. d \in Chats /\ f[d] # <<>>
        BY <1>1, <3>2 DEF TipsAre
      <3>4. d \in DOMAIN t.tips
        BY <1>4, <2>2, <3>3 DEF TipsAre
      <3> QED BY <1>4, <2>2, <3>1, <3>2, <3>3, <3>4
    <2> QED BY <2>1, <2>2
  <1> QED BY <1>11, <1>12, <1>13 DEF Tipped, l2

\* chat_trim_keep_last, either way
LEMMA TrimKeepLastChains ==
    ASSUME Typed, Chains, NEW c \in Chats, NEW keep \in setup.keeps, TrimKeepLast(c, keep)
    PROVE  Chains'
  <1> SUFFICES ASSUME did'.crashes = 0 PROVE Chains'
    BY DEF Chains
  <1> DEFINE t == TrimChat(E, c, keep)
  <1>1. /\ phase = "open" /\ phase' = "open" /\ Does("trims") /\ Becomes(t)
        /\ log' = CutLog(log, c, keep) /\ setup' = setup /\ failed' = failed /\ lost' = lost
    BY DEF TrimKeepLast, failVars, CutLog
  <1>2. "trims" \in Bounded /\ "trims" # "appends"
    BY DEF Bounded
  <1>3. did.crashes = 0 /\ did'.appends = did.appends
    BY <1>1, <1>2, NoneDied
  <1>4. keep \in Nat /\ setup.trims # 0 /\ failed \in SUBSET Message
    <2>1. did \in [Bounded -> Nat] /\ setup \in Setups /\ failed \subseteq Message
      BY DEF Typed, CountsOK
    <2>2. setup["trims"] \in Nat /\ did["trims"] \in Nat /\ did["trims"] < setup["trims"]
      BY <1>1, <1>2, <2>1, SetupFacts DEF Does, May
    <2>3. keep \in Nat
      BY <2>1, SetupFacts
    <2> QED BY <2>1, <2>2, <2>3
  <1>5. PICK n \in Nat : \E f : Runs(n, f)
    BY <1>1, <1>3, Chaining
  <1>6. PICK f : Runs(n, f)
    BY <1>5
  <1>7. /\ n >= ROOT_PAGES /\ E \in Engine(n) /\ tips \in Tips(n)
        /\ Laid(n, mem, f, lost, setup, log, failed, did.appends)
        /\ Tipped(tips, ring, mem, f, failed)
    BY <1>1, <1>6, NotCalling DEF Runs
  <1>8. E.s.mem = mem /\ E.tips = tips /\ E.ring = ring
    BY <1>7, EngineNow
  <1>9. TrimmedTo(n, E, f, lost, c, keep, t)
    <2>1. Lists(n, E.s.mem, f, lost) /\ TipsAre(E.tips, f)
      BY <1>7, <1>8 DEF Laid, Tipped
    <2> QED BY ONLY n \in Nat, c \in Chats, <1>4, <1>7, <2>1, TrimChain
  <1> HIDE DEF t
  <1>10. /\ mem' = t.s.mem /\ tips' = t.tips /\ ring' = t.ring
    BY <1>1 DEF Becomes
  <1>11. \E k \in Nat : \E f2 : /\ k >= ROOT_PAGES
                            /\ Laid(k, mem', f2, lost, setup, log', failed, did.appends)
                            /\ Tipped(tips', ring', mem', f2, failed)
    <2>1. CASE c \notin DOMAIN tips \/ tips[c].count <= keep
      <3>1. t = E
        BY <1>8, <1>9, <2>1 DEF TrimmedTo
      <3>2. Laid(n, mem, f, lost, setup, CutLog(log, c, keep), failed, did.appends)
        BY ONLY n \in Nat, c \in Chats, <1>4, <1>7, <2>1, IdleTrim
      <3> QED BY <1>1, <1>7, <1>8, <1>10, <3>1, <3>2
    <2>2. CASE ~(c \notin DOMAIN tips \/ tips[c].count <= keep)
      <3>0. PICK k \in Nat : \E f2 :
               /\ n <= k /\ t \in Engine(k) /\ Lists(k, t.s.mem, f2, lost) /\ TipsAre(t.tips, f2)
               /\ Kepts(E, f, c, t, f2) /\ Cut(LastOf(ReadOf(E.s.mem, f[c]), keep), c, t, f2)
        BY <1>8, <1>9, <2>2 DEF TrimmedTo
      <3>1. PICK f2 :
               /\ n <= k /\ t \in Engine(k) /\ Lists(k, t.s.mem, f2, lost) /\ TipsAre(t.tips, f2)
               /\ Kepts(E, f, c, t, f2) /\ Cut(LastOf(ReadOf(E.s.mem, f[c]), keep), c, t, f2)
        BY <3>0
      <3>2. /\ Laid(n, E.s.mem, f, lost, setup, log, failed, did.appends)
            /\ Tipped(E.tips, E.ring, E.s.mem, f, failed)
        BY <1>7, <1>8
      <3>3. /\ Laid(k, t.s.mem, f2, lost, setup, CutLog(log, c, keep), failed, did.appends)
            /\ Tipped(t.tips, t.ring, t.s.mem, f2, failed)
        BY ONLY n \in Nat, c \in Chats, k \in Nat, <1>4, <1>7, <3>1, <3>2, RealTrim
      <3>4. k >= ROOT_PAGES
        BY <1>7, <3>1 DEF ROOT_PAGES
      <3> QED BY <1>1, <1>10, <3>3, <3>4
    <2> QED BY <2>1, <2>2
  <1>11a. PICK k \in Nat : \E f2 : /\ k >= ROOT_PAGES
                                   /\ Laid(k, mem', f2, lost, setup, log', failed, did.appends)
                                   /\ Tipped(tips', ring', mem', f2, failed)
    BY <1>11
  <1>12. PICK f2 : /\ k >= ROOT_PAGES
                   /\ Laid(k, mem', f2, lost, setup, log', failed, did.appends)
                   /\ Tipped(tips', ring', mem', f2, failed)
    BY <1>11a
  <1>13. /\ Calling(setup', phase', call', mem', f2, tips', did'.appends)
         /\ Limbo(phase', call', lost') = lost /\ Placed(phase', did'.appends) = did.appends
    BY <1>1, <1>3, NotCalling
  <1>14. Resting(k, phase', disk', mem', wal', setup')
    BY <1>1, NotResting
  <1>15. Laid(k, mem', f2, Limbo(phase', call', lost'), setup', log', failed', Placed(phase', did'.appends))
    BY <1>1, <1>12, <1>13
  <1>16. Tipped(tips', ring', mem', f2, failed')
    BY <1>1, <1>12
  <1> QED BY <1>1, <1>12, <1>13, <1>14, <1>15, <1>16, NextRuns

-----------------------------------------------------------------------------
(* Some pages in ascending order. *)

\* An ascending list has no page twice, and the order of its pages.
LEMMA AscendsFacts ==
    ASSUME NEW s \in Seq(Nat), Ascends(s)
    PROVE  /\ Distinct(s)
           /\ \A j, k \in 1 .. Len(s) : s[j] < s[k] => j < k
           /\ Len(s) \in Nat /\ DOMAIN s = 1 .. Len(s) /\ \A j \in 1 .. Len(s) : s[j] \in Nat
  <1>1. Len(s) \in Nat /\ DOMAIN s = 1 .. Len(s) /\ \A j \in 1 .. Len(s) : s[j] \in Nat
    OBVIOUS
  <1>2. ASSUME NEW j \in 1 .. Len(s), NEW k \in 1 .. Len(s)
        PROVE  (s[j] = s[k] => j = k) /\ (s[j] < s[k] => j < k)
    <2>1. j < k => s[j] < s[k]
      BY <1>1 DEF Ascends
    <2>2. k < j => s[k] < s[j]
      BY <1>1 DEF Ascends
    <2>3. s[j] \in Nat /\ s[k] \in Nat
      BY <1>1
    <2>4. j \in Nat /\ k \in Nat
      BY <1>1
    <2> QED BY <2>1, <2>2, <2>3, <2>4
  <1> QED BY <1>1, <1>2 DEF Distinct

\* A sequence over a set is one over a larger set.
LEMMA WiderSeq ==
    ASSUME NEW T, NEW s \in Seq(T)
    PROVE  \A U : T \subseteq U => s \in Seq(U)
  OBVIOUS

SortedOf(P, s) == s \in Seq(P) /\ Ascends(s) /\ ToSet(s) = P

\* Every set of pages can be sorted.
LEMMA SortedExists ==
    ASSUME NEW n \in Nat, NEW P \in SUBSET New(n)
    PROVE  \E s : SortedOf(P, s)
  <1> DEFINE S == {k \in Nat : \A Q \in SUBSET Nat : (\A q \in Q : q < k) => \E s : SortedOf(Q, s)}
  <1>1. 0 \in S
    <2> SUFFICES ASSUME NEW Q \in SUBSET Nat, \A q \in Q : q < 0 PROVE \E s : SortedOf(Q, s)
      OBVIOUS
    <2>1. Q = {}
      <3>1. \A q \in Q : q \in Nat /\ q < 0
        OBVIOUS
      <3> QED BY <3>1
    <2>2. <<>> \in Seq(Q) /\ Ascends(<<>>) /\ ToSet(<<>>) = {}
      BY DEF Ascends, ToSet
    <2> QED BY <2>1, <2>2 DEF SortedOf
  <1>2. \A k \in Nat : k \in S => k + 1 \in S
    <2> TAKE k \in Nat
    <2> SUFFICES ASSUME k \in S, NEW Q \in SUBSET Nat, \A q \in Q : q < k + 1
                 PROVE  \E s : SortedOf(Q, s)
      <3>1. k + 1 \in Nat
        OBVIOUS
      <3> QED BY <3>1
    <2> DEFINE R == Q \ {k}
    <2>1. R \in SUBSET Nat /\ \A q \in R : q < k
      <3>1. \A q \in R : q \in Nat /\ q < k + 1 /\ q # k
        OBVIOUS
      <3>2. \A q \in R : q < k
        BY <3>1
      <3> QED BY <3>2
    <2>2. PICK s : SortedOf(R, s)
      BY <2>1
    <2>3. CASE k \notin Q
      BY <2>2, <2>3
    <2>4. CASE k \in Q
      <3>0. s \in Seq(R) /\ ToSet(s) = R /\ Ascends(s)
        BY <2>2 DEF SortedOf
      <3>6. R \subseteq Q /\ R \subseteq Nat
        BY <2>1
      <3> HIDE DEF R
      <3>1. s \in Seq(Q) /\ k \in Q /\ ToSet(s) = R /\ Ascends(s) /\ s \in Seq(Nat)
        BY <2>4, <3>0, <3>6, WiderSeq
      <3>2. Append(s, k) \in Seq(Q) /\ ToSet(Append(s, k)) = R \cup {k}
        BY <3>1, RowsGrow
      <3>3. Ascends(Append(s, k))
        BY <2>1, <3>1, AscendsMore
      <3>4. R \cup {k} = Q
        BY <2>4 DEF R
      <3>5. SortedOf(Q, Append(s, k))
        BY <3>2, <3>3, <3>4 DEF SortedOf
      <3> QED BY <3>5
    <2> QED BY <2>3, <2>4
  <1> HIDE DEF S
  <1>3. \A k \in Nat : k \in S
    BY <1>1, <1>2, NatSetInduction
  <1>4. P \in SUBSET Nat /\ \A q \in P : q < n
    BY DEF New, ROOT_PAGES
  <1> QED BY <1>3, <1>4 DEF S

\* The last of some rows and what is before it
LEMMA SeqParts ==
    ASSUME NEW T, NEW s \in Seq(T), s # <<>>
    PROVE  \E u \in Seq(T), x \in T :
              /\ s = Append(u, x) /\ ToSet(s) = ToSet(u) \cup {x} /\ Len(s) = Len(u) + 1
              /\ Len(u) \in Nat /\ x = s[Len(s)] /\ \A k \in 1 .. Len(u) : u[k] = s[k]
  <1>1. \E u \in Seq(T), x \in T : s = Append(u, x)
    <2> DEFINE len == Len(s)
               u == SubSeq(s, 1, len - 1)
    <2>1. len \in Nat /\ len >= 1
      OBVIOUS
    <2>2. u \in Seq(T) /\ s[len] \in T
      BY <2>1
    <2>3. s = Append(u, s[len])
      BY <2>1
    <2> QED BY <2>2, <2>3
  <1>2. PICK u \in Seq(T), x \in T : s = Append(u, x)
    BY <1>1
  <1>3. ToSet(s) = ToSet(u) \cup {x}
    BY <1>2, RowsGrow
  <1>4. /\ Len(s) = Len(u) + 1 /\ Len(u) \in Nat /\ x = s[Len(s)]
        /\ \A k \in 1 .. Len(u) : u[k] = s[k]
    BY <1>2
  <1> QED BY <1>2, <1>3, <1>4

\* An ascending list without its last page
LEMMA AscendsParts ==
    ASSUME NEW u \in Seq(Nat), NEW x \in Nat, Ascends(Append(u, x))
    PROVE  Ascends(u) /\ (\A q \in ToSet(u) : q \in Nat /\ q < x)
           /\ ToSet(Append(u, x)) = ToSet(u) \cup {x}
  <1> DEFINE s == Append(u, x)
             len == Len(u)
  <1>1. /\ len \in Nat /\ DOMAIN u = 1 .. len /\ DOMAIN s = 1 .. len + 1 /\ s[len + 1] = x
        /\ \A k \in 1 .. len : s[k] = u[k] /\ u[k] \in Nat
    OBVIOUS
  <1>2. ToSet(s) = ToSet(u) \cup {x}
    BY RowsGrow
  <1> HIDE DEF s, len
  <1>3. \A j, k \in 1 .. len + 1 : j < k => s[j] < s[k]
    BY <1>1 DEF Ascends, s
  <1>4. \A k \in 1 .. len : k \in 1 .. len + 1 /\ len + 1 \in 1 .. len + 1 /\ k < len + 1
    BY <1>1
  <1>5. Ascends(u)
    BY <1>1, <1>3, <1>4 DEF Ascends
  <1>6. \A k \in 1 .. len : u[k] \in Nat /\ u[k] < x
    BY <1>1, <1>3, <1>4
  <1>7. \A q \in ToSet(u) : q \in Nat /\ q < x
    BY <1>1, <1>6 DEF ToSet
  <1> QED BY <1>2, <1>5, <1>7 DEF s

\* Rows that a walk skips by leaving out pages without any
Skips(h, s, t) ==
    /\ Ascends(s) /\ ToSet(s) \subseteq ToSet(t)
    /\ \A p \in ToSet(t) : p \in ToSet(s) \/ h[p].rows = <<>>

SkipsTo(n, h, s, t, x) == \E u \in Seq(New(n)) : s = Append(u, x) /\ Skips(h, u, t)

\* Two lists that differ in empty pages end alike, or one has an empty page more.
LEMMA SkipsLast ==
    ASSUME NEW n \in Nat, n >= ROOT_PAGES, NEW h, NEW t \in Seq(New(n)), NEW x \in New(n),
           Ascends(Append(t, x)), NEW s \in Seq(New(n)), Skips(h, s, Append(t, x)), x \in ToSet(s)
    PROVE  SkipsTo(n, h, s, t, x)
  <1>1. t \in Seq(Nat) /\ s \in Seq(Nat) /\ x \in Nat /\ New(n) \subseteq Nat
    <2>1. New(n) \subseteq Nat
      BY IdFacts DEF New, ROOT_PAGES
    <2> QED BY <2>1, WiderSeq
  <1>2. s # <<>>
    BY DEF ToSet
  <1>3. PICK u \in Seq(New(n)), y \in New(n) : s = Append(u, y) /\ ToSet(s) = ToSet(u) \cup {y}
    BY <1>2, SeqParts
  <1>4. u \in Seq(Nat) /\ y \in Nat
    BY <1>1, WiderSeq
  <1>5. Ascends(u) /\ (\A q \in ToSet(u) : q \in Nat /\ q < y)
    BY <1>3, <1>4, AscendsParts DEF Skips
  <1>6. (\A q \in ToSet(t) : q \in Nat /\ q < x) /\ ToSet(Append(t, x)) = ToSet(t) \cup {x}
    BY <1>1, AscendsParts
  <1>7. y = x
    <2>1. y = x \/ y < x
      BY <1>3, <1>6 DEF Skips
    <2>2. x = y \/ x < y
      BY <1>3, <1>5
    <2> QED BY <1>1, <1>4, <2>1, <2>2
  <1>8. \A q \in ToSet(u) : q \in ToSet(t)
    <2> SUFFICES ASSUME NEW q \in ToSet(u) PROVE q \in ToSet(t)
      OBVIOUS
    <2>1. q \in Nat /\ q < x
      BY <1>5, <1>7
    <2>2. q # x
      BY <2>1
    <2> QED BY <1>3, <1>6, <2>2 DEF Skips
  <1>9. \A p \in ToSet(t) : p \in ToSet(u) \/ h[p].rows = <<>>
    <2> SUFFICES ASSUME NEW p \in ToSet(t) PROVE p \in ToSet(u) \/ h[p].rows = <<>>
      OBVIOUS
    <2>1. p \in Nat /\ p < x
      BY <1>6
    <2>2. p # x
      BY <2>1
    <2> QED BY <1>3, <1>6, <1>7, <2>2 DEF Skips
  <1>10. Skips(h, u, t)
    BY <1>5, <1>8, <1>9 DEF Skips
  <1> QED BY <1>3, <1>7, <1>10 DEF SkipsTo

\* Empty pages are not read: a list and its sorted pages read alike.
LEMMA SkipEmpty ==
    ASSUME NEW n \in Nat, n >= ROOT_PAGES, NEW h \in Heap(n)
    PROVE  \A t \in Seq(New(n)) : \A s \in Seq(New(n)) :
              Ascends(t) /\ Skips(h, s, t) => ReadOf(h, s) = ReadOf(h, t)
  <1> DEFINE T == New(n)
             S == {t \in Seq(T) : \A s \in Seq(T) :
                     Ascends(t) /\ Skips(h, s, t) => ReadOf(h, s) = ReadOf(h, t)}
  <1>0. RowsIn(h, T) /\ \A s \in Seq(T) : ReadOf(h, s) \in Seq(Message)
    BY HeapRows
  <1>1. <<>> \in S
    <2> SUFFICES ASSUME NEW s \in Seq(T), Skips(h, s, <<>>) PROVE ReadOf(h, s) = ReadOf(h, <<>>)
      OBVIOUS
    <2>1. ToSet(s) = {}
      BY DEF Skips, ToSet
    <2>2. s = <<>>
      <3>1. Len(s) = 0
        <4>1. Len(s) \in Nat /\ \A k \in 1 .. Len(s) : s[k] \in ToSet(s)
          BY DEF ToSet
        <4> QED BY <2>1, <4>1
      <3> QED BY <3>1
    <2> QED BY <2>2
  <1>2. \A t \in Seq(T), x \in T : t \in S => Append(t, x) \in S
    <2> TAKE t \in Seq(T), x \in T
    <2> SUFFICES ASSUME t \in S, NEW s \in Seq(T), Ascends(Append(t, x)), Skips(h, s, Append(t, x))
                 PROVE  ReadOf(h, s) = ReadOf(h, Append(t, x))
      OBVIOUS
    <2>1. T \subseteq Nat
      BY IdFacts DEF New, ROOT_PAGES
    <2>2. t \in Seq(Nat) /\ x \in Nat
      BY <2>1, WiderSeq
    <2>3. Ascends(t) /\ ToSet(Append(t, x)) = ToSet(t) \cup {x}
      BY <2>2, AscendsParts
    <2>4. ReadOf(h, Append(t, x)) = ReadOf(h, t) \o h[x].rows /\ ReadOf(h, t) \in Seq(Message)
      BY <1>0, ReadMore
    <2>5. CASE x \in ToSet(s)
      <3>5. /\ t \in Seq(New(n)) /\ x \in New(n) /\ s \in Seq(New(n)) /\ n >= ROOT_PAGES
            /\ Ascends(Append(t, x)) /\ Skips(h, s, Append(t, x))
        OBVIOUS
      <3>4. SkipsTo(n, h, s, t, x)
        BY ONLY n \in Nat, <2>5, <3>5, SkipsLast
      <3>1. PICK u \in Seq(T) : s = Append(u, x) /\ Skips(h, u, t)
        BY <3>4 DEF SkipsTo
      <3>2. ReadOf(h, s) = ReadOf(h, u) \o h[x].rows
        BY <1>0, <3>1, ReadMore
      <3>3. ReadOf(h, u) = ReadOf(h, t)
        BY <2>3, <3>1
      <3> QED BY <2>4, <3>2, <3>3
    <2>6. CASE x \notin ToSet(s)
      <3>1. h[x].rows = <<>>
        BY <2>3, <2>6 DEF Skips
      <3>2. Skips(h, s, t)
        BY <2>3, <2>6 DEF Skips
      <3>3. ReadOf(h, s) = ReadOf(h, t)
        BY <2>3, <3>2
      <3> QED BY <2>4, <3>1, <3>3
    <2> QED BY <2>5, <2>6
  <1> HIDE DEF S
  <1>3. \A t \in Seq(T) : t \in S
    BY <1>1, <1>2, SeqSetInduction
  <1> QED BY <1>3 DEF S

\* The messages on the pages of a list are those that a walk of it reads.
LEMMA PlacesMore ==
    ASSUME NEW n \in Nat, n >= ROOT_PAGES, NEW h \in Heap(n), NEW A \in SUBSET New(n),
           NEW p \in New(n), p \notin A
    PROVE  /\ MessagesOn(h, A \cup {p}) = MessagesOn(h, A) + Len(h[p].rows)
           /\ MessagesOn(h, A) \in Nat
  <1> DEFINE R == {p} \X DOMAIN h[p].rows
             len == Len(h[p].rows)
  <1>1. Places(h, A \cup {p}) = Places(h, A) \cup R
    BY DEF Places
  <1>2. Places(h, A) \cap R = {}
    <2> SUFFICES ASSUME NEW at \in Places(h, A), at \in R PROVE FALSE
      OBVIOUS
    <2>1. at[1] = p
      OBVIOUS
    <2>2. at[1] \in A
      BY PlacesFinite
    <2> QED BY <2>1, <2>2
  <1>3. DOMAIN h[p].rows = 1 .. len /\ len \in Nat
    <2>1. h[p].rows \in Seq(Message)
      BY HeapRows DEF RowsIn
    <2> QED BY <2>1
  <1>4. IsFiniteSet(R) /\ Cardinality(R) = len
    <2> DEFINE D == 1 .. len
    <2>0. R = {p} \X D
      BY <1>3
    <2> HIDE DEF R, len
    <2>1. IsFiniteSet(D) /\ Cardinality(D) = len
      BY <1>3, FS_Interval
    <2>2. IsFiniteSet({p}) /\ Cardinality({p}) = 1
      BY FS_Singleton
    <2> HIDE DEF D
    <2>3. IsFiniteSet({p} \X D) /\ Cardinality({p} \X D) = Cardinality({p}) * Cardinality(D)
      BY <2>1, <2>2, FS_Product
    <2>4. \A x \in Nat : 1 * x = x
      OBVIOUS
    <2> QED BY <1>3, <2>0, <2>1, <2>2, <2>3, <2>4
  <1>5. IsFiniteSet(Places(h, A))
    BY PlacesFinite
  <1> HIDE DEF R, len
  <1>6. Cardinality(Places(h, A) \cup R)
            = Cardinality(Places(h, A)) + Cardinality(R) - Cardinality(Places(h, A) \cap R)
    BY <1>4, <1>5, FS_Union
  <1>7. Cardinality(Places(h, A) \cap R) = 0
    BY <1>2, FS_EmptySet
  <1>8. Cardinality(Places(h, A)) \in Nat
    BY <1>5, FS_CardinalityType
  <1>9. MessagesOn(h, A \cup {p}) = Cardinality(Places(h, A) \cup R) /\ MessagesOn(h, A) = Cardinality(Places(h, A))
    BY <1>1 DEF MessagesOn
  <1>10. \A x, y \in Nat : x + y - 0 = x + y
    OBVIOUS
  <1>11. MessagesOn(h, A \cup {p}) = Cardinality(Places(h, A)) + len
    BY <1>3, <1>4, <1>6, <1>7, <1>8, <1>9, <1>10
  <1> QED BY <1>8, <1>9, <1>11 DEF len

\* rebuild_chat_tips counts what a walk reads.
LEMMA CountRows ==
    ASSUME NEW n \in Nat, n >= ROOT_PAGES, NEW h \in Heap(n)
    PROVE  \A s \in Seq(New(n)) : Distinct(s) => MessagesOn(h, ToSet(s)) = Len(ReadOf(h, s))
  <1> DEFINE T == New(n)
             S == {s \in Seq(T) : Distinct(s) => MessagesOn(h, ToSet(s)) = Len(ReadOf(h, s))}
  <1>0. RowsIn(h, T) /\ \A s \in Seq(T) : ReadOf(h, s) \in Seq(Message)
    BY HeapRows
  <1>1. <<>> \in S
    <2>1. ToSet(<<>>) = {}
      BY DEF ToSet
    <2>2. Places(h, {}) = {}
      BY DEF Places
    <2>3. MessagesOn(h, {}) = 0
      BY <2>2, FS_EmptySet DEF MessagesOn
    <2> QED BY <2>1, <2>3, ReadNone
  <1>2. \A s \in Seq(T), x \in T : s \in S => Append(s, x) \in S
    <2> TAKE s \in Seq(T), x \in T
    <2> SUFFICES ASSUME s \in S, Distinct(Append(s, x))
                 PROVE  MessagesOn(h, ToSet(Append(s, x))) = Len(ReadOf(h, Append(s, x)))
      OBVIOUS
    <2>1. ToSet(Append(s, x)) = ToSet(s) \cup {x} /\ ToSet(s) \subseteq T
      BY RowsGrow, RowsFacts
    <2>2. Distinct(s) /\ x \notin ToSet(s)
      <3> DEFINE len == Len(s)
                 t == Append(s, x)
      <3>1. /\ len \in Nat /\ DOMAIN s = 1 .. len /\ DOMAIN t = 1 .. len + 1
            /\ t[len + 1] = x /\ \A k \in 1 .. len : t[k] = s[k]
        OBVIOUS
      <3> HIDE DEF len
      <3>2. \A k \in 1 .. len : k \in 1 .. len + 1 /\ len + 1 \in 1 .. len + 1 /\ k # len + 1
        BY <3>1
      <3>3. \A j, k \in 1 .. len + 1 : t[j] = t[k] => j = k
        BY <3>1 DEF Distinct
      <3> HIDE DEF t
      <3>4. Distinct(s)
        BY <3>1, <3>2, <3>3 DEF Distinct
      <3>5. x \notin ToSet(s)
        BY <3>1, <3>2, <3>3 DEF ToSet
      <3> QED BY <3>4, <3>5
    <2>3. MessagesOn(h, ToSet(s) \cup {x}) = MessagesOn(h, ToSet(s)) + Len(h[x].rows)
      BY <2>1, <2>2, PlacesMore
    <2>4. ReadOf(h, Append(s, x)) = ReadOf(h, s) \o h[x].rows /\ ReadOf(h, s) \in Seq(Message)
          /\ h[x].rows \in Seq(Message)
      BY <1>0, ReadMore DEF RowsIn
    <2>5. Len(ReadOf(h, s) \o h[x].rows) = Len(ReadOf(h, s)) + Len(h[x].rows)
      BY <2>4
    <2> QED BY <2>1, <2>2, <2>3, <2>4, <2>5
  <1> HIDE DEF S
  <1>3. \A s \in Seq(T) : s \in S
    BY <1>1, <1>2, SeqSetInduction
  <1> QED BY <1>3 DEF S

-----------------------------------------------------------------------------
(* What an open makes of the lists: those of the chats become ascending. *)

Mine(n, h, c) == {p \in New(n) : h[p].at32 = c}
Reopened(n, h, f, f2) ==
    /\ f2 \in [Owners -> Seq(New(n))] /\ f2[0] = f[0]
    /\ \A c \in Chats : SortedOf(Mine(n, h, c), f2[c])

\* The lists after open: the pages of each chat, sorted
LEMMA Sorting ==
    ASSUME NEW n \in Nat, n >= ROOT_PAGES, NEW h, NEW f, NEW st, Lists(n, h, f, st)
    PROVE  \E f2 : Reopened(n, h, f, f2)
  <1> DEFINE f2 == [o \in Owners |-> IF o = 0 THEN f[0] ELSE CHOOSE s : SortedOf(Mine(n, h, o), s)]
  <1>1. 0 \in Owners /\ 0 \notin Chats /\ Chats \subseteq Owners /\ f[0] \in Seq(New(n))
    BY ListsFacts
  <1>2. \A c : Mine(n, h, c) \in SUBSET New(n)
    BY DEF Mine
  <1>3. \A c : \E s : SortedOf(Mine(n, h, c), s)
    BY <1>2, SortedExists
  <1>4. \A o \in Owners : o # 0 => SortedOf(Mine(n, h, o), f2[o])
    <2> TAKE o \in Owners
    <2> SUFFICES ASSUME o # 0 PROVE SortedOf(Mine(n, h, o), f2[o])
      OBVIOUS
    <2>1. f2[o] = CHOOSE s : SortedOf(Mine(n, h, o), s)
      OBVIOUS
    <2> HIDE DEF f2
    <2> QED BY <1>3, <2>1
  <1>5. f2[0] = f[0] /\ f2 = [o \in Owners |-> f2[o]]
    BY <1>1
  <1> HIDE DEF f2
  <1>6. \A o \in Owners : f2[o] \in Seq(New(n))
    <2> TAKE o \in Owners
    <2>1. CASE o = 0
      BY <1>1, <1>5, <2>1
    <2>2. CASE o # 0
      <3>1. f2[o] \in Seq(Mine(n, h, o))
        BY <1>4, <2>2 DEF SortedOf
      <3> QED BY <1>2, <3>1, WiderSeq
    <2> QED BY <2>1, <2>2
  <1>7. f2 \in [Owners -> Seq(New(n))]
    BY <1>5, <1>6
  <1>8. \A c \in Chats : SortedOf(Mine(n, h, c), f2[c])
    BY <1>1, <1>4
  <1> QED BY <1>5, <1>7, <1>8 DEF Reopened

\* The pages that rebuild_from_heap finds for a chat
LEMMA MinePages ==
    ASSUME NEW n \in Nat, n >= ROOT_PAGES, NEW h \in Heap(n), NEW f, NEW st, Lists(n, h, f, st)
    PROVE  /\ \A c \in Chats : ChatPagesOf(h, c) = Mine(n, h, c)
           /\ ChatsOn(h) = {c \in Chats : Mine(n, h, c) # {}}
           /\ \A p \in New(n) : /\ h[p].ty = "chat" => h[p].at32 \in Chats
                                /\ h[p].at32 = 0 => h[p].ty # "chat"
  <1>1. DOMAIN h \ {Super} = New(n)
    BY HeapFacts, IdFacts DEF Super
  <1>2. \A p \in New(n) : /\ h[p].at32 \in Owners
                          /\ h[p].ty = IF h[p].at32 = 0 THEN "free" ELSE "chat"
    BY DEF Lists, Homed
  <1>3. 0 \notin Chats
    BY ListsFacts
  <1>4. \A p \in New(n) : h[p].ty = "chat" <=> h[p].at32 \in Chats
    BY <1>2, <1>3 DEF Owners
  <1>5. \A c \in Chats : ChatPagesOf(h, c) = Mine(n, h, c)
    BY <1>1, <1>4 DEF ChatPagesOf, Mine
  <1>6. ChatsOn(h) = {h[p].at32 : p \in {q \in New(n) : h[q].ty = "chat"}}
    BY <1>1 DEF ChatsOn
  <1>7. ChatsOn(h) = {c \in Chats : Mine(n, h, c) # {}}
    BY <1>4, <1>6 DEF Mine
  <1> QED BY <1>2, <1>3, <1>4, <1>5, <1>7

\* A sorted set of pages
LEMMA SortedFacts ==
    ASSUME NEW n \in Nat, n >= ROOT_PAGES, NEW P \in SUBSET New(n), NEW s, SortedOf(P, s)
    PROVE  /\ s \in Seq(New(n)) /\ s \in Seq(Nat) /\ Distinct(s) /\ Ascends(s) /\ ToSet(s) = P
           /\ Len(s) \in Nat /\ DOMAIN s = 1 .. Len(s)
           /\ \A j \in 1 .. Len(s) : s[j] \in P /\ s[j] \in Nat
           /\ \A j, k \in 1 .. Len(s) : s[j] < s[k] => j < k
           /\ \A p \in P : \E j \in 1 .. Len(s) : s[j] = p
           /\ s = <<>> <=> P = {}
  <1>1. s \in Seq(P) /\ Ascends(s) /\ ToSet(s) = P
    BY DEF SortedOf
  <1>2. P \subseteq Nat
    BY IdFacts
  <1>3. s \in Seq(New(n)) /\ s \in Seq(Nat)
    BY <1>1, <1>2, WiderSeq
  <1>4. /\ Distinct(s) /\ \A j, k \in 1 .. Len(s) : s[j] < s[k] => j < k
    BY <1>1, <1>3, AscendsFacts
  <1>5. /\ Len(s) \in Nat /\ DOMAIN s = 1 .. Len(s)
        /\ \A k \in DOMAIN s : s[k] \in P
        /\ \A x \in ToSet(s) : \E k \in DOMAIN s : s[k] = x
        /\ s = <<>> <=> ToSet(s) = {}
    BY <1>1, RowsFacts
  <1> QED BY <1>1, <1>2, <1>3, <1>4, <1>5

\* The page after a page in ascending order
LeastLater(s, k, later) ==
    /\ k = Len(s) => later = {}
    /\ k # Len(s) => later # {} /\ Min(later) = s[k + 1]

\* The next page of the sorted list is the least of the later ones.
LEMMA NextLater ==
    ASSUME NEW n \in Nat, n >= ROOT_PAGES, NEW P \in SUBSET New(n), NEW s, SortedOf(P, s),
           NEW k \in 1 .. Len(s), NEW later, later = {j \in P : j > s[k]}
    PROVE  LeastLater(s, k, later)
  <1>1. /\ Len(s) \in Nat /\ DOMAIN s = 1 .. Len(s) /\ Ascends(s)
        /\ \A j \in 1 .. Len(s) : s[j] \in P /\ s[j] \in Nat
        /\ \A i, j \in 1 .. Len(s) : s[i] < s[j] => i < j
        /\ \A p \in P : \E j \in 1 .. Len(s) : s[j] = p
    BY SortedFacts
  <1>2. \A p \in later : p \in P /\ \E j \in 1 .. Len(s) : s[j] = p /\ k < j
    <2> SUFFICES ASSUME NEW p \in later PROVE p \in P /\ \E j \in 1 .. Len(s) : s[j] = p /\ k < j
      OBVIOUS
    <2>1. p \in P /\ p > s[k]
      OBVIOUS
    <2>2. PICK j \in 1 .. Len(s) : s[j] = p
      BY <1>1, <2>1
    <2>3. s[k] < s[j]
      BY <1>1, <2>1, <2>2
    <2> QED BY <1>1, <2>1, <2>2, <2>3
  <1>3. CASE k = Len(s)
    <2>1. later = {}
      <3> SUFFICES ASSUME NEW p \in later PROVE FALSE
        OBVIOUS
      <3>1. PICK j \in 1 .. Len(s) : s[j] = p /\ k < j
        BY <1>2
      <3> QED BY <1>1, <1>3, <3>1
    <2> QED BY <1>3, <2>1 DEF LeastLater
  <1>4. CASE k # Len(s)
    <2>1. k \in 1 .. Len(s) /\ k + 1 \in 1 .. Len(s) /\ k < k + 1
      <3>1. \A l \in Nat : \A j \in 1 .. l : j # l => j + 1 \in 1 .. l /\ j < j + 1
        OBVIOUS
      <3>2. \A l \in Nat : l = Len(s) => k + 1 \in 1 .. l /\ k < k + 1
        BY <1>4, <3>1
      <3> QED BY <1>1, <3>2
    <2>2. s[k] < s[k + 1] /\ s[k + 1] \in P /\ s[k + 1] \in Nat /\ s[k] \in Nat
      BY <1>1, <2>1 DEF Ascends
    <2>3. s[k + 1] \in later
      BY <2>2
    <2>4. \A p \in later : s[k + 1] <= p
      <3> SUFFICES ASSUME NEW p \in later PROVE s[k + 1] <= p
        OBVIOUS
      <3>1. PICK j \in 1 .. Len(s) : s[j] = p /\ k < j
        BY <1>2
      <3>2. CASE j = k + 1
        BY <2>2, <3>1, <3>2
      <3>3. CASE j # k + 1
        <4>1. k + 1 < j
          BY <1>1, <3>1, <3>3
        <4>2. s[k + 1] < s[j] /\ s[j] \in Nat
          BY <1>1, <2>1, <4>1 DEF Ascends
        <4> QED BY <2>2, <3>1, <4>2
      <3> QED BY <3>2, <3>3
    <2>5. later \in SUBSET New(n) /\ later # {}
      BY <2>3
    <2>6. Min(later) \in later /\ \A p \in later : Min(later) <= p
      BY <2>5, PagesBounds
    <2>7. Min(later) \in Nat /\ Min(later) <= s[k + 1] /\ s[k + 1] <= Min(later)
      BY <2>3, <2>4, <2>5, <2>6, IdFacts
    <2>8. Min(later) = s[k + 1]
      BY <2>2, <2>7
    <2> QED BY <1>4, <2>5, <2>8 DEF LeastLater
  <1> QED BY <1>3, <1>4

\* rebuild_chat_tips links each chat in the order of its pages.
LEMMA RelinkLists ==
    ASSUME NEW n \in Nat, n >= ROOT_PAGES, NEW h \in Heap(n), NEW f, NEW st, Lists(n, h, f, st),
           NEW f2, Reopened(n, h, f, f2)
    PROVE  Lists(n, Relink(h), f2, st)
  <1> DEFINE g == Relink(h)
  <1>1. /\ g[0] = h[0]
        /\ \A p \in New(n) : g[p].rows = h[p].rows /\ g[p].at32 = h[p].at32 /\ g[p].ty = h[p].ty
    BY RelinkTyped
  <1>2. /\ \A c \in Chats : ChatPagesOf(h, c) = Mine(n, h, c)
        /\ \A p \in New(n) : /\ h[p].ty = "chat" => h[p].at32 \in Chats
                             /\ h[p].at32 = 0 => h[p].ty # "chat"
    BY MinePages
  <1>3. DOMAIN h = Ids(n) /\ \A p \in New(n) : p \in Ids(n) /\ p # 0 /\ h[p] \in PageSet(n)
    BY HeapFacts, IdFacts
  <1>4. \A p \in New(n) : h[p].ty # "chat" => g[p].next = h[p].next
    BY <1>3 DEF Relink, Super
  <1>5. ASSUME NEW p \in New(n), h[p].ty = "chat",
               NEW later, later = {j \in Mine(n, h, h[p].at32) : j > p}
        PROVE  g[p].next = IF later = {} THEN 0 ELSE Min(later)
    <2>1. later = {j \in ChatPagesOf(h, h[p].at32) : j > p}
      BY <1>2, <1>5
    <2>2. p \in DOMAIN h /\ p # Super
      BY <1>3 DEF Super
    <2>3. g[p] = [h[p] EXCEPT !.next = IF later = {} THEN 0 ELSE Min(later)]
      BY <1>5, <2>1, <2>2 DEF Relink
    <2>4. \A x : [h[p] EXCEPT !.next = x].next = x
      BY <1>3 DEF PageSet
    <2> QED BY <2>3, <2>4
  <1>6. /\ 0 \in Owners /\ 0 \notin Chats /\ Owners = Chats \cup {0} /\ h[0].at32 = HeadOf(f[0])
        /\ Listed(n, h, 0, f[0]) /\ \A p \in New(n) : Homed(h, f, st, p)
    BY ListsFacts DEF Owners
  <1>7. f2 \in [Owners -> Seq(New(n))] /\ f2[0] = f[0]
        /\ \A c \in Chats : SortedOf(Mine(n, h, c), f2[c]) /\ Mine(n, h, c) \in SUBSET New(n)
    BY DEF Reopened, Mine
  <1> HIDE DEF g
  <1>8. Listed(n, g, 0, f2[0])
    <2>1. \A p \in ToSet(f[0]) : p \in New(n) /\ h[p].at32 = 0
      BY <1>6, ListedFacts
    <2>2. \A p \in ToSet(f[0]) : g[p].next = h[p].next /\ g[p].at32 = h[p].at32
      BY <1>1, <1>2, <1>4, <2>1
    <2>3. n <= n
      OBVIOUS
    <2> QED BY <1>6, <1>7, <2>2, <2>3, ListedSame
  <1>9. ASSUME NEW c \in Chats PROVE Listed(n, g, c, f2[c])
    <2> DEFINE s == f2[c]
               P == Mine(n, h, c)
    <2>1. P \in SUBSET New(n) /\ SortedOf(P, s) /\ \A p \in P : h[p].at32 = c
      BY <1>7 DEF Mine
    <2>2. \A p \in P : h[p].ty = "chat"
      <3>1. \A p \in P : p \in New(n) /\ h[p].at32 = c /\ c # 0
        BY <1>6, <2>1
      <3> QED BY <1>6, <3>1 DEF Homed
    <2>3. /\ s \in Seq(New(n)) /\ Len(s) \in Nat /\ Distinct(s) /\ DOMAIN s = 1 .. Len(s)
          /\ \A j \in 1 .. Len(s) : s[j] \in P
      BY <2>1, SortedFacts
    <2> HIDE DEF s
    <2>4. ASSUME NEW k \in 1 .. Len(s)
          PROVE  g[s[k]].at32 = c /\ g[s[k]].next = IF k = Len(s) THEN 0 ELSE s[k + 1]
      <3> DEFINE later == {j \in P : j > s[k]}
      <3>1. s[k] \in P /\ s[k] \in New(n) /\ h[s[k]].at32 = c /\ h[s[k]].ty = "chat"
        BY <2>1, <2>2, <2>3
      <3>2. later = {j \in Mine(n, h, h[s[k]].at32) : j > s[k]}
        BY <3>1
      <3>3. later = {j \in P : j > s[k]}
        OBVIOUS
      <3> HIDE DEF later, P
      <3>4. g[s[k]].next = IF later = {} THEN 0 ELSE Min(later)
        BY <1>5, <3>1, <3>2
      <3>7. LeastLater(s, k, later)
        BY <2>1, <3>3, NextLater
      <3>5. (IF later = {} THEN 0 ELSE Min(later)) = IF k = Len(s) THEN 0 ELSE s[k + 1]
        BY <3>7 DEF LeastLater
      <3>6. g[s[k]].at32 = c
        BY <1>1, <3>1
      <3> QED BY <3>4, <3>5, <3>6
    <2>5. \A j, k \in 1 .. Len(s) : s[j] = s[k] => j = k
      BY <2>3 DEF Distinct
    <2>6. Listed(n, g, c, s)
      BY <2>3, <2>4, <2>5, IsListed
    <2> QED BY <2>6 DEF s
  <1>10. \A o \in Owners : Listed(n, g, o, f2[o])
    BY <1>6, <1>8, <1>9
  <1>11. \A p \in New(n) : Homed(g, f2, st, p)
    <2> TAKE p \in New(n)
    <2>1. /\ g[p].at32 = h[p].at32 /\ g[p].ty = h[p].ty /\ g[p].rows = h[p].rows
          /\ Homed(h, f, st, p)
      BY <1>1, <1>6
    <2>2. p \in ToSet(f2[h[p].at32]) \/ Loose(g, st, p)
      <3>1. CASE h[p].at32 = 0
        <4>1. p \in ToSet(f[0])
          BY <2>1, <3>1 DEF Homed, Loose
        <4> QED BY <1>7, <3>1, <4>1
      <3>2. CASE h[p].at32 # 0
        <4>1. h[p].at32 \in Chats
          BY <1>6, <2>1, <3>2 DEF Homed
        <4>2. p \in Mine(n, h, h[p].at32)
          BY DEF Mine
        <4>3. ToSet(f2[h[p].at32]) = Mine(n, h, h[p].at32)
          BY <1>7, <4>1 DEF SortedOf
        <4> QED BY <4>2, <4>3
      <3> QED BY <3>1, <3>2
    <2> QED BY <2>1, <2>2 DEF Homed
  <1>12. g[0].at32 = HeadOf(f2[0])
    BY <1>1, <1>6, <1>7
  <1> QED BY <1>7, <1>10, <1>11, <1>12 DEF Lists, g

\* In ascending order they already were: open changes what no chat reads.
LEMMA ReopenReads ==
    ASSUME NEW n \in Nat, n >= ROOT_PAGES, NEW h \in Heap(n), NEW f, NEW st, Lists(n, h, f, st),
           NEW su, Rising(su, f), InOrder(su), su.ckpts = 0 => n = ROOT_PAGES,
           NEW f2, Reopened(n, h, f, f2), NEW c \in Chats
    PROVE  ReadOf(Relink(h), f2[c]) = ReadOf(h, f[c])
  <1> DEFINE g == Relink(h)
  <1>1. \A p \in New(n) : g[p].rows = h[p].rows
    BY RelinkTyped
  <1>2. c \in Owners /\ f[c] \in Seq(New(n)) /\ \A p \in ToSet(f[c]) : p \in New(n) /\ h[p].at32 = c
    BY ListsFacts
  <1>3. f2[c] \in Seq(New(n)) /\ SortedOf(Mine(n, h, c), f2[c])
    BY <1>2 DEF Reopened
  <1>4. RowsIn(h, New(n))
    BY HeapRows
  <1> HIDE DEF g
  <1>5. ReadOf(g, f2[c]) = ReadOf(h, f2[c])
    BY <1>1, <1>3, <1>4, ReadSame
  <1>6. CASE su.trims = 0
    <2>1. Ascends(f[c]) /\ Ascends(f2[c]) /\ ToSet(f2[c]) = Mine(n, h, c)
      BY <1>3, <1>6 DEF Rising, SortedOf
    <2>2. ToSet(f[c]) \subseteq Mine(n, h, c)
      BY <1>2 DEF Mine
    <2>3. \A p \in Mine(n, h, c) : p \in ToSet(f[c]) \/ h[p].rows = <<>>
      <3> TAKE p \in Mine(n, h, c)
      <3>1. p \in New(n) /\ h[p].at32 = c
        BY DEF Mine
      <3>2. Homed(h, f, st, p)
        BY <3>1, ListsFacts
      <3> QED BY <3>1, <3>2 DEF Homed, Loose
    <2>4. Skips(h, f[c], f2[c])
      BY <2>1, <2>2, <2>3 DEF Skips
    <2>5. ReadOf(h, f[c]) = ReadOf(h, f2[c])
      BY <1>2, <1>3, <2>1, <2>4, SkipEmpty
    <2> QED BY <1>5, <2>5 DEF g
  <1>7. CASE su.trims # 0
    <2>1. New(n) = {}
      BY <1>7 DEF InOrder, New, ROOT_PAGES
    <2>2. \A s \in Seq({}) : s = <<>>
      <3> TAKE s \in Seq({})
      <3>1. Len(s) \in Nat /\ \A k \in 1 .. Len(s) : s[k] \in {}
        OBVIOUS
      <3>2. Len(s) = 0
        BY <3>1
      <3> QED BY <3>2
    <2>3. f[c] = <<>> /\ f2[c] = <<>>
      BY <1>2, <1>3, <2>1, <2>2
    <2> QED BY <2>3, ReadNone
  <1> QED BY <1>6, <1>7

\* The pages after the rebuild
LEMMA ReopenLaid ==
    ASSUME NEW n \in Nat, n >= ROOT_PAGES, NEW h, NEW f, NEW st, NEW su, NEW lg, NEW fl, NEW b,
           Laid(n, h, f, st, su, lg, fl, b), su.ckpts = 0 => n = ROOT_PAGES,
           NEW f2, Reopened(n, h, f, f2)
    PROVE  Laid(n, Relink(h), f2, st, su, lg, fl, b)
  <1>1. /\ h \in Heap(n) /\ Lists(n, h, f, st) /\ Ordered(su, h, f, lg, fl, b)
        /\ Rising(su, f) /\ Failures(su, fl, b)
    BY DEF Laid
  <1>2. Relink(h) \in Heap(n)
    BY <1>1, RelinkTyped
  <1>3. Lists(n, Relink(h), f2, st)
    BY <1>1, RelinkLists
  <1>4. InOrder(su) => \A c \in Chats : ReadOf(Relink(h), f2[c]) = ReadOf(h, f[c])
    BY <1>1, ReopenReads
  <1>5. Ordered(su, Relink(h), f2, lg, fl, b)
    BY <1>1, <1>4 DEF Ordered
  <1>6. Rising(su, f2)
    BY <1>1 DEF Rising, Reopened, SortedOf
  <1> QED BY <1>1, <1>2, <1>3, <1>5, <1>6 DEF Laid

\* The tips after the rebuild: counts, heads and tails of what is there
LEMMA ReopenTips ==
    ASSUME NEW n \in Nat, n >= ROOT_PAGES, NEW h \in Heap(n), NEW f, NEW st, Lists(n, h, f, st),
           NEW fl, NEW f2, Reopened(n, h, f, f2)
    PROVE  Tipped(TipsOf(h), <<>>, Relink(h), f2, fl)
  <1> DEFINE t == TipsOf(h)
             g == Relink(h)
  <1>1. /\ \A c \in Chats : ChatPagesOf(h, c) = Mine(n, h, c)
        /\ ChatsOn(h) = {c \in Chats : Mine(n, h, c) # {}}
    BY MinePages
  <1>2. f2 \in [Owners -> Seq(New(n))] /\ Chats \subseteq Owners
        /\ \A c \in Chats : SortedOf(Mine(n, h, c), f2[c]) /\ Mine(n, h, c) \in SUBSET New(n)
    BY DEF Reopened, Mine, Owners
  <1>3. \A c \in Chats : f2[c] = <<>> <=> Mine(n, h, c) = {}
    BY <1>2, SortedFacts
  <1>4. DOMAIN t = {c \in Chats : f2[c] # <<>>}
    <2>1. DOMAIN t = ChatsOn(h)
      BY DEF TipsOf
    <2> QED BY <1>1, <1>3, <2>1
  <1>5. ASSUME NEW c \in DOMAIN t
        PROVE  /\ t[c].head = f2[c][1] /\ t[c].tail = Last(f2[c])
               /\ t[c].count = MessagesOn(h, ToSet(f2[c])) /\ Distinct(f2[c])
    <2> DEFINE P == Mine(n, h, c)
               s == f2[c]
    <2>1. c \in Chats /\ s # <<>> /\ c \in ChatsOn(h)
      BY <1>4 DEF TipsOf
    <2>2. t[c] = Tip(Min(P), Max(P), MessagesOn(h, P))
      BY <1>1, <2>1 DEF TipsOf
    <2>3. P \in SUBSET New(n) /\ SortedOf(P, s) /\ P # {}
      BY <1>2, <1>3, <2>1
    <2> HIDE DEF P, s, t
    <2>4. /\ Len(s) \in Nat /\ DOMAIN s = 1 .. Len(s) /\ Ascends(s) /\ ToSet(s) = P /\ Distinct(s)
          /\ \A j \in 1 .. Len(s) : s[j] \in P /\ s[j] \in Nat
          /\ \A p \in P : \E j \in 1 .. Len(s) : s[j] = p
      BY <2>3, SortedFacts
    <2>5. /\ Min(P) \in P /\ Max(P) \in P /\ \A k \in P : Min(P) <= k /\ k <= Max(P)
      BY <2>3, PagesBounds
    <2>6. 1 \in 1 .. Len(s) /\ Len(s) \in 1 .. Len(s)
      <3>1. PICK j \in 1 .. Len(s) : s[j] = Min(P)
        BY <2>4, <2>5
      <3> QED BY <2>4, <3>1
    <2>7. \A j \in 1 .. Len(s) : s[1] <= s[j] /\ s[j] <= s[Len(s)]
      <3> DEFINE l == Len(s)
      <3>1. /\ l \in Nat /\ 1 \in 1 .. l /\ l \in 1 .. l /\ \A j \in 1 .. l : s[j] \in Nat
            /\ \A i, j \in 1 .. l : i < j => s[i] < s[j]
        BY <2>4, <2>6 DEF Ascends
      <3> HIDE DEF l
      <3>2. \A j \in 1 .. l : (j = 1 \/ 1 < j) /\ (j = l \/ j < l)
        BY <3>1
      <3>3. \A j \in 1 .. l : s[1] <= s[j] /\ s[j] <= s[l]
        <4> TAKE j \in 1 .. l
        <4>1. (s[1] = s[j] \/ s[1] < s[j]) /\ (s[j] = s[l] \/ s[j] < s[l])
          BY <3>1, <3>2
        <4>2. s[1] \in Nat /\ s[j] \in Nat /\ s[l] \in Nat
          BY <3>1
        <4> QED BY <4>1, <4>2
      <3> QED BY <3>3 DEF l
    <2>8. Min(P) = s[1] /\ Max(P) = s[Len(s)]
      <3>1. PICK i \in 1 .. Len(s) : s[i] = Min(P)
        BY <2>4, <2>5
      <3>2. PICK j \in 1 .. Len(s) : s[j] = Max(P)
        BY <2>4, <2>5
      <3>3. s[1] <= Min(P) /\ Max(P) <= s[Len(s)]
        BY <2>7, <3>1, <3>2
      <3>4. Min(P) <= s[1] /\ s[Len(s)] <= Max(P)
        BY <2>4, <2>5, <2>6
      <3>5. s[1] \in Nat /\ s[Len(s)] \in Nat /\ Min(P) \in Nat /\ Max(P) \in Nat
        BY <2>4, <2>6, <3>1, <3>2
      <3> QED BY <3>3, <3>4, <3>5
    <2>9. t[c].head = s[1] /\ t[c].tail = s[Len(s)] /\ t[c].count = MessagesOn(h, ToSet(s))
      BY <2>2, <2>4, <2>8 DEF Tip
    <2> QED BY <2>4, <2>9 DEF s, Last
  <1>6. ASSUME NEW c \in DOMAIN t
        PROVE  /\ Len(NotIn(ReadOf(g, f2[c]), fl)) <= t[c].count
               /\ t[c].count <= Len(ReadOf(g, f2[c]))
    <2>1. c \in Chats /\ f2[c] \in Seq(New(n))
      BY <1>2, <1>4
    <2>2. \A p \in New(n) : g[p].rows = h[p].rows
      BY RelinkTyped
    <2>3. RowsIn(h, New(n)) /\ ReadOf(h, f2[c]) \in Seq(Message)
      BY <2>1, HeapRows
    <2> HIDE DEF g, t
    <2>4. ReadOf(g, f2[c]) = ReadOf(h, f2[c])
      BY <2>1, <2>2, <2>3, ReadSame
    <2>5. t[c].count = Len(ReadOf(h, f2[c]))
      BY <1>5, <2>1, CountRows
    <2>6. /\ Len(NotIn(ReadOf(h, f2[c]), fl)) <= Len(ReadOf(h, f2[c]))
          /\ Len(ReadOf(h, f2[c])) \in Nat
      BY <2>3, NotInFacts
    <2> QED BY <2>4, <2>5, <2>6
  <1>7. DOMAIN <<>> = {}
    OBVIOUS
  <1> HIDE DEF t, g
  <1>8. TipsAre(t, f2)
    BY <1>4, <1>5 DEF TipsAre
  <1>9. Counts(t, g, f2, fl)
    BY <1>6 DEF Counts
  <1>10. RingsAre(<<>>, t, g, f2, fl)
    BY <1>7 DEF RingsAre
  <1> QED BY <1>8, <1>9, <1>10 DEF Tipped, t, g

\* open: the heap read, the chats relinked, the tips counted
LEMMA OpenChains == ASSUME Typed, Chains, Open PROVE Chains'
  <1> SUFFICES ASSUME did'.crashes = 0 PROVE Chains'
    BY DEF Chains
  <1>1. /\ did' = did /\ phase = "closed" /\ phase' = "replay" /\ disk' = disk /\ mem' = Relink(disk)
        /\ call' = call /\ lost' = lost /\ setup' = setup /\ log' = log /\ failed' = failed
        /\ tips' = TipsOf(disk) /\ ring' = ring /\ wal' = wal
    BY DEF Open, dirVars, pastVars, failVars
  <1>2. ring = <<>>
    BY <1>1 DEF Typed, Sized, Space, NoView
  <1>3. PICK n \in Nat : n >= ROOT_PAGES /\ \E f : Chained(n, f)
    BY <1>1 DEF Chains
  <1>4. PICK f : Chained(n, f)
    BY <1>3
  <1>5. View(phase, disk, mem) = disk
    BY <1>1 DEF View
  <1>6. /\ Limbo(phase, call, lost) = lost /\ Placed(phase, did.appends) = did.appends
        /\ Limbo(phase', call', lost') = lost /\ Placed(phase', did'.appends) = did.appends
    BY <1>1, NotCalling
  <1>7. Laid(n, disk, f, lost, setup, log, failed, did.appends)
    BY <1>4, <1>5, <1>6 DEF Chained
  <1>8. wal = <<>> /\ (setup.ckpts = 0 => n = ROOT_PAGES)
    BY <1>1, <1>4 DEF Chained, Resting
  <1>9. disk \in Heap(n) /\ Lists(n, disk, f, lost)
    BY <1>7 DEF Laid
  <1>10. PICK f2 : Reopened(n, disk, f, f2)
    BY <1>3, <1>9, Sorting
  <1>11. Laid(n, Relink(disk), f2, lost, setup, log, failed, did.appends)
    BY <1>3, <1>7, <1>8, <1>10, ReopenLaid
  <1>12. Tipped(TipsOf(disk), <<>>, Relink(disk), f2, failed)
    BY <1>3, <1>9, <1>10, ReopenTips
  <1>13. Calling(setup', phase', call', mem', f2, tips', did'.appends)
    BY <1>1, NotCalling
  <1>14. Resting(n, phase', disk', mem', wal', setup')
    BY <1>1, <1>8 DEF Resting
  <1>15. Laid(n, mem', f2, Limbo(phase', call', lost'), setup', log', failed', Placed(phase', did'.appends))
    BY <1>1, <1>6, <1>11
  <1>16. Tipped(tips', ring', mem', f2, failed')
    BY <1>1, <1>2, <1>12
  <1> QED BY <1>1, <1>3, <1>13, <1>14, <1>15, <1>16, NextRuns

Clean == ~setup.skip => Chains

\* The bounds of a behaviour are chosen once.
LEMMA SetupStays == Next => setup' = setup
  BY DEF Next, Open, Replay, Opened, AppendStart, AppendLink, AppendTooLarge, AppendInsert,
         AppendFails, TrimKeepLast, Recent, Evict, CkptFlush, CkptSnapshot, CkptPersist,
         CkptRotate, CloseSkipped, Crash, pastVars

\* Every step keeps the chains, unless an engine may be left without a checkpoint.
LEMMA StepChains ==
    ASSUME Typed, Chains, Next, ~setup.skip
    PROVE  Chains'
  <1>1. ~CloseSkipped
    BY DEF CloseSkipped
  <1>2. CASE Open \/ Replay \/ Opened
    BY <1>2, OpenChains, ReplayChains, OpenedChains
  <1>3. CASE \E c \in Chats : AppendStart(c)
    BY <1>3, AppendStartChains
  <1>4. CASE AppendLink \/ AppendTooLarge \/ AppendInsert \/ AppendFails
    BY <1>4, AppendLinkChains, AppendTooLargeChains, AppendInsertChains, AppendFailsChains
  <1>5. CASE \E c \in Chats, keep \in setup.keeps : TrimKeepLast(c, keep)
    BY <1>5, TrimKeepLastChains
  <1>6. CASE \E c \in Chats, want \in Wants : Recent(c, want)
    BY <1>6, RecentChains
  <1>7. CASE \E id \in DOMAIN mem : Evict(id)
    BY <1>7, EvictChains
  <1>8. CASE CkptFlush \/ CkptSnapshot \/ CkptPersist \/ CkptRotate
    BY <1>8, CkptFlushChains, CkptSnapshotChains, CkptPersistChains, CkptRotateChains
  <1>9. CASE Crash
    BY <1>9, CrashChains
  <1> QED BY <1>1, <1>2, <1>3, <1>4, <1>5, <1>6, <1>7, <1>8, <1>9 DEF Next

\* The same with that condition inside
LEMMA StepClean == ASSUME Typed, Clean, [Next]_vars PROVE Clean'
  <1>1. CASE Next
    <2> SUFFICES ASSUME ~setup'.skip PROVE Chains'
      BY DEF Clean
    <2>1. ~setup.skip
      BY <1>1, SetupStays
    <2> QED BY <1>1, <2>1, StepChains DEF Clean
  <1>2. CASE UNCHANGED vars
    <2>1. /\ did' = did /\ phase' = phase /\ disk' = disk /\ mem' = mem /\ call' = call
          /\ lost' = lost /\ setup' = setup /\ log' = log /\ failed' = failed /\ tips' = tips
          /\ ring' = ring /\ wal' = wal
      BY <1>2 DEF vars
    <2> SUFFICES ASSUME ~setup'.skip PROVE Chains'
      BY DEF Clean
    <2> QED BY <2>1, SameChains DEF Clean
  <1> QED BY <1>1, <1>2

\* In every behaviour
LEMMA AlwaysClean == Spec => [](Typed /\ Clean)
  <1> DEFINE Inv == Typed /\ Clean
  <1>1. Init => Inv
    BY InitTyped, InitChains DEF Clean
  <1>2. Inv /\ [Next]_vars => Inv'
    BY StepTyped, StepClean
  <1> HIDE DEF Inv
  <1>3. Spec => []Inv
    BY <1>1, <1>2, PTL DEF Spec
  <1> QED BY <1>3 DEF Inv

-----------------------------------------------------------------------------
(* What the invariant says of the walks. *)

\* The lists are what the tips and the freelist lead to.
WalkLists(n, f) ==
    /\ n >= ROOT_PAGES /\ mem \in Heap(n) /\ Lists(n, mem, f, Limbo(phase, call, lost))
    /\ DOMAIN tips = {c \in Chats : f[c] # <<>>}
    /\ \A c \in DOMAIN tips : ChainOf(c) = f[c] /\ tips[c].tail = Last(f[c])
    /\ \A c \in Chats : Read(c) = ReadOf(mem, f[c]) /\ Read(c) \in Seq(Message)
    /\ Freelist = f[0]
    /\ tips \in Tips(n) /\ ring \in Rings
    /\ phase = "link" => \A o \in Owners : call.page \notin ToSet(f[o])
    /\ Counts(tips, mem, f, failed) /\ RingsAre(ring, tips, mem, f, failed)
    /\ InOrder(setup) => \A c \in Chats : NotFailed(Read(c)) = log[c] /\ Distinct(Read(c))
    /\ setup.fails = 0 => failed = {}

\* What each chat reads, from the invariant
LEMMA CleanWalks ==
    ASSUME Typed, Clean, ~setup.skip, did.crashes = 0, phase # "closed"
    PROVE  \E n \in Nat : \E f : WalkLists(n, f)
  <1>1. PICK n \in Nat : \E f : Runs(n, f)
    BY Chaining DEF Clean
  <1>2. PICK f : Runs(n, f)
    BY <1>1
  <1>3. /\ n >= ROOT_PAGES /\ mem \in Heap(n) /\ tips \in Tips(n) /\ ring \in Rings
        /\ Laid(n, mem, f, Limbo(phase, call, lost), setup, log, failed, Placed(phase, did.appends))
        /\ Tipped(tips, ring, mem, f, failed)
        /\ Calling(setup, phase, call, mem, f, tips, did.appends)
    BY <1>2 DEF Runs
  <1>4. /\ Lists(n, mem, f, Limbo(phase, call, lost)) /\ TipsAre(tips, f)
        /\ Ordered(setup, mem, f, log, failed, Placed(phase, did.appends))
        /\ setup.fails = 0 => failed = {}
    BY <1>3 DEF Laid, Tipped, Failures
  <1>5. /\ \A c \in DOMAIN tips : /\ ReadChain(mem, tips[c].head) = ReadOf(mem, f[c])
                                  /\ Chain(mem, tips[c].head) = f[c]
        /\ \A c \in Chats : ReadOf(mem, f[c]) \in Seq(Message)
        /\ \A c \in Chats : c \notin DOMAIN tips => ReadOf(mem, f[c]) = <<>>
    BY <1>3, <1>4, TipReads
  <1>6. \A c \in DOMAIN tips : ChainOf(c) = f[c] /\ tips[c].tail = Last(f[c])
    BY <1>4, <1>5 DEF ChainOf, TipsAre
  <1>7. \A c \in Chats : Read(c) = ReadOf(mem, f[c]) /\ Read(c) \in Seq(Message)
    BY <1>5 DEF Read
  <1>8. Freelist = f[0]
    <2>1. 0 \in Owners /\ mem[0].at32 = HeadOf(f[0])
      BY <1>3, <1>4, ListsFacts
    <2>2. Freelist = Chain(mem, HeadOf(f[0]))
      BY <2>1 DEF Freelist, FreelistHead, E, Super
    <2>3. CASE f[0] = <<>>
      BY <2>2, <2>3, NoChain DEF HeadOf
    <2>4. CASE f[0] # <<>>
      BY <1>3, <1>4, <2>1, <2>2, <2>4, ChainIs DEF HeadOf
    <2> QED BY <2>3, <2>4
  <1>9. phase = "link" => \A o \in Owners : call.page \notin ToSet(f[o])
    BY <1>3 DEF Calling, AtLink
  <1>10. InOrder(setup) => \A c \in Chats : NotFailed(Read(c)) = log[c] /\ Distinct(Read(c))
    BY <1>4, <1>7 DEF Ordered, Told, NotFailed
  <1>11. WalkLists(n, f)
    BY <1>3, <1>4, <1>6, <1>7, <1>8, <1>9, <1>10 DEF WalkLists, TipsAre, Tipped
  <1> QED BY <1>11

\* What the invariant says of the pages,
LEMMA CleanOwners ==
    ASSUME Typed, Clean, ~setup.skip PROVE OneOwner
  <1> SUFFICES ASSUME Serving, did.crashes = 0 PROVE OneOwner
    BY DEF OneOwner
  <1>1. PICK n \in Nat : \E f : WalkLists(n, f)
    BY CleanWalks DEF Serving
  <1>2. PICK f : WalkLists(n, f)
    BY <1>1
  <1> DEFINE chains == UNION {ToSet(ChainOf(c)) : c \in DOMAIN tips}
             taken  == IF phase = "link" THEN {call.page} ELSE {}
             st     == Limbo(phase, call, lost)
  <1>3. /\ n >= ROOT_PAGES /\ mem \in Heap(n) /\ Lists(n, mem, f, st)
        /\ DOMAIN tips = {c \in Chats : f[c] # <<>>}
        /\ \A c \in DOMAIN tips : ChainOf(c) = f[c]
        /\ FreePages = ToSet(f[0]) /\ st = lost \cup taken
        /\ \A o \in Owners : taken \cap ToSet(f[o]) = {}
    BY <1>2 DEF WalkLists, FreePages, Limbo
  <1> HIDE DEF taken, st
  <1>4. /\ \A o \in Owners : \A p \in ToSet(f[o]) : p \in New(n) /\ p # 0 /\ mem[p].at32 = o
        /\ 0 \in Owners /\ Chats \subseteq Owners /\ 0 \notin Chats
        /\ \A p \in New(n) : Homed(mem, f, st, p)
    BY <1>3, ListsFacts
  <1>5. chains = UNION {ToSet(f[c]) : c \in DOMAIN tips}
    BY <1>3
  <1>6. \A c, d \in DOMAIN tips : c # d => ToSet(ChainOf(c)) \cap ToSet(ChainOf(d)) = {}
    BY <1>3, <1>4
  <1>7. FreePages \cap chains = {}
    BY <1>3, <1>4, <1>5
  <1>8. taken \cap (FreePages \cup chains) = {}
    BY <1>3, <1>4, <1>5
  <1>9. DOMAIN mem \ ({Super} \cup FreePages \cup taken \cup chains) \subseteq lost
    <2> SUFFICES ASSUME NEW p \in DOMAIN mem, p # Super, p \notin FreePages, p \notin taken,
                        p \notin chains
                 PROVE  p \in lost
      OBVIOUS
    <2>1. p \in New(n)
      BY <1>3, HeapFacts, IdFacts DEF Super
    <2>2. mem[p].at32 \in Owners /\ (p \in ToSet(f[mem[p].at32]) \/ Loose(mem, st, p))
      BY <1>4, <2>1 DEF Homed
    <2>3. p \notin ToSet(f[mem[p].at32])
      <3>1. CASE mem[p].at32 = 0
        BY <1>3, <3>1
      <3>2. CASE mem[p].at32 # 0
        <4> SUFFICES ASSUME p \in ToSet(f[mem[p].at32]) PROVE FALSE
          OBVIOUS
        <4>1. mem[p].at32 \in Chats
          BY <2>2, <3>2 DEF Owners
        <4>2. f[mem[p].at32] # <<>>
          <5>1. ToSet(<<>>) = {}
            BY DEF ToSet
          <5> QED BY <5>1
        <4>3. mem[p].at32 \in DOMAIN tips
          BY <1>3, <4>1, <4>2
        <4> QED BY <1>5, <4>3
      <3> QED BY <3>1, <3>2
    <2> QED BY <1>3, <2>2, <2>3 DEF Loose
  <1> QED BY <1>6, <1>7, <1>8, <1>9 DEF OneOwner, taken

\* of the tips,
LEMMA CleanTips ==
    ASSUME Typed, Clean, ~setup.skip PROVE TipsMatchChains
  <1> SUFFICES ASSUME Serving, did.crashes = 0, NEW c \in DOMAIN tips
               PROVE  /\ tips[c].count \in Len(NotFailed(Read(c))) .. Len(Read(c))
                      /\ tips[c].tail = Last(ChainOf(c))
                      /\ \A id \in ToSet(ChainOf(c)) : mem[id].ty = "chat" /\ mem[id].at32 = c
    BY DEF TipsMatchChains
  <1>1. PICK n \in Nat : \E f : WalkLists(n, f)
    BY CleanWalks DEF Serving
  <1>2. PICK f : WalkLists(n, f)
    BY <1>1
  <1>3. /\ n >= ROOT_PAGES /\ Lists(n, mem, f, Limbo(phase, call, lost))
        /\ c \in Chats /\ ChainOf(c) = f[c] /\ tips[c].tail = Last(f[c])
        /\ Read(c) = ReadOf(mem, f[c]) /\ Read(c) \in Seq(Message)
        /\ Counts(tips, mem, f, failed) /\ tips \in Tips(n)
    BY <1>2 DEF WalkLists
  <1>4. tips[c].count \in Len(NotFailed(Read(c))) .. Len(Read(c))
    <2>1. /\ Len(NotFailed(Read(c))) <= tips[c].count /\ tips[c].count <= Len(Read(c))
      BY <1>3 DEF Counts, NotFailed
    <2>2. NotFailed(Read(c)) \in Seq(Message)
      BY <1>3, NotInFacts DEF NotFailed
    <2>3. tips[c].count \in Nat
      BY <1>3, TipFacts
    <2> QED BY <1>3, <2>1, <2>2, <2>3
  <1>5. ASSUME NEW id \in ToSet(ChainOf(c)) PROVE mem[id].ty = "chat" /\ mem[id].at32 = c
    <2>1. id \in New(n) /\ mem[id].at32 = c /\ c # 0 /\ Homed(mem, f, Limbo(phase, call, lost), id)
      BY <1>3, ListsFacts
    <2> QED BY <2>1 DEF Homed
  <1> QED BY <1>3, <1>4, <1>5

\* of the rings,
LEMMA CleanRecent ==
    ASSUME Typed, Clean, ~setup.skip PROVE RecentAnswers
  <1> SUFFICES ASSUME Serving, did.crashes = 0, failed = {}, NEW c \in Chats, NEW limit \in Nat
               PROVE  ChatRecent(E, c, limit) = LastOf(Read(c), WantOf(limit))
    <2>1. 0 .. MaxAppends \subseteq Nat
      OBVIOUS
    <2> QED BY <2>1 DEF RecentAnswers
  <1>1. PICK n \in Nat : \E f : WalkLists(n, f)
    BY CleanWalks DEF Serving
  <1>2. PICK f : WalkLists(n, f)
    BY <1>1
  <1>3. /\ Read(c) = ReadOf(mem, f[c]) /\ Read(c) \in Seq(Message) /\ ring \in Rings
        /\ RingsAre(ring, tips, mem, f, failed)
    BY <1>2 DEF WalkLists
  <1> DEFINE want == WantOf(limit)
  <1>4. want \in Nat
    BY CapFacts DEF WantOf
  <1>5. ChatRecent(E, c, limit) =
            IF c \in DOMAIN ring /\ want <= Len(ring[c]) THEN LastOf(ring[c], want)
            ELSE IF c \notin DOMAIN tips THEN <<>>
            ELSE LastOf(ReadChain(mem, tips[c].head), want)
    BY DEF ChatRecent, E
  <1> HIDE DEF want
  <1>6. CASE c \in DOMAIN ring /\ want <= Len(ring[c])
    <2>1. ring[c] = LastOf(Read(c), Len(ring[c]))
      BY <1>3, <1>6 DEF RingsAre
    <2>2. Len(ring[c]) \in Nat
      BY <1>3, <1>6, PartialFacts DEF Rings
    <2>3. LastOf(ring[c], want) = LastOf(Read(c), want)
      BY <1>3, <1>4, <1>6, <2>1, <2>2, LastOfLast
    <2> QED BY <1>5, <1>6, <2>3 DEF want
  <1>7. CASE ~(c \in DOMAIN ring /\ want <= Len(ring[c])) /\ c \in DOMAIN tips
    BY <1>5, <1>7 DEF Read, want
  <1>8. CASE ~(c \in DOMAIN ring /\ want <= Len(ring[c])) /\ c \notin DOMAIN tips
    <2>1. Read(c) = <<>>
      BY <1>8 DEF Read
    <2>2. LastOf(<<>>, want) = <<>>
      <3>1. <<>> \in Seq(Message) /\ Len(<<>>) = 0
        OBVIOUS
      <3>2. LastOf(<<>>, want) \in Seq(Message) /\ Len(LastOf(<<>>, want)) <= 0
        BY <1>4, <3>1, LastOfFacts
      <3> QED BY <3>2
    <2> QED BY <1>5, <1>8, <2>1, <2>2 DEF want
  <1> QED BY <1>6, <1>7, <1>8

\* and of the messages
LEMMA CleanKeeps ==
    ASSUME Typed, Clean, ~setup.skip, InOrder(setup) PROVE KeepsMessages
  <1> SUFFICES ASSUME Serving, did.crashes = 0, NEW c \in Chats
               PROVE  /\ ToSet(NotFailed(Read(c))) = ToSet(log[c])
                      /\ Len(NotFailed(Read(c))) = Len(log[c])
                      /\ IsInjective(Read(c))
    BY DEF KeepsMessages
  <1>1. PICK n \in Nat : \E f : WalkLists(n, f)
    BY CleanWalks DEF Serving
  <1>2. PICK f : WalkLists(n, f)
    BY <1>1
  <1>3. NotFailed(Read(c)) = log[c] /\ Distinct(Read(c))
    BY <1>2 DEF WalkLists
  <1> QED BY <1>3 DEF IsInjective, Distinct

-----------------------------------------------------------------------------
(* The abstract chat log. *)

\* The clients make a bounded number of appends, and choose from a bounded set of ids.
Few == \E b \in Nat : \A s \in Setups : s.appends <= b /\ \A id \in s.ids : id <= b

\* A bounded set of numbers has a largest.
LEMMA MaxIs ==
    ASSUME NEW P \in SUBSET Nat, NEW x \in P, NEW b \in Nat, \A k \in P : k <= b
    PROVE  Max(P) \in P /\ x <= Max(P)
  <1>1. \E m \in P : \A k \in P : k <= m
    BY Largest
  <1>2. \E m \in P : \A k \in P : m >= k
    BY <1>1
  <1>3. Max(P) \in P /\ \A k \in P : Max(P) >= k
    BY <1>2 DEF Max
  <1> QED BY <1>3

\* The messages that clients choose
LEMMA Chosen ==
    ASSUME Few, NEW su \in Setups, NEW i \in Nat, i < su.appends, NEW id,
           id \in IF su.ids = {} THEN {i + 1} ELSE su.ids
    PROVE  [id |-> id, body |-> i + 1] \in Messages
  <1>1. PICK b \in Nat : \A s \in Setups : s.appends <= b /\ \A x \in s.ids : x <= b
    BY DEF Few
  <1> DEFINE P == {s.appends : s \in Setups}
             Q == (1 .. MaxAppends) \cup UNION {s.ids : s \in Setups}
  <1>2. \A s \in Setups : s.appends \in Nat /\ s.ids \subseteq Nat \ {0}
    BY ChatEngineAssumption DEF SetupType
  <1>3. MaxAppends \in Nat /\ su.appends <= MaxAppends
    <2>1. P \in SUBSET Nat /\ su.appends \in P /\ \A k \in P : k <= b
      BY <1>1, <1>2
    <2>2. MaxAppends = Max(P)
      BY DEF MaxAppends
    <2> HIDE DEF P
    <2> QED BY <2>1, <2>2, MaxIs
  <1>4. MaxAppends <= b
    <2>1. P \in SUBSET Nat /\ su.appends \in P /\ \A k \in P : k <= b
      BY <1>1, <1>2
    <2>2. MaxAppends = Max(P)
      BY DEF MaxAppends
    <2> HIDE DEF P
    <2> QED BY <2>1, <2>2, MaxIs
  <1>5. i + 1 \in 1 .. MaxAppends
    BY <1>2, <1>3
  <1>6. id \in Q /\ Q \in SUBSET Nat /\ \A k \in Q : k <= b
    <2>1. id \in Q
      BY <1>5
    <2>2. Q \in SUBSET Nat
      BY <1>2, <1>3
    <2>3. \A k \in Q : k <= b
      <3>1. \A k \in 1 .. MaxAppends : k <= b
        BY <1>1, <1>3, <1>4
      <3>2. \A k \in UNION {s.ids : s \in Setups} : k <= b
        BY <1>1
      <3> QED BY <3>1, <3>2
    <2> QED BY <2>1, <2>2, <2>3
  <1>7. \A k \in Q : k >= 1
    BY <1>2, <1>3
  <1>8. id \in 1 .. MaxId
    <2>1. MaxId = Max(Q)
      BY DEF MaxId
    <2> HIDE DEF Q
    <2>2. Max(Q) \in Q /\ id <= Max(Q)
      BY <1>1, <1>6, MaxIs
    <2> QED BY <1>6, <1>7, <2>1, <2>2
  <1> QED BY <1>5, <1>8 DEF Messages

\* The log is a function, and the message of the running append one of the clients'.
Called ==
    /\ log = [c \in Chats |-> log[c]]
    /\ phase \in {"link", "insert"} => call.msg \in Messages

\* What a step may do to the log
Moves ==
    \/ log' = log
    \/ \E c \in Chats, m \in Messages : log' = [log EXCEPT ![c] = Append(@, m)]
    \/ \E c \in Chats, keep \in UNION {s.keeps : s \in Setups} :
          log' = [log EXCEPT ![c] = LastOf(@, keep)]

\* The log has an entry for each chat, and nothing else.
LEMMA LogStays ==
    ASSUME Called, Moves
    PROVE  log' = [c \in Chats |-> log'[c]]
  <1>1. log = [c \in Chats |-> log[c]]
    BY DEF Called
  <1> QED BY <1>1 DEF Moves

\* A message called for is one of the messages,
LEMMA StartCalls ==
    ASSUME Few, Typed, NEW c \in Chats, AppendStart(c)
    PROVE  log' = log /\ call'.msg \in Messages
  <1>1. /\ May("appends") /\ setup \in Setups /\ did.appends \in Nat /\ log' = log
        /\ \E id \in Choose(c), big \in {FALSE} \cup {May("bigs")} :
              call'.msg = [id |-> id, body |-> did.appends + 1]
    <2>1. setup \in Setups /\ did.appends \in Nat
      BY DEF Typed, CountsOK, Bounded
    <2>2. \E id \in Choose(c), big \in {FALSE} \cup {May("bigs")} :
              call'.msg = [id |-> id, body |-> did.appends + 1]
      BY DEF AppendStart
    <2> QED BY <2>1, <2>2 DEF AppendStart
  <1>2. PICK id \in Choose(c) : call'.msg = [id |-> id, body |-> did.appends + 1]
    BY <1>1
  <1>3. did.appends < setup.appends
    BY <1>1 DEF May
  <1> QED BY <1>1, <1>2, <1>3, Chosen DEF Choose

\* and stays the one called for.
LEMMA TooLargeCalls ==
    ASSUME Typed, Called, AppendTooLarge
    PROVE  log' = log /\ (phase' = "link" => call'.msg \in Messages) /\ phase' # "insert"
  <1>1. PICK n : Sized(n)
    BY DEF Typed
  <1>2. call \in CallType(n) /\ phase = "link" /\ call.msg \in Messages
    BY <1>1 DEF Sized, CallOK, AppendTooLarge, Called
  <1>3. call.prev # 0 => phase' = "open"
    BY DEF AppendTooLarge
  <1>4. call.prev = 0 => phase' = "link" /\ call'.msg = call.msg
    <2>1. \A x, y : [call EXCEPT !.page = x, !.prev = y].msg = call.msg
      BY <1>2 DEF CallType
    <2> SUFFICES ASSUME call.prev = 0 PROVE phase' = "link" /\ call'.msg = call.msg
      OBVIOUS
    <2>2. phase' = phase /\ \E x, y : call' = [call EXCEPT !.page = x, !.prev = y]
      BY DEF AppendTooLarge
    <2>3. PICK x, y : call' = [call EXCEPT !.page = x, !.prev = y]
      BY <2>2
    <2> QED BY <1>2, <2>1, <2>2, <2>3
  <1> QED BY <1>2, <1>3, <1>4 DEF AppendTooLarge, pastVars

\* Each step moves the log as the abstract one may, or not at all.
LEMMA StepCalled ==
    ASSUME Few, Typed, Called, [Next]_vars
    PROVE  Called' /\ Moves
  <1>0. setup \in Setups
    BY DEF Typed, CountsOK
  <1>1. CASE \/ Open \/ Replay \/ Opened \/ CkptFlush \/ CkptSnapshot \/ CkptPersist \/ CkptRotate
             \/ CloseSkipped \/ AppendFails
             \/ (\E c \in Chats, want \in Wants : Recent(c, want)) \/ UNCHANGED vars
    <2>1. log' = log
      BY <1>1 DEF Open, Replay, Opened, CkptFlush, CkptSnapshot, CkptPersist, CkptRotate,
                  CloseSkipped, AppendFails, Recent, vars, pastVars
    <2>2. phase' \in {"link", "insert"} => phase' = phase /\ call' = call
      BY <1>1 DEF Open, Replay, Opened, CkptFlush, CkptSnapshot, CkptPersist, CkptRotate,
                  CloseSkipped, AppendFails, Recent, vars, Gone
    <2> QED BY <2>1, <2>2 DEF Called, Moves
  <1>2. CASE (\E id \in DOMAIN mem : Evict(id)) \/ AppendLink
    <2>1. log' = log /\ call' = call
      BY <1>2 DEF Evict, AppendLink, pastVars
    <2>2. phase' \in {"link", "insert"} => phase \in {"link", "insert"}
      BY <1>2 DEF Evict, AppendLink
    <2> QED BY <2>1, <2>2 DEF Called, Moves
  <1>3. CASE \E c \in Chats : AppendStart(c)
    BY <1>3, StartCalls DEF Called, Moves
  <1>4. CASE AppendTooLarge
    BY <1>4, TooLargeCalls DEF Called, Moves
  <1>5. CASE AppendInsert
    <2>1. phase = "insert" /\ phase' = "open" /\ log' = [log EXCEPT ![call.chat] = Append(@, call.msg)]
      BY <1>5 DEF AppendInsert
    <2>2. call.msg \in Messages /\ call.chat \in Chats
      BY <2>1 DEF Called, Typed, Sized, CallOK
    <2>3. Moves
      BY <2>1, <2>2 DEF Moves
    <2> QED BY <2>1, <2>3, LogStays DEF Called
  <1>6. CASE \E c \in Chats, keep \in setup.keeps : TrimKeepLast(c, keep)
    <2>1. PICK c \in Chats, keep \in setup.keeps : TrimKeepLast(c, keep)
      BY <1>6
    <2>2. phase = "open" /\ phase' = phase /\ log' = [log EXCEPT ![c] = LastOf(@, keep)]
      BY <2>1 DEF TrimKeepLast
    <2>3. keep \in UNION {s.keeps : s \in Setups}
      BY <1>0
    <2>4. Moves
      BY <2>2, <2>3 DEF Moves
    <2> QED BY <2>2, <2>4, LogStays DEF Called
  <1>7. CASE Crash
    <2>1. phase' = "closed"
      BY <1>7 DEF Crash, Gone
    <2>2. \/ log' = log
          \/ phase = "insert" /\ log' = [log EXCEPT ![call.chat] = Append(@, call.msg)]
      BY <1>7 DEF Crash
    <2>3. phase = "insert" => call.msg \in Messages /\ call.chat \in Chats
      BY DEF Called, Typed, Sized, CallOK
    <2>4. Moves
      BY <2>2, <2>3 DEF Moves
    <2> QED BY <2>1, <2>4, LogStays DEF Called
  <1> QED BY <1>1, <1>2, <1>3, <1>4, <1>5, <1>6, <1>7 DEF Next

\* What the abstract log is taken to be
Seen == [c \in Chats |-> IF Serving /\ Faithful THEN Read(c) ELSE log[c]]

\* The walks are the log, when nothing fails.
LEMMA SeenIsLog ==
    ASSUME Typed, Clean, ~setup.skip, Called
    PROVE  Seen = log
  <1>1. log = [c \in Chats |-> log[c]]
    BY DEF Called
  <1>2. ASSUME Serving, Faithful, NEW c \in Chats
        PROVE  Read(c) = log[c]
    <2>1. did.crashes = 0 /\ setup.fails = 0 /\ (setup.trims = 0 \/ setup.ckpts = 0)
      BY <1>2 DEF Faithful
    <2>2. PICK n \in Nat : \E f : WalkLists(n, f)
      BY <1>2, <2>1, CleanWalks DEF Serving
    <2>3. PICK f : WalkLists(n, f)
      BY <2>2
    <2>4. /\ Read(c) \in Seq(Message) /\ failed = {} /\ NotFailed(Read(c)) = log[c]
      BY <2>1, <2>3 DEF WalkLists, InOrder
    <2>5. NotFailed(Read(c)) = Read(c)
      BY <2>4, NotInFacts DEF NotFailed
    <2> QED BY <2>4, <2>5
  <1> QED BY <1>1, <1>2 DEF Seen

\* A step of the log is a step of the abstract one, or none.
LEMMA MovesAreSteps ==
    ASSUME Seen = log, Seen' = log', Moves
    PROVE  [Abstract!Next]_Seen
  <1>1. CASE log' = log
    BY <1>1
  <1>2. CASE log' # log
    <2>1. Seen' # Seen
      BY <1>2
    <2>2. ASSUME NEW c \in Chats, NEW m \in Messages, log' = [log EXCEPT ![c] = Append(@, m)]
          PROVE  Abstract!AppendTo(c)
      <3>1. Seen' = [Seen EXCEPT ![c] = Append(@, m)]
        BY <2>2
      <3> QED BY <3>1 DEF Abstract!AppendTo, Seen
    <2>3. ASSUME NEW c \in Chats, NEW keep \in UNION {s.keeps : s \in Setups},
                 log' = [log EXCEPT ![c] = LastOf(@, keep)]
          PROVE  Abstract!TrimTo(c)
      <3>1. Seen' = [Seen EXCEPT ![c] = LastOf(@, keep)]
        BY <2>3
      <3> QED BY <3>1 DEF Abstract!TrimTo, Abstract!LastN, LastOf, Seen
    <2>4. Abstract!Next
      BY <1>2, <2>1, <2>2, <2>3 DEF Moves, Abstract!Next, Seen
    <2> QED BY <2>4
  <1> QED BY <1>1, <1>2

\* OneOwner, for any number of chats, pages and calls: while the process lives, each page is in the
\* chain of one chat, on the freelist, with the append that has just allocated it, or lost by an
\* append that failed before its link (alloc_chat_page, free_page, chat_append,
\* chat_trim_keep_last, rebuild_chat_tips).  The condition is that of all five
\* theorems: an engine closed by close(true), or dropped, leaves a log that the next open redoes
\* over pages which have it already; what becomes of the chains then is for the runs to show.
THEOREM PagesHaveOneOwner == Spec => [](~setup.skip => OneOwner)
  <1>1. Typed /\ Clean => (~setup.skip => OneOwner)
    BY CleanOwners
  <1> QED BY <1>1, AlwaysClean, PTL

\* TipsMatchChains: the tip of a chat, which chat_append trusts without a walk, ends at the last page
\* of the chain and counts its messages, through appends that fail, trims, and opens.
THEOREM TipsFollowChains == Spec => [](~setup.skip => TipsMatchChains)
  <1>1. Typed /\ Clean => (~setup.skip => TipsMatchChains)
    BY CleanTips
  <1> QED BY <1>1, AlwaysClean, PTL

\* RecentAnswers: while no append has failed, chat_recent answers from the ring what a walk of the
\* pages would, for every limit.
THEOREM RingsAgree == Spec => [](~setup.skip => RecentAnswers)
  <1>1. Typed /\ Clean => (~setup.skip => RecentAnswers)
    BY CleanRecent
  <1> QED BY <1>1, AlwaysClean, PTL

\* KeepsMessages: a walk of the pages finds the messages of the log and those of failed appends, none
\* twice and none of another chat.  InOrder asks for no trims, or for neither
\* a failing log nor a checkpoint: after a trim, pages come from the freelist in any order, the next
\* open sorts them, and a later trim then keeps other messages than the last (finding 3).
THEOREM WalksKeepMessages == Spec => [](~setup.skip /\ InOrder(setup) => KeepsMessages)
  <1>1. Typed /\ Clean => (~setup.skip /\ InOrder(setup) => KeepsMessages)
    BY CleanKeeps
  <1> QED BY <1>1, AlwaysClean, PTL

\* ImplementsChatLog: seen through the walks, each step appends one message at the end of one chat,
\* trims one chat to its last messages, or changes nothing.  Few bounds the appends and the ids that
\* behaviours have, without which there is no largest message to give the abstract log.
THEOREM ChatLogIsImplemented ==
    ASSUME Few
    PROVE  Spec /\ ~setup.skip => ImplementsChatLog
  <1> DEFINE Inv == Typed /\ Clean /\ Called /\ ~setup.skip
  <1>1. Init /\ ~setup.skip => Inv
    <2>1. Init => Called
      BY DEF Init, Called
    <2> QED BY <2>1, InitTyped, InitChains DEF Clean
  <1>2. Inv /\ [Next]_vars => Inv'
    <2>1. [Next]_vars => setup' = setup
      BY SetupStays DEF vars
    <2> QED BY <2>1, StepTyped, StepClean, StepCalled
  <1>3. Inv => Seen = log
    BY SeenIsLog
  <1>4. Init /\ ~setup.skip => Abstract!Init
    <2> SUFFICES ASSUME Init, ~setup.skip PROVE Abstract!Init
      OBVIOUS
    <2>1. Seen = log
      BY <1>1, <1>3
    <2>2. log = [c \in Chats |-> <<>>]
      BY DEF Init
    <2>3. Seen = [c \in Chats |-> <<>>]
      BY <2>1, <2>2
    <2> QED BY <2>3 DEF Abstract!Init, Seen
  <1>5. Inv => Inv /\ Seen = log
    BY <1>3
  <1>6. (Inv /\ Seen = log) /\ (Inv /\ Seen = log)' /\ [Next]_vars
            => [Abstract!Next]_[c \in Chats |-> IF Serving /\ Faithful THEN Read(c) ELSE log[c]]
    <2> SUFFICES ASSUME Inv /\ Seen = log, (Inv /\ Seen = log)', [Next]_vars
                 PROVE  [Abstract!Next]_Seen
      BY DEF Seen
    <2>1. Moves
      BY StepCalled
    <2> QED BY <2>1, MovesAreSteps
  <1> HIDE DEF Inv
  <1> QED BY <1>1, <1>2, <1>4, <1>5, <1>6, PTL DEF Spec, ImplementsChatLog, Abstract!Spec
=============================================================================
