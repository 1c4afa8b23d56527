---------------------------- MODULE DomainsProofs ----------------------------
(***************************************************************************)
(* What Domains guarantees for every setup, every set of names and every   *)
(* length of history: the hot page never shows what was overwritten or     *)
(* deleted, and never forgets the key set last; and, for setups whose      *)
(* process does not die after it took pages from a freelist, chains stay   *)
(* apart from each other and from the freelist, jobs stay until they are   *)
(* acknowledged and no longer, come once while checkpoints alone write     *)
(* pages, and are answered in order, and the last tuple of a bond is       *)
(* listed.                                                                 *)
(***************************************************************************)
EXTENDS Domains, PagesProofs, SequenceTheorems

-----------------------------------------------------------------------------
(* The tuples that a rewriting keeps. *)

LEMMA ToSetAppend ==
    ASSUME NEW T, NEW s \in Seq(T), NEW x
    PROVE  ToSet(Append(s, x)) = ToSet(s) \cup {x}
  <1> DEFINE t == Append(s, x)
  <1>1. /\ Len(s) \in Nat /\ DOMAIN t = 1 .. Len(s) + 1 /\ DOMAIN s = 1 .. Len(s)
        /\ \A i \in 1 .. Len(s) : t[i] = s[i]
        /\ t[Len(s) + 1] = x
    OBVIOUS
  <1> HIDE DEF t
  <1>2. DOMAIN t = DOMAIN s \cup {Len(s) + 1}
    BY <1>1
  <1> QED BY <1>1, <1>2 DEF ToSet, t

\* No tuple is there twice.
Apart(rows) == \A j, k \in DOMAIN rows : rows[j] = rows[k] => j = k

\* Appending what is not there
LEMMA ApartAppend ==
    ASSUME NEW T, NEW s \in Seq(T), NEW x, Apart(s), x \notin ToSet(s)
    PROVE  Apart(Append(s, x))
  <1> DEFINE t == Append(s, x)
             n == Len(s)
  <1>1. /\ n \in Nat /\ DOMAIN t = 1 .. n + 1 /\ DOMAIN s = 1 .. n
        /\ \A i \in 1 .. n : t[i] = s[i]
        /\ t[n + 1] = x
    OBVIOUS
  <1>2. \A i \in 1 .. n : s[i] # x
    BY <1>1 DEF ToSet
  <1>3. \A i \in 1 .. n + 1 : i \in 1 .. n \/ i = n + 1
    BY <1>1
  <1> HIDE DEF t, n
  <1>4. \A j, k \in 1 .. n + 1 : t[j] = t[k] => j = k
    BY <1>1, <1>2, <1>3 DEF Apart
  <1>5. Apart(t)
    BY <1>1, <1>4 DEF Apart
  <1> QED BY <1>5 DEF t

\* Two sequences with nothing in common
LEMMA ApartConcat ==
    ASSUME NEW T, NEW s \in Seq(T), NEW t \in Seq(T), Apart(s), Apart(t),
           ToSet(s) \cap ToSet(t) = {}
    PROVE  Apart(s \o t)
  <1> DEFINE u == s \o t
             m == Len(s)
             n == Len(t)
  <1>1. /\ m \in Nat /\ n \in Nat
        /\ DOMAIN u = 1 .. m + n /\ DOMAIN s = 1 .. m /\ DOMAIN t = 1 .. n
        /\ \A i \in 1 .. m : u[i] = s[i]
        /\ \A i \in 1 .. n : u[m + i] = t[i]
    OBVIOUS
  <1> HIDE DEF u, m, n
  <1>2. \A i \in 1 .. m + n : i \in 1 .. m \/ (i - m \in 1 .. n /\ i > m /\ m + (i - m) = i)
    BY <1>1
  <1>3. \A i \in 1 .. m : u[i] \in ToSet(s)
    BY <1>1 DEF ToSet
  <1>4. \A i \in 1 .. m + n : i > m => u[i] = t[i - m] /\ i - m \in 1 .. n /\ u[i] \in ToSet(t)
    <2> TAKE i \in 1 .. m + n
    <2> HAVE i > m
    <2>1. i - m \in 1 .. n /\ m + (i - m) = i
      BY <1>1
    <2> QED BY <1>1, <2>1 DEF ToSet
  <1>5. ASSUME NEW j \in 1 .. m + n, NEW k \in 1 .. m + n, u[j] = u[k]
        PROVE  j = k
    <2>1. CASE j \in 1 .. m /\ k \in 1 .. m
      BY <1>1, <1>5, <2>1 DEF Apart
    <2>2. CASE j > m /\ k > m
      <3>0. t[j - m] = t[k - m] /\ j - m \in DOMAIN t /\ k - m \in DOMAIN t
        BY <1>1, <1>4, <1>5, <2>2
      <3>1. j - m = k - m
        BY <3>0 DEF Apart
      <3> QED BY <1>1, <3>1
    <2>3. CASE (j \in 1 .. m /\ k > m) \/ (j > m /\ k \in 1 .. m)
      BY <1>3, <1>4, <1>5, <2>3
    <2> QED BY <1>2, <2>1, <2>2, <2>3
  <1>6. Apart(u)
    BY <1>1, <1>5 DEF Apart
  <1> QED BY <1>6 DEF u

LEMMA OthersFacts ==
    ASSUME NEW T, NEW rows \in Seq(T), NEW field, NEW x
    PROVE  /\ Others(rows, field, x) \in Seq(T)
           /\ Len(Others(rows, field, x)) <= Len(rows)
           /\ ToSet(Others(rows, field, x)) = {row \in ToSet(rows) : row[field] # x}
           /\ Apart(rows) => Apart(Others(rows, field, x))
  <1> DEFINE len == Len(rows)
             Step(k, n) == IF n = 0 THEN <<>>
                           ELSE IF rows[n][field] = x THEN k[n - 1]
                           ELSE Append(k[n - 1], rows[n])
             V == Seq(T)
             step == [i \in 1 .. len |->
                         [k \in V |-> IF rows[i][field] = x THEN k ELSE Append(k, rows[i])]]
             kept == CHOOSE k : k = [n \in 0 .. len |-> Step(k, n)]
  <1>1. len \in Nat /\ \A i \in 1 .. len : rows[i] \in T
    OBVIOUS
  <1>2. \E k : k = [n \in 0 .. len |-> Step(k, n)]
    <2>1. step \in [1 .. len -> [V -> V]] /\ <<>> \in V
      BY <1>1
    <2>2. PICK f \in [0 .. len -> V] :
             /\ f[0] = <<>>
             /\ \A i \in 1 .. len : f[i] = step[i][f[i - 1]]
      <3> DEFINE nil == <<>>
      <3>1. len \in Nat /\ nil \in V /\ step \in [1 .. len -> [V -> V]]
        BY <1>1, <2>1
      <3> HIDE DEF step, V, len, nil
      <3>2. \E f \in [0 .. len -> V] :
                /\ f[0] = nil
                /\ \A i \in 1 .. len : f[i] = step[i][f[i - 1]]
        BY ONLY <3>1, Recursion
      <3> QED BY <3>2 DEF nil
    <2>3. \A i \in 1 .. len : f[i - 1] \in V /\ f[i] = Step(f, i)
      <3> TAKE i \in 1 .. len
      <3>1. i - 1 \in 0 .. len /\ i # 0
        BY <1>1
      <3>2. f[i - 1] \in V
        BY <2>2, <3>1
      <3> HIDE DEF V
      <3>4. f[i] = IF rows[i][field] = x THEN f[i - 1] ELSE Append(f[i - 1], rows[i])
        BY <2>2, <3>2
      <3> QED BY <3>1, <3>2, <3>4
    <2>4. \A n \in 0 .. len : f[n] = Step(f, n)
      <3> TAKE n \in 0 .. len
      <3>1. n = 0 \/ n \in 1 .. len
        BY <1>1
      <3> QED BY <2>2, <2>3, <3>1
    <2>5. f = [n \in 0 .. len |-> Step(f, n)]
      <3>1. f = [n \in 0 .. len |-> f[n]]
        BY <2>2
      <3> HIDE DEF Step
      <3> QED BY <2>4, <3>1
    <2> QED BY <2>5
  <1>3. kept = [n \in 0 .. len |-> Step(kept, n)]
    BY <1>2, Zenon
  <1>4. Others(rows, field, x) = kept[len]
    BY DEF Others
  <1> HIDE DEF kept
  <1>5. /\ kept[0] = <<>>
        /\ \A n \in 1 .. len : kept[n] = IF rows[n][field] = x THEN kept[n - 1]
                                         ELSE Append(kept[n - 1], rows[n])
    <2>1. \A n \in 0 .. len : kept[n] = Step(kept, n)
      BY <1>3
    <2> QED BY <1>1, <2>1
  <1> DEFINE Upto(n) == {rows[i] : i \in {j \in 1 .. n : rows[j][field] # x}}
             Fact(n) == /\ kept[n] \in Seq(T) /\ Len(kept[n]) <= n
                        /\ ToSet(kept[n]) = Upto(n)
                        /\ Apart(rows) => Apart(kept[n])
             Good == {n \in Nat : n <= len => Fact(n)}
  <1>6. 0 \in Good
    <2>1. ToSet(<<>>) = {} /\ Upto(0) = {}
      BY DEF ToSet
    <2> HIDE DEF Upto
    <2>2. kept[0] \in Seq(T) /\ Len(kept[0]) <= 0 /\ ToSet(kept[0]) = Upto(0)
      <3>1. <<>> \in Seq(T) /\ Len(<<>>) = 0
        OBVIOUS
      <3>2. kept[0] = <<>>
        BY <1>5
      <3>3. ToSet(kept[0]) = Upto(0)
        BY <2>1, <3>2
      <3> QED BY <3>1, <3>2, <3>3
    <2>3. Apart(kept[0])
      BY <1>5 DEF Apart
    <2> QED BY <2>2, <2>3
  <1>7. \A n \in Nat : n \in Good => n + 1 \in Good
    <2> SUFFICES ASSUME NEW n \in Nat, n \in Good, n + 1 <= len
                 PROVE  Fact(n + 1)
      <3> HIDE DEF Fact
      <3> QED OBVIOUS
    <2>1. n + 1 \in 1 .. len /\ (n + 1) - 1 = n
      BY <1>1
    <2>2. kept[n] \in Seq(T) /\ Len(kept[n]) <= n /\ ToSet(kept[n]) = Upto(n)
          /\ (Apart(rows) => Apart(kept[n]))
      BY <1>1
    <2>3. \A j \in 1 .. n + 1 : j \in 1 .. n \/ j = n + 1
      OBVIOUS
    <2>4. \A j \in 1 .. n : j \in 1 .. n + 1
      OBVIOUS
    <2>5. CASE rows[n + 1][field] = x
      <3>1. kept[n + 1] = kept[n]
        BY <1>5, <2>1, <2>5
      <3>2. Upto(n + 1) = Upto(n)
        BY <2>3, <2>4, <2>5
      <3> HIDE DEF Upto
      <3> QED BY <2>2, <3>1, <3>2
    <2>6. CASE rows[n + 1][field] # x
      <3>1. kept[n + 1] = Append(kept[n], rows[n + 1])
        BY <1>5, <2>1, <2>6
      <3>2. Upto(n + 1) = Upto(n) \cup {rows[n + 1]}
        BY <2>3, <2>4, <2>6
      <3>3. rows[n + 1] \in T
        BY <1>1, <2>1
      <3> HIDE DEF Upto
      <3>4. /\ kept[n + 1] \in Seq(T) /\ Len(kept[n + 1]) = Len(kept[n]) + 1
            /\ DOMAIN kept[n + 1] = 1 .. Len(kept[n]) + 1 /\ DOMAIN kept[n] = 1 .. Len(kept[n])
            /\ \A i \in 1 .. Len(kept[n]) : kept[n + 1][i] = kept[n][i]
            /\ kept[n + 1][Len(kept[n]) + 1] = rows[n + 1]
        BY <2>2, <3>1, <3>3
      <3>5. Len(kept[n]) \in Nat
        BY <2>2
      <3>6. DOMAIN kept[n + 1] = DOMAIN kept[n] \cup {Len(kept[n]) + 1}
        BY <3>4, <3>5
      <3>7. ToSet(kept[n + 1]) = ToSet(kept[n]) \cup {rows[n + 1]}
        BY <2>2, <3>1, ToSetAppend
      <3>8. Apart(rows) => rows[n + 1] \notin ToSet(kept[n])
        <4>1. \A i \in 1 .. n : i \in DOMAIN rows /\ n + 1 \in DOMAIN rows /\ i # n + 1
          BY <1>1, <2>1
        <4>2. Apart(rows) => \A i \in 1 .. n : rows[i] # rows[n + 1]
          BY <4>1 DEF Apart
        <4> QED BY <2>2, <4>2 DEF Upto
      <3>9. Apart(rows) => Apart(kept[n + 1])
        BY <2>2, <3>1, <3>8, ApartAppend
      <3> QED BY <2>2, <3>2, <3>4, <3>5, <3>7, <3>9
    <2> QED BY <2>5, <2>6
  <1>8. len \in Good
    <2> HIDE DEF Good
    <2> QED BY <1>1, <1>6, <1>7, NatSetInduction
  <1>9. Upto(len) = {row \in ToSet(rows) : row[field] # x}
    BY DEF ToSet
  <1> HIDE DEF Upto
  <1> QED BY <1>1, <1>4, <1>8, <1>9

LEMMA MinFacts ==
    ASSUME NEW S \in SUBSET Nat, S # {}
    PROVE  Min(S) \in S /\ \A k \in S : Min(S) <= k
  <1>1. \E m \in S : \A k \in S : m <= k
    BY Smallest
  <1> QED BY <1>1 DEF Min

-----------------------------------------------------------------------------
(* Types. *)

HotRow    == [key : HotKeys, v : Nat \ {0}, exp : Nat]
JobRow    == [id : JobIds, at : Times, v : Nat \ {0}]
BondRow   == [key : BondKeys, v : Nat \ {0}]
RecallRow == [key : RecallKeys, v : Nat \ {0}]
Row == HotRow \cup JobRow \cup BondRow \cup RecallRow

\* Pages of a heap of n pages: links and the freelist lead to no root page.
Links(n)   == {0} \cup (ROOT_PAGES .. n - 1)
PageSet(n) == [ty : Domain \cup {"super", "free"}, at32 : Links(n), next : Links(n),
               rows : {rows \in Seq(Row) : Len(rows) <= PageCap}]
Heap(n)    == [0 .. n - 1 -> PageSet(n)]
Store(n)   == [mem : Heap(n), disk : Heap(n)]

\* Records of the log
Logged ==
    [op : {"SetHot"}, row : HotRow] \cup [op : {"DelHot"}, row : [key : HotKeys]]
    \cup [op : {"EnqueueImpulse"}, row : JobRow] \cup [op : {"AckImpulse"}, row : [id : JobIds]]
    \cup [op : {"UpsertBond"}, row : BondRow] \cup [op : {"UpsertRecall"}, row : RecallRow]

LEMMA RootFacts ==
    /\ Roots = {1, 2, 3, 4} /\ Root.hot = 1
    /\ \A d \in Domain : Root[d] \in 1 .. ROOT_PAGES - 1
    /\ \A d \in Domain \ {"hot"} : Root[d] # 1
    /\ \A d, e \in Domain : Root[d] = Root[e] => d = e
  BY DEF Roots, Root, Domain, ROOT_PAGES

LEMMA AllocTyped ==
    ASSUME NEW n \in Nat, NEW ty \in Domain \cup {"super", "free"}
    PROVE  Alloc(ty) \in PageSet(n)
  <1>1. <<>> \in Seq(Row) /\ Len(<<>>) <= PageCap
    BY PagesAssumption
  <1> QED BY <1>1 DEF Alloc, PageSet, Links

LEMMA SizeOf ==
    ASSUME NEW n \in Nat, n >= ROOT_PAGES, NEW heap, DOMAIN heap = 0 .. n - 1
    PROVE  SizePages(heap) = n
  <1> DEFINE ids == DOMAIN heap \ {Super}
  <1>1. ids = 1 .. n - 1 /\ n - 1 \in ids /\ \A y \in ids : n - 1 >= y
    BY DEF Super, ROOT_PAGES
  <1>2. Max(ids) \in ids /\ \A y \in ids : Max(ids) >= y
    <2> HIDE DEF ids
    <2> QED BY <1>1 DEF Max
  <1>3. Max(ids) = n - 1
    <2>1. Max(ids) \in 1 .. n - 1 /\ Max(ids) >= n - 1
      <3> HIDE DEF ids
      <3> QED BY <1>1, <1>2
    <2> QED BY <2>1
  <1>4. ids # {} /\ SizePages(heap) = IF ids = {} THEN ROOT_PAGES ELSE Max(ids) + 1
    BY <1>1 DEF SizePages
  <1> HIDE DEF ids
  <1> QED BY <1>3, <1>4

LEMMA HeapLinked ==
    ASSUME NEW n \in Nat, n >= ROOT_PAGES, NEW heap \in Heap(n)
    PROVE  /\ Linked(heap) /\ DOMAIN heap = 0 .. n - 1
           /\ \A p \in 0 .. n - 1 : heap[p] \in PageSet(n)
           /\ \A p \in 0 .. n - 1 : heap[p].next \in Links(n) /\ heap[p].at32 \in Links(n)
  <1>1. DOMAIN heap = 0 .. n - 1 /\ IsFiniteSet(0 .. n - 1)
    BY FS_Interval DEF Heap
  <1>2. \A p \in 0 .. n - 1 : heap[p] \in PageSet(n)
    BY DEF Heap
  <1>3. \A p \in 0 .. n - 1 : heap[p].next \in Links(n) /\ heap[p].at32 \in Links(n)
    BY <1>2 DEF PageSet
  <1>4. Links(n) \subseteq (0 .. n - 1) \cup {0}
    BY DEF Links, ROOT_PAGES
  <1> QED BY <1>1, <1>2, <1>3, <1>4 DEF Linked

\* A chain has its head and pages that are no root, and so do walks of it.
LEMMA ChainPages ==
    ASSUME NEW n \in Nat, n >= ROOT_PAGES, NEW heap \in Heap(n),
           NEW head \in (0 .. n - 1) \ {0}
    PROVE  LET S == ToSet(Chain(heap, head))
           IN  /\ head \in S /\ Last(Chain(heap, head)) \in S
               /\ S \subseteq {head} \cup (ROOT_PAGES .. n - 1)
               /\ S \subseteq (0 .. n - 1) \ {0}
               /\ \A k \in DOMAIN Chain(heap, head) : Chain(heap, head)[k] \in S
  <1> DEFINE S == ToSet(Chain(heap, head))
             D == {head} \cup (ROOT_PAGES .. n - 1)
  <1>1. \A p \in 0 .. n - 1 : heap[p].next \in Links(n)
    BY HeapLinked
  <1>2. \A p \in D : heap[p].next \in D \cup {0}
    BY <1>1 DEF Links, ROOT_PAGES
  <1>3. Linked(heap) /\ DOMAIN heap = 0 .. n - 1
    BY HeapLinked
  <1>4. head \in D
    OBVIOUS
  <1> HIDE DEF D
  <1>5. /\ head \in S /\ Last(Chain(heap, head)) \in S /\ S \subseteq D
        /\ S \subseteq (0 .. n - 1) \ {0}
        /\ \A k \in DOMAIN Chain(heap, head) : Chain(heap, head)[k] \in S
    BY <1>2, <1>3, <1>4, ChainReaches
  <1> QED BY <1>5 DEF D

-----------------------------------------------------------------------------
(* The operations on pages. *)

\* A page whose link, and page 0 whose head of the freelist, leads elsewhere
LinkedTo(page, id) == [page EXCEPT !.next = id]
Heading(page, id)  == [page EXCEPT !.at32 = id]

\* alloc_page with an empty freelist extends both the pool and the file.
LEMMA AllocFresh ==
    ASSUME NEW n \in Nat, n >= ROOT_PAGES, NEW s \in Store(n), NEW ty \in Domain,
           FreelistHead(s) = 0
    PROVE  LET a == AllocPage(s, ty)
           IN  /\ a.id = n /\ a.s \in Store(n + 1)
               /\ \A p \in 0 .. n - 1 : a.s.mem[p] = s.mem[p] /\ a.s.disk[p] = s.disk[p]
               /\ a.s.mem[n] = Alloc(ty) /\ a.s.disk[n] = Alloc(ty)
  <1> DEFINE a == AllocPage(s, ty)
  <1>1. s.mem \in Heap(n) /\ s.disk \in Heap(n)
    BY DEF Store
  <1>2. SizePages(s.disk) = n
    BY <1>1, SizeOf DEF Heap
  <1>3. a = [id |-> n, s |-> [mem |-> Put(s.mem, n, Alloc(ty)), disk |-> Put(s.disk, n, Alloc(ty))]]
    BY <1>2 DEF AllocPage, AppendPage
  <1>4. PageSet(n) \subseteq PageSet(n + 1) /\ Alloc(ty) \in PageSet(n + 1)
    <2>1. Links(n) \subseteq Links(n + 1)
      BY DEF Links, ROOT_PAGES
    <2> QED BY <2>1, AllocTyped DEF PageSet
  <1>5. ASSUME NEW heap \in Heap(n)
        PROVE  LET g == Put(heap, n, Alloc(ty))
               IN  /\ g \in Heap(n + 1) /\ g[n] = Alloc(ty)
                   /\ \A p \in 0 .. n - 1 : g[p] = heap[p]
    <2> DEFINE g == Put(heap, n, Alloc(ty))
    <2>1. DOMAIN heap = 0 .. n - 1 /\ \A p \in 0 .. n - 1 : heap[p] \in PageSet(n)
      BY DEF Heap
    <2>2. g = [p \in (0 .. n - 1) \cup {n} |-> IF p = n THEN Alloc(ty) ELSE heap[p]]
      BY <2>1 DEF Put
    <2>3. (0 .. n - 1) \cup {n} = 0 .. (n + 1) - 1 /\ n \notin 0 .. n - 1
      OBVIOUS
    <2> HIDE DEF g
    <2> QED BY <1>4, <2>1, <2>2, <2>3 DEF Heap, g
  <1> QED BY <1>1, <1>3, <1>5 DEF Store

\* alloc_page otherwise takes the head of the freelist.
LEMMA AllocFreed ==
    ASSUME NEW n \in Nat, n >= ROOT_PAGES, NEW s \in Store(n), NEW ty \in Domain,
           FreelistHead(s) # 0
    PROVE  LET a == AllocPage(s, ty)
           IN  /\ a.id = FreelistHead(s) /\ a.id \in ROOT_PAGES .. n - 1
               /\ a.s \in Store(n) /\ a.s.disk = s.disk
               /\ \A p \in 0 .. n - 1 : p # 0 /\ p # a.id => a.s.mem[p] = s.mem[p]
               /\ a.s.mem[a.id] = Alloc(ty)
               /\ a.s.mem[0] = Heading(s.mem[0], s.mem[a.id].next)
  <1> DEFINE a == AllocPage(s, ty)
             head == FreelistHead(s)
  <1>1. s.mem \in Heap(n) /\ s.disk \in Heap(n) /\ DOMAIN s.mem = 0 .. n - 1
    BY DEF Store, Heap
  <1>2. head \in ROOT_PAGES .. n - 1 /\ 0 \in 0 .. n - 1
    BY <1>1, HeapLinked DEF FreelistHead, Super, Links, ROOT_PAGES
  <1>3. a = [id |-> head,
             s |-> [s EXCEPT !.mem[head] = Alloc(ty), !.mem[Super].at32 = s.mem[head].next]]
    BY DEF AllocPage
  <1>4. head \in (0 .. n - 1) \ {0}
    BY <1>2 DEF ROOT_PAGES
  <1> HIDE DEF head
  <1>5. /\ a.id = head
        /\ a.s.disk = s.disk
        /\ a.s.mem = [[s.mem EXCEPT ![head] = Alloc(ty)] EXCEPT ![0].at32 = s.mem[head].next]
        /\ a.s = [mem |-> a.s.mem, disk |-> a.s.disk]
    <2>1. s = [mem |-> s.mem, disk |-> s.disk]
      BY DEF Store
    <2>2. /\ [s EXCEPT !.mem[head] = Alloc(ty), !.mem[Super].at32 = s.mem[head].next].disk = s.disk
          /\ [s EXCEPT !.mem[head] = Alloc(ty), !.mem[Super].at32 = s.mem[head].next].mem
                = [[s.mem EXCEPT ![head] = Alloc(ty)] EXCEPT ![0].at32 = s.mem[head].next]
      BY <2>1 DEF Super
    <2>3. a.id = head /\ a.s = [s EXCEPT !.mem[head] = Alloc(ty), !.mem[Super].at32 = s.mem[head].next]
      BY <1>3
    <2> HIDE DEF a
    <2> QED BY <2>1, <2>2, <2>3
  <1> HIDE DEF a
  <1>6. /\ \A p \in (0 .. n - 1) \ {0, head} : a.s.mem[p] = s.mem[p]
        /\ a.s.mem[head] = Alloc(ty)
        /\ a.s.mem[0] = [s.mem[0] EXCEPT !.at32 = s.mem[head].next]
        /\ DOMAIN a.s.mem = 0 .. n - 1
        /\ a.s.mem = [p \in 0 .. n - 1 |-> a.s.mem[p]]
    <2> DEFINE m == s.mem
               m1 == [m EXCEPT ![head] = Alloc(ty)]
               x == m[head].next
               m2 == [m1 EXCEPT ![0].at32 = x]
    <2>1. m = [p \in 0 .. n - 1 |-> m[p]]
      BY <1>1 DEF Heap
    <2>2. a.s.mem = m2
      BY <1>5
    <2> HIDE DEF m, x
    <2>3. /\ m1 = [p \in 0 .. n - 1 |-> m1[p]] /\ m1[head] = Alloc(ty)
          /\ \A p \in 0 .. n - 1 : p # head => m1[p] = m[p]
      BY <1>4, <2>1
    <2> HIDE DEF m1
    <2>4. /\ m2 = [p \in 0 .. n - 1 |-> m2[p]]
          /\ \A p \in 0 .. n - 1 : p # 0 => m2[p] = m1[p]
          /\ m2[0] = [m1[0] EXCEPT !.at32 = x]
      BY <1>2, <2>3
    <2> HIDE DEF m2
    <2>5. m1[0] = m[0]
      BY <1>2, <1>4, <2>3
    <2> QED BY <1>4, <2>2, <2>3, <2>4, <2>5 DEF m, x
  <1>7. a.s.mem[0] \in PageSet(n)
    <2>1. s.mem[0] \in PageSet(n) /\ s.mem[head].next \in Links(n)
      BY <1>1, <1>4, HeapLinked
    <2> QED BY <1>6, <2>1 DEF PageSet
  <1>8. Alloc(ty) \in PageSet(n) /\ \A p \in 0 .. n - 1 : s.mem[p] \in PageSet(n)
    BY <1>1, AllocTyped, HeapLinked
  <1>9. \A p \in 0 .. n - 1 : a.s.mem[p] \in PageSet(n)
    BY <1>6, <1>7, <1>8
  <1>10. a.s.mem \in Heap(n)
    BY <1>6, <1>9 DEF Heap
  <1> QED BY <1>1, <1>2, <1>5, <1>6, <1>10 DEF Store, Heading, a, head

\* The change of one page
LEMMA PageChange ==
    ASSUME NEW n \in Nat, NEW heap \in Heap(n), NEW p \in 0 .. n - 1, NEW page \in PageSet(n)
    PROVE  /\ [heap EXCEPT ![p] = page] \in Heap(n)
           /\ [heap EXCEPT ![p] = page][p] = page
           /\ \A q \in (0 .. n - 1) \ {p} : [heap EXCEPT ![p] = page][q] = heap[q]
  BY DEF Heap

LEMMA InsertTyped ==
    ASSUME NEW n \in Nat, NEW page \in PageSet(n), NEW row \in Row, HasRoom(page),
           NEW ty \in Domain
    PROVE  /\ Insert(page, row) \in PageSet(n)
           /\ Insert(page, row) = [page EXCEPT !.rows = Append(page.rows, row)]
           /\ Filled(page, ty, row) \in PageSet(n)
           /\ Filled(page, ty, row) =
                 [page EXCEPT !.ty = IF page.ty = "free" THEN ty ELSE page.ty,
                              !.rows = Append(page.rows, row)]
  <1>1. page.rows \in Seq(Row) /\ Len(page.rows) <= PageCap /\ Len(page.rows) \in Nat
    BY DEF PageSet
  <1>2. Append(page.rows, row) \in Seq(Row) /\ Len(Append(page.rows, row)) <= PageCap
    BY <1>1, PagesAssumption DEF HasRoom
  <1>3. Insert(page, row) = [page EXCEPT !.rows = Append(page.rows, row)]
    BY DEF Insert, PageSet
  <1>4. Filled(page, ty, row) =
           [page EXCEPT !.ty = IF page.ty = "free" THEN ty ELSE page.ty,
                        !.rows = Append(page.rows, row)]
    BY DEF Filled, Insert, PageSet
  <1> QED BY <1>2, <1>3, <1>4 DEF PageSet

\* insert_into_chain, when a page of the chain has room
LEMMA InsertInRoom ==
    ASSUME NEW n \in Nat, n >= ROOT_PAGES, NEW s \in Store(n),
           NEW ty \in Domain, NEW row \in Row,
           Roomy(s.mem, Chain(s.mem, Root[ty])) # {}
    PROVE  LET t == ChainInsert(s, ty, row)
           IN  /\ t \in Store(n) /\ t.disk = s.disk
               /\ \E p \in ToSet(Chain(s.mem, Root[ty])) :
                     /\ p \in (0 .. n - 1) \ {0}
                     /\ HasRoom(s.mem[p]) /\ t.mem[p] = Filled(s.mem[p], ty, row)
                     /\ \A q \in (0 .. n - 1) \ {p} : t.mem[q] = s.mem[q]
  <1> DEFINE t == ChainInsert(s, ty, row)
             chain == Chain(s.mem, Root[ty])
             roomy == Roomy(s.mem, chain)
             p == chain[Min(roomy)]
  <1>1. s.mem \in Heap(n) /\ s = [mem |-> s.mem, disk |-> s.disk] /\ Root[ty] \in (0 .. n - 1) \ {0}
    BY RootFacts DEF Store, ROOT_PAGES
  <1>2. DOMAIN chain \subseteq Nat
    <2>1. chain \in Seq(DOMAIN s.mem)
      BY <1>1, HeapLinked, ChainFacts DEF WalkFrom, Walks
    <2> QED BY <2>1
  <1>3. Min(roomy) \in roomy
    <2>1. roomy \in SUBSET Nat
      BY <1>2 DEF Roomy
    <2> QED BY <2>1, MinFacts
  <1>4. p \in ToSet(chain) /\ HasRoom(s.mem[p])
    BY <1>1, <1>3, ChainPages DEF Roomy
  <1>5. p \in (0 .. n - 1) \ {0}
    BY <1>1, <1>4, ChainPages
  <1>6. t = [s EXCEPT !.mem[p] = Filled(s.mem[p], ty, row)]
    BY DEF ChainInsert
  <1> HIDE DEF p, t
  <1>7. t = [mem |-> [s.mem EXCEPT ![p] = Filled(s.mem[p], ty, row)], disk |-> s.disk]
    BY <1>1, <1>6
  <1>8. s.mem[p] \in PageSet(n)
    BY <1>1, <1>5, HeapLinked
  <1>9. Filled(s.mem[p], ty, row) \in PageSet(n)
    BY <1>4, <1>8, InsertTyped
  <1> DEFINE page == Filled(s.mem[p], ty, row)
  <1>10. /\ t.mem = [s.mem EXCEPT ![p] = page] /\ t.disk = s.disk
         /\ t = [mem |-> t.mem, disk |-> t.disk]
    BY <1>7
  <1> HIDE DEF page
  <1>11. /\ t.mem \in Heap(n) /\ t.mem[p] = page
         /\ \A q \in (0 .. n - 1) \ {p} : t.mem[q] = s.mem[q]
    BY <1>1, <1>5, <1>9, <1>10, PageChange DEF page
  <1> QED BY <1>4, <1>5, <1>10, <1>11 DEF Store, t, page

\* insert_into_chain otherwise: the page from alloc_page goes behind the last.
LEMMA InsertLinks ==
    ASSUME NEW n \in Nat, n >= ROOT_PAGES, NEW s \in Store(n),
           NEW ty \in Domain, NEW row \in Row,
           Roomy(s.mem, Chain(s.mem, Root[ty])) = {},
           NEW n2 \in {n, n + 1}, AllocPage(s, ty).s \in Store(n2),
           AllocPage(s, ty).id \in ROOT_PAGES .. n2 - 1,
           AllocPage(s, ty).s.mem[AllocPage(s, ty).id] = Alloc(ty)
    PROVE  LET t == ChainInsert(s, ty, row)
               a == AllocPage(s, ty)
               last == Last(Chain(s.mem, Root[ty]))
           IN  /\ t \in Store(n2) /\ t.disk = a.s.disk
               /\ last \in ToSet(Chain(s.mem, Root[ty]))
               /\ last # a.id => /\ t.mem[last] = LinkedTo(a.s.mem[last], a.id)
                                 /\ t.mem[a.id] = Insert(Alloc(ty), row)
               /\ \A q \in 0 .. n2 - 1 : q # last /\ q # a.id => t.mem[q] = a.s.mem[q]
  <1> DEFINE t == ChainInsert(s, ty, row)
             a == AllocPage(s, ty)
             last == Last(Chain(s.mem, Root[ty]))
  <1>1. s.mem \in Heap(n) /\ Root[ty] \in (0 .. n - 1) \ {0}
    BY RootFacts DEF Store, ROOT_PAGES
  <1>2. last \in ToSet(Chain(s.mem, Root[ty])) /\ last \in (0 .. n - 1) \ {0}
    BY <1>1, ChainPages
  <1>3. t = [[a.s EXCEPT !.mem[last].next = a.id] EXCEPT !.mem[a.id] = Insert(@, row)]
    BY DEF ChainInsert
  <1>4. /\ a.s \in Store(n2) /\ a.id \in ROOT_PAGES .. n2 - 1 /\ a.s.mem[a.id] = Alloc(ty)
        /\ a.id \in 0 .. n2 - 1 /\ a.id \in Links(n2) /\ last \in 0 .. n2 - 1
    BY <1>2 DEF Links, ROOT_PAGES
  <1> HIDE DEF a, last, t
  <1> DEFINE m == a.s.mem
             d == a.s.disk
             page1 == [m[last] EXCEPT !.next = a.id]
             m1 == [m EXCEPT ![last] = page1]
             page2 == Insert(m1[a.id], row)
             m2 == [m1 EXCEPT ![a.id] = page2]
  <1>5. m \in Heap(n2) /\ d \in Heap(n2) /\ a.s = [mem |-> m, disk |-> d]
    BY <1>4 DEF Store
  <1>6. t = [mem |-> m2, disk |-> d]
    <2>1. [a.s EXCEPT !.mem[last].next = a.id] = [mem |-> m1, disk |-> d]
      BY <1>5
    <2> HIDE DEF m1, d
    <2> QED BY <1>3, <2>1
  <1>8. n2 \in Nat /\ n2 >= ROOT_PAGES
    BY DEF ROOT_PAGES
  <1>7. page1 \in PageSet(n2)
    <2>1. m[last] \in PageSet(n2)
      BY <1>4, <1>5, <1>8, HeapLinked
    <2> HIDE DEF m
    <2> QED BY <1>4, <2>1 DEF PageSet
  <1> HIDE DEF page1, m
  <1>9. /\ m1 \in Heap(n2) /\ m1[last] = page1
        /\ \A q \in (0 .. n2 - 1) \ {last} : m1[q] = m[q]
    BY <1>4, <1>5, <1>7, <1>8, PageChange
  <1> HIDE DEF m1
  <1>10. m1[a.id] \in PageSet(n2) /\ HasRoom(m1[a.id])
    <2>1. m1[a.id] \in PageSet(n2)
      BY <1>4, <1>8, <1>9, HeapLinked
    <2>2. m1[a.id].rows = <<>>
      <3>1. m[a.id].rows = <<>>
        BY <1>4 DEF m, Alloc
      <3>2. CASE a.id = last
        <4>1. m[last] \in PageSet(n2)
          BY <1>4, <1>5, <1>8, HeapLinked
        <4>2. page1.rows = m[last].rows
          BY <4>1 DEF page1, PageSet
        <4> QED BY <1>9, <3>1, <3>2, <4>2
      <3>3. CASE a.id # last
        BY <1>4, <1>9, <3>1, <3>3
      <3> QED BY <3>2, <3>3
    <2> QED BY <2>1, <2>2, PagesAssumption DEF HasRoom
  <1>11. page2 \in PageSet(n2)
    BY <1>8, <1>10, InsertTyped
  <1> HIDE DEF page2
  <1>12. /\ m2 \in Heap(n2) /\ m2[a.id] = page2
         /\ \A q \in (0 .. n2 - 1) \ {a.id} : m2[q] = m1[q]
    BY <1>4, <1>8, <1>9, <1>11, PageChange
  <1> HIDE DEF m2
  <1>13. t \in Store(n2) /\ t.disk = a.s.disk /\ t.mem = m2
    BY <1>5, <1>6, <1>12 DEF Store, d
  <1>14. ASSUME last # a.id
         PROVE  /\ t.mem[last] = LinkedTo(a.s.mem[last], a.id)
                /\ t.mem[a.id] = Insert(Alloc(ty), row)
    <2>1. t.mem[last] = page1
      BY <1>4, <1>9, <1>12, <1>13, <1>14
    <2>2. m1[a.id] = Alloc(ty)
      BY <1>4, <1>9, <1>14 DEF m
    <2> QED BY <1>12, <1>13, <2>1, <2>2 DEF page1, page2, m, LinkedTo
  <1>15. \A q \in 0 .. n2 - 1 : q # last /\ q # a.id => t.mem[q] = a.s.mem[q]
    BY <1>9, <1>12, <1>13 DEF m
  <1> QED BY <1>2, <1>13, <1>14, <1>15 DEF t, a, last

\* Whatever it does, it leaves the hot page alone.
LEMMA InsertStore ==
    ASSUME NEW n \in Nat, n >= ROOT_PAGES, NEW s \in Store(n),
           NEW ty \in Domain \ {"hot"}, NEW row \in Row
    PROVE  \E n2 \in {n, n + 1} :
              /\ ChainInsert(s, ty, row) \in Store(n2)
              /\ ChainInsert(s, ty, row).mem[1] = s.mem[1]
              /\ ChainInsert(s, ty, row).disk[1] = s.disk[1]
  <1> DEFINE t == ChainInsert(s, ty, row)
             a == AllocPage(s, ty)
             S == ToSet(Chain(s.mem, Root[ty]))
  <1>0. ty \in Domain
    OBVIOUS
  <1>1. s.mem \in Heap(n) /\ Root[ty] \in (0 .. n - 1) \ {0, 1}
    BY RootFacts DEF Store, ROOT_PAGES
  <1>2. 1 \notin S /\ 1 \in 0 .. n - 1
    BY <1>1, ChainPages DEF ROOT_PAGES
  <1>3. CASE Roomy(s.mem, Chain(s.mem, Root[ty])) # {}
    BY <1>2, <1>3, InsertInRoom
  <1>4. ASSUME Roomy(s.mem, Chain(s.mem, Root[ty])) = {}, NEW n2 \in {n, n + 1},
               a.s \in Store(n2), a.id \in ROOT_PAGES .. n2 - 1,
               a.s.mem[a.id] = Alloc(ty), a.s.mem[1] = s.mem[1], a.s.disk[1] = s.disk[1]
        PROVE  /\ t \in Store(n2) /\ t.mem[1] = s.mem[1] /\ t.disk[1] = s.disk[1]
    <2>1. /\ t \in Store(n2) /\ t.disk = a.s.disk
          /\ Last(Chain(s.mem, Root[ty])) \in S
          /\ \A q \in 0 .. n2 - 1 :
                q # Last(Chain(s.mem, Root[ty])) /\ q # a.id => t.mem[q] = a.s.mem[q]
      BY <1>0, <1>4, InsertLinks
    <2>2. /\ 1 \in 0 .. n2 - 1 /\ 1 # Last(Chain(s.mem, Root[ty])) /\ 1 # a.id
      BY <1>2, <1>4, <2>1 DEF ROOT_PAGES
    <2> QED BY <1>4, <2>1, <2>2
  <1>5. CASE Roomy(s.mem, Chain(s.mem, Root[ty])) = {} /\ FreelistHead(s) = 0
    <2>1. /\ a.id = n /\ a.s \in Store(n + 1) /\ a.s.mem[n] = Alloc(ty)
          /\ a.s.mem[1] = s.mem[1] /\ a.s.disk[1] = s.disk[1]
      BY <1>2, <1>5, AllocFresh
    <2>2. n \in ROOT_PAGES .. (n + 1) - 1
      BY DEF ROOT_PAGES
    <2> HIDE DEF a, t
    <2> QED BY <1>4, <1>5, <2>1, <2>2 DEF t
  <1>6. CASE Roomy(s.mem, Chain(s.mem, Root[ty])) = {} /\ FreelistHead(s) # 0
    <2>1. /\ a.id \in ROOT_PAGES .. n - 1 /\ a.s \in Store(n) /\ a.s.mem[a.id] = Alloc(ty)
          /\ a.s.disk = s.disk
          /\ \A p \in 0 .. n - 1 : p # 0 /\ p # a.id => a.s.mem[p] = s.mem[p]
      BY <1>0, <1>6, AllocFreed
    <2>2. a.s.mem[1] = s.mem[1]
      BY <1>2, <2>1 DEF ROOT_PAGES
    <2> HIDE DEF a, t
    <2> QED BY <1>4, <1>6, <2>1, <2>2 DEF t
  <1> QED BY <1>3, <1>5, <1>6
\* Rows after a row has replaced those of its key, and perhaps all others
Replaced(before, after, row) ==
    \A x \in ToSet(after) : x = row \/ (x \in ToSet(before) /\ x.key # row.key)

\* The hot page after write_hot_local: the new tuple is on it, those of its key are
\* not, and of the others none is new.
LEMMA WriteHotFacts ==
    ASSUME NEW n \in Nat, n >= ROOT_PAGES, NEW s \in Store(n), NEW row \in HotRow,
           s.mem[1].rows \in Seq(HotRow)
    PROVE  LET t == WriteHot(s, row)
           IN  /\ t \in Store(n) /\ t.disk = s.disk
               /\ \A p \in 0 .. n - 1 : p # 1 => t.mem[p] = s.mem[p]
               /\ t.mem[1].rows \in Seq(HotRow) /\ row \in ToSet(t.mem[1].rows)
               /\ Replaced(s.mem[1].rows, t.mem[1].rows, row)
  <1> DEFINE old == s.mem[1].rows
             kept == Others(old, "key", row.key)
             rows == IF Len(kept) < PageCap THEN Append(kept, row) ELSE <<row>>
             t == WriteHot(s, row)
  <1>1. s = [mem |-> s.mem, disk |-> s.disk] /\ s.mem \in Heap(n) /\ 1 \in 0 .. n - 1
    BY DEF Store, ROOT_PAGES
  <1>2. t = [mem |-> [s.mem EXCEPT ![1] = HotPage(rows)], disk |-> s.disk]
    BY <1>1, RootFacts DEF WriteHot
  <1>3. /\ kept \in Seq(HotRow) /\ Len(kept) \in Nat
        /\ ToSet(kept) = {r \in ToSet(old) : r.key # row.key}
    BY OthersFacts
  <1> HIDE DEF kept
  <1>4. /\ rows \in Seq(HotRow) /\ Len(rows) <= PageCap /\ row \in ToSet(rows)
        /\ \A r \in ToSet(rows) : r = row \/ r \in ToSet(kept)
    <2>1. CASE Len(kept) < PageCap
      <3>1. rows = Append(kept, row) /\ Len(rows) = Len(kept) + 1
        BY <1>3, <2>1
      <3>2. ToSet(rows) = ToSet(kept) \cup {row}
        BY <1>3, <3>1, ToSetAppend
      <3> QED BY <1>3, <2>1, <3>1, <3>2, PagesAssumption
    <2>2. CASE ~(Len(kept) < PageCap)
      <3>1. rows = <<row>> /\ Len(rows) = 1 /\ rows \in Seq(HotRow)
        BY <2>2
      <3>2. ToSet(rows) = {row}
        BY <3>1 DEF ToSet
      <3> QED BY <3>1, <3>2, PagesAssumption
    <2> QED BY <2>1, <2>2
  <1> HIDE DEF rows
  <1>5. HotPage(rows) \in PageSet(n) /\ HotPage(rows).rows = rows
    <2>1. Alloc("hot") \in PageSet(n)
      BY AllocTyped DEF Domain
    <2>2. rows \in Seq(Row)
      BY <1>4 DEF Row
    <2> QED BY <1>4, <2>1, <2>2 DEF HotPage, PageSet
  <1> DEFINE page == HotPage(rows)
  <1>6. t.mem = [s.mem EXCEPT ![1] = page] /\ t.disk = s.disk /\ t = [mem |-> t.mem, disk |-> t.disk]
    BY <1>2
  <1> HIDE DEF page, t
  <1>7. /\ t.mem \in Heap(n) /\ t.mem[1] = page
        /\ \A q \in (0 .. n - 1) \ {1} : t.mem[q] = s.mem[q]
    BY <1>1, <1>5, <1>6, PageChange DEF page
  <1>8. t \in Store(n)
    BY <1>6, <1>7 DEF Store
  <1>9. t.mem[1].rows = rows
    BY <1>5, <1>7 DEF page
  <1> QED BY <1>3, <1>4, <1>6, <1>7, <1>8, <1>9 DEF t, Replaced

LEMMA DeleteHotFacts ==
    ASSUME NEW n \in Nat, n >= ROOT_PAGES, NEW s \in Store(n), NEW key,
           s.mem[1].rows \in Seq(HotRow)
    PROVE  LET t == DeleteHot(s, key)
           IN  /\ t \in Store(n) /\ t.disk = s.disk
               /\ \A p \in 0 .. n - 1 : p # 1 => t.mem[p] = s.mem[p]
               /\ t.mem[1].rows \in Seq(HotRow)
               /\ \A r : r \in ToSet(t.mem[1].rows)
                            <=> r \in ToSet(s.mem[1].rows) /\ r.key # key
  <1> DEFINE old == s.mem[1].rows
             rows == Others(old, "key", key)
             t == DeleteHot(s, key)
  <1>1. s = [mem |-> s.mem, disk |-> s.disk] /\ s.mem \in Heap(n) /\ 1 \in 0 .. n - 1
    BY DEF Store, ROOT_PAGES
  <1>2. t = [mem |-> [s.mem EXCEPT ![1] = HotPage(rows)], disk |-> s.disk]
    BY <1>1, RootFacts DEF DeleteHot
  <1>3. /\ rows \in Seq(HotRow) /\ Len(rows) <= Len(old)
        /\ ToSet(rows) = {r \in ToSet(old) : r.key # key}
    BY OthersFacts
  <1> HIDE DEF rows
  <1>4. Len(rows) <= PageCap
    <2>1. s.mem[1] \in PageSet(n)
      BY <1>1, HeapLinked
    <2>2. Len(old) <= PageCap /\ Len(old) \in Nat /\ Len(rows) \in Nat
      BY <1>3, <2>1 DEF PageSet
    <2> QED BY <1>3, <2>2, PagesAssumption
  <1>5. HotPage(rows) \in PageSet(n) /\ HotPage(rows).rows = rows
    <2>1. Alloc("hot") \in PageSet(n)
      BY AllocTyped DEF Domain
    <2>2. rows \in Seq(Row)
      BY <1>3 DEF Row
    <2> QED BY <1>4, <2>1, <2>2 DEF HotPage, PageSet
  <1> DEFINE page == HotPage(rows)
  <1>6. t.mem = [s.mem EXCEPT ![1] = page] /\ t.disk = s.disk /\ t = [mem |-> t.mem, disk |-> t.disk]
    BY <1>2
  <1> HIDE DEF page, t
  <1>7. /\ t.mem \in Heap(n) /\ t.mem[1] = page
        /\ \A q \in (0 .. n - 1) \ {1} : t.mem[q] = s.mem[q]
    BY <1>1, <1>5, <1>6, PageChange DEF page
  <1>8. t \in Store(n)
    BY <1>6, <1>7 DEF Store
  <1>9. t.mem[1].rows = rows
    BY <1>5, <1>7 DEF page
  <1> QED BY <1>3, <1>6, <1>7, <1>8, <1>9 DEF t

\* remove_impulse_local leaves the links and every page that is not on the chain.
LEMMA RemoveJobFacts ==
    ASSUME NEW n \in Nat, n >= ROOT_PAGES, NEW s \in Store(n), NEW id
    PROVE  LET t == RemoveJob(s, id)
               chain == ToSet(Chain(s.mem, 2))
           IN  /\ t \in Store(n) /\ t.disk = s.disk
               /\ \A p \in 0 .. n - 1 : p \notin chain => t.mem[p] = s.mem[p]
               /\ \A p \in chain : /\ t.mem[p].ty = "impulse"
                                   /\ t.mem[p].next = s.mem[p].next
                                   /\ t.mem[p].rows = Others(s.mem[p].rows, "id", id)
  <1> DEFINE t == RemoveJob(s, id)
             chain == ToSet(Chain(s.mem, 2))
             Rewritten(page) == [Alloc("impulse") EXCEPT !.next = page.next,
                                                         !.rows = Others(page.rows, "id", id)]
             m == [p \in DOMAIN s.mem |-> IF p \in chain THEN Rewritten(s.mem[p]) ELSE s.mem[p]]
  <1>1. s = [mem |-> s.mem, disk |-> s.disk] /\ s.mem \in Heap(n) /\ DOMAIN s.mem = 0 .. n - 1
    BY DEF Store, Heap
  <1>2. Root.impulse = 2
    BY DEF Root
  <1>3. t = [s EXCEPT !.mem = m]
    BY <1>2 DEF RemoveJob
  <1>4. t = [mem |-> m, disk |-> s.disk]
    <2> HIDE DEF m, t
    <2> QED BY <1>1, <1>3
  <1>5. chain \subseteq 0 .. n - 1
    <2>1. 2 \in (0 .. n - 1) \ {0}
      BY DEF ROOT_PAGES
    <2> QED BY <1>1, <2>1, ChainPages
  <1> HIDE DEF chain
  <1>6. ASSUME NEW p \in 0 .. n - 1
        PROVE  /\ m[p] \in PageSet(n)
               /\ p \notin chain => m[p] = s.mem[p]
               /\ p \in chain => /\ m[p].ty = "impulse" /\ m[p].next = s.mem[p].next
                                 /\ m[p].rows = Others(s.mem[p].rows, "id", id)
    <2>1. s.mem[p] \in PageSet(n)
      BY <1>1, HeapLinked
    <2>2. CASE p \notin chain
      BY <1>1, <2>1, <2>2
    <2>3. CASE p \in chain
      <3> DEFINE page == s.mem[p]
                 rows == Others(page.rows, "id", id)
      <3>1. m[p] = Rewritten(page)
        BY <1>1, <2>3
      <3>2. page.rows \in Seq(Row) /\ Len(page.rows) <= PageCap /\ page.next \in Links(n)
        BY <2>1 DEF PageSet
      <3>3. rows \in Seq(Row) /\ Len(rows) <= Len(page.rows)
        BY <3>2, OthersFacts
      <3> HIDE DEF page
      <3>4. rows \in Seq(Row) /\ Len(rows) <= PageCap
        <4>1. Len(rows) \in Nat /\ Len(page.rows) \in Nat
          BY <3>2, <3>3
        <4> HIDE DEF rows
        <4> QED BY <3>2, <3>3, <4>1, PagesAssumption
      <3>5. Alloc("impulse") \in PageSet(n)
        BY AllocTyped DEF Domain
      <3> HIDE DEF rows
      <3> DEFINE page2 == [Alloc("impulse") EXCEPT !.next = page.next, !.rows = rows]
      <3>6. /\ page2 \in PageSet(n) /\ page2.next = page.next /\ page2.rows = rows
            /\ page2.ty = "impulse"
        BY <3>2, <3>4, <3>5 DEF Alloc, PageSet
      <3>7. m[p] = page2
        BY <3>1 DEF rows, page
      <3> HIDE DEF page2, m
      <3> QED BY <2>3, <3>6, <3>7 DEF rows, page
    <2> QED BY <2>2, <2>3
  <1>7. m \in Heap(n)
    <2>1. m = [p \in 0 .. n - 1 |-> m[p]]
      BY <1>1
    <2> HIDE DEF m
    <2> QED BY <1>6, <2>1 DEF Heap
  <1>8. t.mem = m /\ t.disk = s.disk /\ t \in Store(n)
    <2> HIDE DEF m
    <2> QED BY <1>1, <1>4, <1>7 DEF Store
  <1> HIDE DEF m, t
  <1>9. /\ \A p \in 0 .. n - 1 : p \notin chain => t.mem[p] = s.mem[p]
        /\ \A p \in chain : /\ t.mem[p].ty = "impulse"
                            /\ t.mem[p].next = s.mem[p].next
                            /\ t.mem[p].rows = Others(s.mem[p].rows, "id", id)
    BY <1>5, <1>6, <1>8
  <1> QED BY <1>8, <1>9 DEF t, chain

-----------------------------------------------------------------------------
(* apply_wal. *)

\* What a record does to the rows of the hot page
HotApplied(r, before, after) ==
    /\ r.op = "SetHot" =>
          /\ \E k \in DOMAIN after : after[k] = r.row
          /\ Replaced(before, after, r.row)
    /\ r.op = "DelHot" =>
          \A x : x \in ToSet(after) <=> x \in ToSet(before) /\ x.key # r.row.key
    /\ r.op \notin {"SetHot", "DelHot"} => after = before

LEMMA LoggedFacts ==
    ASSUME NEW r \in Logged
    PROVE  /\ r.op = "SetHot" => r.row \in HotRow
           /\ r.op = "DelHot" => r.row \in [key : HotKeys]
           /\ r.op = "EnqueueImpulse" => r.row \in JobRow
           /\ r.op = "AckImpulse" => r.row \in [id : JobIds]
           /\ r.op = "UpsertBond" => r.row \in BondRow
           /\ r.op = "UpsertRecall" => r.row \in RecallRow
           /\ r.op \in {"SetHot", "DelHot", "EnqueueImpulse", "AckImpulse", "UpsertBond",
                        "UpsertRecall"}
  BY DEF Logged

LEMMA ApplyStore ==
    ASSUME NEW s, NEW rs, NEW r \in Logged
    PROVE  Apply([s |-> s, recalls |-> rs], r).s =
              CASE r.op = "SetHot" -> WriteHot(s, r.row)
                [] r.op = "DelHot" -> DeleteHot(s, r.row.key)
                [] r.op = "EnqueueImpulse" -> ChainInsert(s, "impulse", r.row)
                [] r.op = "AckImpulse" -> RemoveJob(s, r.row.id)
                [] r.op = "UpsertBond" -> ChainInsert(s, "bond", r.row)
                [] r.op = "UpsertRecall" -> ChainInsert(s, "recall", r.row)
  <1> DEFINE e == [s |-> s, recalls |-> rs]
  <1>1. /\ [e EXCEPT !.s = WriteHot(@, r.row)].s = WriteHot(s, r.row)
        /\ [e EXCEPT !.s = DeleteHot(@, r.row.key)].s = DeleteHot(s, r.row.key)
        /\ [e EXCEPT !.s = ChainInsert(@, "impulse", r.row)].s = ChainInsert(s, "impulse", r.row)
        /\ [e EXCEPT !.s = RemoveJob(@, r.row.id)].s = RemoveJob(s, r.row.id)
        /\ [e EXCEPT !.s = ChainInsert(@, "bond", r.row)].s = ChainInsert(s, "bond", r.row)
        /\ [e EXCEPT !.s = ChainInsert(@, "recall", r.row),
                     !.recalls = Remember(@, r.row)].s = ChainInsert(s, "recall", r.row)
    OBVIOUS
  <1>2. r.op \in {"SetHot", "DelHot", "EnqueueImpulse", "AckImpulse", "UpsertBond", "UpsertRecall"}
    BY LoggedFacts
  <1> HIDE DEF e
  <1>3. Apply(e, r).s =
              CASE r.op = "SetHot" -> WriteHot(s, r.row)
                [] r.op = "DelHot" -> DeleteHot(s, r.row.key)
                [] r.op = "EnqueueImpulse" -> ChainInsert(s, "impulse", r.row)
                [] r.op = "AckImpulse" -> RemoveJob(s, r.row.id)
                [] r.op = "UpsertBond" -> ChainInsert(s, "bond", r.row)
                [] r.op = "UpsertRecall" -> ChainInsert(s, "recall", r.row)
    BY <1>1, <1>2 DEF Apply, e
  <1> QED BY <1>3 DEF e

LEMMA ApplyFacts ==
    ASSUME NEW n \in Nat, n >= ROOT_PAGES, NEW s \in Store(n), NEW rs, NEW r \in Logged,
           s.mem[1].rows \in Seq(HotRow)
    PROVE  LET t == Apply([s |-> s, recalls |-> rs], r).s
           IN  \E n2 \in {n, n + 1} :
                  /\ t \in Store(n2) /\ t.disk[1] = s.disk[1]
                  /\ t.mem[1].rows \in Seq(HotRow)
                  /\ HotApplied(r, s.mem[1].rows, t.mem[1].rows)
  <1> DEFINE t == Apply([s |-> s, recalls |-> rs], r).s
             Goal(u) == \E n2 \in {n, n + 1} :
                           /\ u \in Store(n2) /\ u.disk[1] = s.disk[1]
                           /\ u.mem[1].rows \in Seq(HotRow)
                           /\ HotApplied(r, s.mem[1].rows, u.mem[1].rows)
  <1>1. CASE r.op = "SetHot"
    <2>1. t = WriteHot(s, r.row)
      BY <1>1, ApplyStore
    <2> DEFINE u == WriteHot(s, r.row)
    <2>2. r.row \in HotRow
      BY <1>1, LoggedFacts
    <2>3. /\ u \in Store(n) /\ u.disk = s.disk
          /\ u.mem[1].rows \in Seq(HotRow) /\ r.row \in ToSet(u.mem[1].rows)
          /\ Replaced(s.mem[1].rows, u.mem[1].rows, r.row)
      BY <2>2, WriteHotFacts
    <2> HIDE DEF u
    <2>4. HotApplied(r, s.mem[1].rows, u.mem[1].rows)
      BY <1>1, <2>3 DEF HotApplied, ToSet
    <2> QED BY <2>1, <2>3, <2>4 DEF u
  <1>2. CASE r.op = "DelHot"
    <2>1. t = DeleteHot(s, r.row.key)
      BY <1>2, ApplyStore
    <2> DEFINE u == DeleteHot(s, r.row.key)
    <2>3. /\ u \in Store(n) /\ u.disk = s.disk
          /\ u.mem[1].rows \in Seq(HotRow)
          /\ \A x : x \in ToSet(u.mem[1].rows)
                       <=> x \in ToSet(s.mem[1].rows) /\ x.key # r.row.key
      BY DeleteHotFacts
    <2> HIDE DEF u
    <2>4. HotApplied(r, s.mem[1].rows, u.mem[1].rows)
      BY <1>2, <2>3 DEF HotApplied
    <2> QED BY <2>1, <2>3, <2>4 DEF u
  <1>3. ASSUME NEW ty \in Domain \ {"hot"}, r.row \in Row, t = ChainInsert(s, ty, r.row),
               r.op \notin {"SetHot", "DelHot"}
        PROVE  Goal(t)
    <2>1. PICK n2 \in {n, n + 1} :
              /\ ChainInsert(s, ty, r.row) \in Store(n2)
              /\ ChainInsert(s, ty, r.row).mem[1] = s.mem[1]
              /\ ChainInsert(s, ty, r.row).disk[1] = s.disk[1]
      BY <1>3, InsertStore
    <2> HIDE DEF t
    <2>2. HotApplied(r, s.mem[1].rows, t.mem[1].rows)
      BY <1>3, <2>1 DEF HotApplied
    <2> QED BY <1>3, <2>1, <2>2
  <1>4. CASE r.op = "EnqueueImpulse"
    <2>1. t = ChainInsert(s, "impulse", r.row) /\ r.row \in Row /\ "impulse" \in Domain \ {"hot"}
      BY <1>4, ApplyStore, LoggedFacts DEF Row, Domain
    <2> HIDE DEF t
    <2> QED BY <1>3, <1>4, <2>1 DEF t
  <1>5. CASE r.op = "UpsertBond"
    <2>1. t = ChainInsert(s, "bond", r.row) /\ r.row \in Row /\ "bond" \in Domain \ {"hot"}
      BY <1>5, ApplyStore, LoggedFacts DEF Row, Domain
    <2> HIDE DEF t
    <2> QED BY <1>3, <1>5, <2>1 DEF t
  <1>6. CASE r.op = "UpsertRecall"
    <2>1. t = ChainInsert(s, "recall", r.row) /\ r.row \in Row /\ "recall" \in Domain \ {"hot"}
      BY <1>6, ApplyStore, LoggedFacts DEF Row, Domain
    <2> HIDE DEF t
    <2> QED BY <1>3, <1>6, <2>1 DEF t
  <1>7. CASE r.op = "AckImpulse"
    <2> DEFINE u == RemoveJob(s, r.row.id)
    <2>1. t = u
      BY <1>7, ApplyStore
    <2>2. /\ u \in Store(n) /\ u.disk = s.disk
          /\ \A p \in 0 .. n - 1 : p \notin ToSet(Chain(s.mem, 2)) => u.mem[p] = s.mem[p]
      BY RemoveJobFacts
    <2>3. 1 \in 0 .. n - 1 /\ 1 \notin ToSet(Chain(s.mem, 2))
      <3>1. s.mem \in Heap(n) /\ 2 \in (0 .. n - 1) \ {0}
        BY DEF Store, ROOT_PAGES
      <3> QED BY <3>1, ChainPages DEF ROOT_PAGES
    <2> HIDE DEF u, t
    <2>4. HotApplied(r, s.mem[1].rows, t.mem[1].rows)
      BY <1>7, <2>1, <2>2, <2>3 DEF HotApplied
    <2> QED BY <2>1, <2>2, <2>3, <2>4 DEF t
  <1>8. r.op \in {"SetHot", "DelHot", "EnqueueImpulse", "AckImpulse", "UpsertBond", "UpsertRecall"}
    BY LoggedFacts
  <1> QED BY <1>1, <1>2, <1>4, <1>5, <1>6, <1>7, <1>8

-----------------------------------------------------------------------------
(* What every reachable state is like. *)

HeapsTyped ==
    \E n \in Nat :
        /\ n >= ROOT_PAGES /\ disk \in Heap(n)
        /\ IF phase = "closed" THEN mem = <<>> ELSE mem \in Heap(n)

HotTyped ==
    /\ disk[1].rows \in Seq(HotRow)
    /\ phase # "closed" => mem[1].rows \in Seq(HotRow)

Partial(K, R) == UNION {[D -> R] : D \in SUBSET K}
SaidTyped ==
    said \in [hot : Partial(HotKeys, HotRow), lastHot : SUBSET HotKeys, jobs : SUBSET JobRow,
              bonds : Partial(BondKeys, BondRow), recalls : Partial(RecallKeys, RecallRow)]

\* persist_meta covers the whole log, and only replay counts records.
LogTyped ==
    /\ wal \in Seq(Logged)
    /\ covered \in 0 .. Len(wal) /\ replayed \in 0 .. Len(wal)
    /\ phase = "persisted" => covered = Len(wal)
    /\ phase # "replay" => replayed = 0

RestTyped ==
    /\ phase \in {"closed", "replay", "open", "persisted"} /\ closing \in BOOLEAN
    /\ now \in 1 .. MaxNow /\ calls \in Nat /\ crashes \in Nat /\ setup \in Setups

Typed == HeapsTyped /\ HotTyped /\ SaidTyped /\ LogTyped /\ RestTyped

\* A call, whatever it logs
Logs(r) ==
    /\ phase = "open" /\ Returns(mem, r)
    /\ r.op \in {"EnqueueImpulse", "UpsertBond"} => r.row.v = Value
    /\ wal' = Append(wal, r)
    /\ Becomes(Apply(E, r))
    /\ said' = Said(r)
    /\ calls' = calls + 1
    /\ UNCHANGED <<covered, phase, replayed, closing, now, setup, flushes, ckpts, crashes>>

LEMMA CallLogs ==
    ASSUME RestTyped, NEW domain, NEW op, NEW row, Call(domain, op, row),
           [op |-> op, row |-> row] \in Logged,
           op \in {"EnqueueImpulse", "UpsertBond"} => row.v = Value
    PROVE  \E r \in Logged : Logs(r)
  BY DEF Call, Logs

LEMMA EveryStep ==
    ASSUME RestTyped, [Next]_vars
    PROVE  \/ \E r \in Logged : Logs(r)
           \/ Tick \/ Open \/ Replay \/ Opened
           \/ \E id \in DOMAIN mem : Evict(id)
           \/ CkptPersist \/ CkptRotate \/ CloseSkipped \/ Crash
           \/ UNCHANGED vars
  <1>1. /\ Value \in Nat \ {0} /\ now \in Nat /\ Times \subseteq Nat /\ Ttls \subseteq Nat
        /\ \A ttl \in Ttls : Expiry(ttl) \in Nat
    <2>1. MaxNow \in Nat /\ Ttls \subseteq Nat /\ Times \subseteq Nat
      BY DomainsAssumption
    <2>2. now \in Nat /\ calls \in Nat
      BY <2>1 DEF RestTyped
    <2> QED BY <2>1, <2>2 DEF Value, Expiry
  <1>2. ASSUME NEW key \in HotKeys, NEW ttl \in Ttls, HotSet(key, ttl)
        PROVE  \E r \in Logged : Logs(r)
    <2>1. [op |-> "SetHot", row |-> [key |-> key, v |-> Value, exp |-> Expiry(ttl)]] \in Logged
      BY <1>1 DEF Logged, HotRow
    <2> QED BY <1>2, <2>1, CallLogs DEF HotSet
  <1>3. ASSUME NEW key \in HotKeys, HotDel(key)
        PROVE  \E r \in Logged : Logs(r)
    <2>1. [op |-> "DelHot", row |-> [key |-> key]] \in Logged
      BY DEF Logged
    <2> QED BY <1>3, <2>1, CallLogs DEF HotDel
  <1>4. ASSUME NEW id \in JobIds, NEW at \in Times, ImpulseSchedule(id, at)
        PROVE  \E r \in Logged : Logs(r)
    <2>1. [op |-> "EnqueueImpulse", row |-> [id |-> id, at |-> at, v |-> Value]] \in Logged
      BY <1>1 DEF Logged, JobRow
    <2> QED BY <1>4, <2>1, CallLogs DEF ImpulseSchedule
  <1>5. ASSUME NEW id \in JobIds, ImpulseAck(id)
        PROVE  \E r \in Logged : Logs(r)
    <2>1. [op |-> "AckImpulse", row |-> [id |-> id]] \in Logged
      BY DEF Logged
    <2> QED BY <1>5, <2>1, CallLogs DEF ImpulseAck
  <1>6. ASSUME NEW key \in BondKeys, BondUpsert(key)
        PROVE  \E r \in Logged : Logs(r)
    <2>1. [op |-> "UpsertBond", row |-> [key |-> key, v |-> Value]] \in Logged
      BY <1>1 DEF Logged, BondRow
    <2> QED BY <1>6, <2>1, CallLogs DEF BondUpsert
  <1>7. ASSUME NEW key \in RecallKeys, RecallUpsert(key)
        PROVE  \E r \in Logged : Logs(r)
    <2>1. [op |-> "UpsertRecall", row |-> [key |-> key, v |-> Value]] \in Logged
      BY <1>1 DEF Logged, RecallRow
    <2> QED BY <1>7, <2>1, CallLogs DEF RecallUpsert
  <1> QED BY <1>2, <1>3, <1>4, <1>5, <1>6, <1>7 DEF Next

\* Appending to the log
LEMMA LogGrows ==
    ASSUME NEW w \in Seq(Logged), NEW r \in Logged
    PROVE  /\ Append(w, r) \in Seq(Logged) /\ Len(w) \in Nat
           /\ Len(Append(w, r)) = Len(w) + 1
           /\ \A i \in 1 .. Len(w) : Append(w, r)[i] = w[i]
           /\ Append(w, r)[Len(w) + 1] = r
  OBVIOUS

\* One record applied to a typed store
LEMMA BecomesTyped ==
    ASSUME NEW n \in Nat, n >= ROOT_PAGES, disk \in Heap(n), mem \in Heap(n),
           mem[1].rows \in Seq(HotRow), disk[1].rows \in Seq(HotRow),
           NEW r \in Logged, Becomes(Apply(E, r))
    PROVE  /\ \E n2 \in {n, n + 1} : disk' \in Heap(n2) /\ mem' \in Heap(n2)
           /\ disk'[1] = disk[1]
           /\ mem'[1].rows \in Seq(HotRow)
           /\ HotApplied(r, mem[1].rows, mem'[1].rows)
  <1> DEFINE s == [mem |-> mem, disk |-> disk]
             t == Apply([s |-> s, recalls |-> recalls], r).s
  <1>1. s \in Store(n) /\ s.mem = mem /\ s.disk = disk
    BY DEF Store
  <1>2. mem' = t.mem /\ disk' = t.disk
    BY DEF Becomes, E
  <1> HIDE DEF s
  <1>3. PICK n2 \in {n, n + 1} :
           /\ t \in Store(n2) /\ t.disk[1] = s.disk[1]
           /\ t.mem[1].rows \in Seq(HotRow)
           /\ HotApplied(r, s.mem[1].rows, t.mem[1].rows)
    BY <1>1, ApplyFacts
  <1> HIDE DEF t
  <1>4. t.mem \in Heap(n2) /\ t.disk \in Heap(n2)
    BY <1>3 DEF Store
  <1> QED BY <1>1, <1>2, <1>3, <1>4

LEMMA InitHeap ==
    ASSUME NEW set \in Setups
    PROVE  LET n == ROOT_PAGES + Len(set.free)
           IN  /\ n \in Nat /\ n >= ROOT_PAGES /\ HeapWith(set.free) \in Heap(n)
               /\ \A p \in 0 .. n - 1 : HeapWith(set.free)[p].rows = <<>>
               /\ set.free = <<>> => HeapWith(set.free)[0].at32 = 0
               /\ \A d \in Domain : /\ HeapWith(set.free)[Root[d]].ty = d
                                    /\ HeapWith(set.free)[Root[d]].next = 0
  <1> DEFINE free == set.free
             n == ROOT_PAGES + Len(free)
             heap == HeapWith(free)
             first == IF free = <<>> THEN 0 ELSE Head(free)
             At(id) == CHOOSE j \in DOMAIN free : free[j] = id
             after(k) == IF k = Len(free) THEN 0 ELSE free[k + 1]
  <1>1. free \in Seq(Nat) /\ ToSet(free) = ROOT_PAGES .. ROOT_PAGES + Len(free) - 1
    BY DomainsAssumption
  <1>2. n \in Nat /\ n >= ROOT_PAGES /\ Len(free) \in Nat /\ n - 1 = ROOT_PAGES + Len(free) - 1
    BY <1>1 DEF ROOT_PAGES
  <1>3. \A j \in DOMAIN free : free[j] \in Links(n)
    <2>1. \A j \in DOMAIN free : free[j] \in ToSet(free)
      BY DEF ToSet
    <2>2. ToSet(free) \subseteq Links(n)
      BY <1>1, <1>2 DEF Links
    <2> HIDE DEF free
    <2> QED BY <2>1, <2>2
  <1>4. first \in Links(n)
    <2>1. CASE free = <<>>
      BY <2>1 DEF Links
    <2>2. CASE free # <<>>
      <3>1. 1 \in DOMAIN free /\ Head(free) = free[1]
        BY <1>1, <2>2
      <3> QED BY <1>3, <2>2, <3>1
    <2> QED BY <2>1, <2>2
  <1> HIDE DEF first
  <1>5. ASSUME NEW id \in 0 .. n - 1, id # 0, id \notin Roots
        PROVE  after(At(id)) \in Links(n)
    <2>1. id \in ToSet(free)
      BY <1>1, <1>2, <1>5, RootFacts DEF ROOT_PAGES
    <2>2. \E j \in DOMAIN free : free[j] = id
      BY <2>1 DEF ToSet
    <2>3. At(id) \in DOMAIN free
      BY <2>2
    <2>4. ASSUME NEW k \in DOMAIN free
          PROVE  after(k) \in Links(n)
      <3>1. CASE k = Len(free)
        BY <3>1 DEF Links
      <3>2. CASE k # Len(free)
        <4>1. k + 1 \in DOMAIN free
          BY <1>1, <3>2
        <4> QED BY <1>3, <3>2, <4>1
      <3> QED BY <3>1, <3>2
    <2> HIDE DEF after, At
    <2> QED BY <2>3, <2>4
  <1> HIDE DEF At, after
  <1> DEFINE Page(id) ==
          IF id = 0 THEN [Alloc("super") EXCEPT !.at32 = first]
          ELSE IF id \in Roots THEN Alloc(CHOOSE d \in Domain : Root[d] = id)
          ELSE [Alloc("free") EXCEPT !.next = after(At(id))]
  <1>6. heap = [id \in 0 .. n - 1 |-> Page(id)]
    <2>1. 0 .. ROOT_PAGES + Len(free) - 1 = 0 .. n - 1
      BY <1>2
    <2> QED BY <2>1 DEF HeapWith, Super, At, after, first
  <1>7. ASSUME NEW id \in 0 .. n - 1
        PROVE  Page(id) \in PageSet(n) /\ Page(id).rows = <<>>
    <2>1. CASE id = 0
      <3>1. Alloc("super") \in PageSet(n)
        BY <1>2, AllocTyped
      <3> HIDE DEF n
      <3>2. /\ [Alloc("super") EXCEPT !.at32 = first] \in PageSet(n)
            /\ [Alloc("super") EXCEPT !.at32 = first].rows = <<>>
        BY <1>4, <3>1 DEF Alloc, PageSet
      <3> QED BY <2>1, <3>2
    <2>2. CASE id # 0 /\ id \in Roots
      <3>1. (CHOOSE d \in Domain : Root[d] = id) \in Domain
        BY <2>2 DEF Roots
      <3> DEFINE d == CHOOSE d \in Domain : Root[d] = id
      <3>2. Alloc(d) \in PageSet(n) /\ Alloc(d).rows = <<>>
        BY <1>2, <3>1, AllocTyped DEF Alloc
      <3> QED BY <2>2, <3>2
    <2>3. CASE id # 0 /\ id \notin Roots
      <3> DEFINE x == after(At(id))
      <3>1. Alloc("free") \in PageSet(n)
        BY <1>2, AllocTyped
      <3>2. x \in Links(n)
        BY <1>5, <2>3
      <3> HIDE DEF x, n
      <3>3. /\ [Alloc("free") EXCEPT !.next = x] \in PageSet(n)
            /\ [Alloc("free") EXCEPT !.next = x].rows = <<>>
        BY <3>1, <3>2 DEF Alloc, PageSet
      <3> QED BY <2>3, <3>3 DEF x
    <2> QED BY <2>1, <2>2, <2>3
  <1>8. set.free = <<>> => Page(0).at32 = 0
    BY DEF first, Alloc
  <1>9. ASSUME NEW d \in Domain
        PROVE  Page(Root[d]).ty = d /\ Page(Root[d]).next = 0
    <2>1. Root[d] # 0 /\ Root[d] \in Roots
      BY RootFacts DEF Roots
    <2>2. (CHOOSE e \in Domain : Root[e] = Root[d]) = d
      BY RootFacts
    <2>3. Page(Root[d]) = Alloc(d)
      BY <2>1, <2>2
    <2> QED BY <2>3 DEF Alloc
  <1>10. \A d \in Domain : Root[d] \in 0 .. n - 1
    <2>1. \A k \in 1 .. ROOT_PAGES - 1 : k \in 0 .. n - 1
      BY <1>2 DEF ROOT_PAGES
    <2> QED BY <2>1, RootFacts
  <1>11. 0 \in 0 .. n - 1
    BY <1>2 DEF ROOT_PAGES
  <1> HIDE DEF Page, free, n, heap
  <1>12. heap \in Heap(n)
    BY <1>6, <1>7 DEF Heap
  <1> QED BY <1>2, <1>6, <1>7, <1>8, <1>9, <1>10, <1>11, <1>12 DEF free, n, heap

LEMMA InitTyped == Init => Typed
  <1> SUFFICES ASSUME Init
               PROVE  Typed
    OBVIOUS
  <1> USE DEF Init
  <1>1. setup \in Setups
    OBVIOUS
  <1> DEFINE n == ROOT_PAGES + Len(setup.free)
  <1>2. /\ n \in Nat /\ n >= ROOT_PAGES /\ disk \in Heap(n)
        /\ \A p \in 0 .. n - 1 : disk[p].rows = <<>>
    BY <1>1, InitHeap
  <1> HIDE DEF n
  <1>3. HeapsTyped
    BY <1>2 DEF HeapsTyped
  <1>4. HotTyped
    <2>1. disk[1].rows = <<>> /\ phase = "closed"
      BY <1>2 DEF ROOT_PAGES
    <2> QED BY <2>1 DEF HotTyped
  <1>5. SaidTyped
    <2>1. \A K, R : <<>> \in Partial(K, R)
      <3> SUFFICES ASSUME NEW K, NEW R
                   PROVE  <<>> \in Partial(K, R)
        OBVIOUS
      <3>1. <<>> \in [{} -> R]
        OBVIOUS
      <3> QED BY <3>1 DEF Partial
    <2> DEFINE nil == <<>>
    <2>2. said = [hot |-> nil, lastHot |-> {}, jobs |-> {}, bonds |-> nil, recalls |-> nil]
      OBVIOUS
    <2>3. \A K, R : nil \in Partial(K, R)
      BY <2>1
    <2> HIDE DEF nil
    <2> QED BY <2>2, <2>3 DEF SaidTyped
  <1>6. LogTyped
    BY DEF LogTyped
  <1>7. RestTyped
    <2>1. MaxNow \in Nat /\ MaxNow > 0
      BY DomainsAssumption
    <2>2. now \in 1 .. MaxNow /\ calls \in Nat /\ crashes \in Nat
      BY <2>1
    <2>4. closing \in BOOLEAN
      BY Zenon
    <2>3. phase \in {"closed", "replay", "open", "persisted"}
      OBVIOUS
    <2> HIDE DEF Init
    <2> QED BY <1>1, <2>2, <2>3, <2>4 DEF RestTyped
  <1> QED BY <1>3, <1>4, <1>5, <1>6, <1>7 DEF Typed

\* What a call promises
LEMMA SaidFields ==
    ASSUME SaidTyped, NEW r \in Logged
    PROVE  /\ Said(r) = [hot |-> Said(r).hot, lastHot |-> Said(r).lastHot, jobs |-> Said(r).jobs,
                         bonds |-> Said(r).bonds, recalls |-> Said(r).recalls]
           /\ Said(r).hot =
                 CASE r.op = "SetHot" -> Put(said.hot, r.row.key, r.row)
                   [] r.op = "DelHot" -> [k \in DOMAIN said.hot \ {r.row.key} |-> said.hot[k]]
                   [] OTHER -> said.hot
           /\ Said(r).lastHot =
                 CASE r.op = "SetHot" -> {r.row.key}
                   [] r.op = "DelHot" -> said.lastHot \ {r.row.key}
                   [] OTHER -> said.lastHot
           /\ Said(r).jobs =
                 CASE r.op = "EnqueueImpulse" -> said.jobs \cup {r.row}
                   [] r.op = "AckImpulse" -> {j \in said.jobs : j.id # r.row.id}
                   [] OTHER -> said.jobs
           /\ Said(r).bonds = IF r.op = "UpsertBond" THEN Put(said.bonds, r.row.key, r.row)
                              ELSE said.bonds
           /\ Said(r).recalls = IF r.op = "UpsertRecall" THEN Put(said.recalls, r.row.key, r.row)
                                ELSE said.recalls
  <1> DEFINE h == said.hot
             l == said.lastHot
             j == said.jobs
             b == said.bonds
             c == said.recalls
  <1>1. said = [hot |-> h, lastHot |-> l, jobs |-> j, bonds |-> b, recalls |-> c]
    BY DEF SaidTyped
  <1>2. r.op \in {"SetHot", "DelHot", "EnqueueImpulse", "AckImpulse", "UpsertBond", "UpsertRecall"}
    BY LoggedFacts
  <1> HIDE DEF h, l, j, b, c
  <1>3. CASE r.op = "SetHot"
    <2>1. Said(r) = [hot |-> With(h, r.row), lastHot |-> {r.row.key}, jobs |-> j, bonds |-> b, recalls |-> c]
      BY <1>1, <1>3 DEF Said
    <2> QED BY <1>3, <2>1 DEF With, h, l, j, b, c
  <1>4. CASE r.op = "DelHot"
    <2>1. Said(r) = [hot |-> [k \in DOMAIN h \ {r.row.key} |-> h[k]],
                     lastHot |-> l \ {r.row.key}, jobs |-> j, bonds |-> b, recalls |-> c]
      BY <1>1, <1>4 DEF Said
    <2> QED BY <1>4, <2>1 DEF h, l, j, b, c
  <1>5. CASE r.op = "EnqueueImpulse"
    <2>1. Said(r) = [hot |-> h, lastHot |-> l, jobs |-> j \cup {r.row}, bonds |-> b, recalls |-> c]
      BY <1>1, <1>5 DEF Said
    <2> QED BY <1>5, <2>1 DEF h, l, j, b, c
  <1>6. CASE r.op = "AckImpulse"
    <2>1. Said(r) = [hot |-> h, lastHot |-> l, jobs |-> {x \in j : x.id # r.row.id},
                     bonds |-> b, recalls |-> c]
      BY <1>1, <1>6 DEF Said
    <2> QED BY <1>6, <2>1 DEF h, l, j, b, c
  <1>7. CASE r.op = "UpsertBond"
    <2>1. Said(r) = [hot |-> h, lastHot |-> l, jobs |-> j, bonds |-> With(b, r.row), recalls |-> c]
      BY <1>1, <1>7 DEF Said
    <2> QED BY <1>7, <2>1 DEF With, h, l, j, b, c
  <1>8. CASE r.op = "UpsertRecall"
    <2>1. Said(r) = [hot |-> h, lastHot |-> l, jobs |-> j, bonds |-> b, recalls |-> With(c, r.row)]
      BY <1>1, <1>8 DEF Said
    <2> QED BY <1>8, <2>1 DEF With, h, l, j, b, c
  <1> QED BY <1>2, <1>3, <1>4, <1>5, <1>6, <1>7, <1>8

LEMMA PutTyped ==
    ASSUME NEW K, NEW R, NEW f \in Partial(K, R), NEW k \in K, NEW row \in R
    PROVE  Put(f, k, row) \in Partial(K, R)
  <1>1. PICK D \in SUBSET K : f \in [D -> R]
    BY DEF Partial
  <1>2. Put(f, k, row) \in [D \cup {k} -> R] /\ D \cup {k} \in SUBSET K
    BY <1>1 DEF Put
  <1> QED BY <1>2 DEF Partial

LEMMA SaidIsTyped ==
    ASSUME SaidTyped, NEW r \in Logged, said' = Said(r)
    PROVE  SaidTyped'
  <1> DEFINE t == Said(r)
  <1>1. /\ said.hot \in Partial(HotKeys, HotRow) /\ said.lastHot \in SUBSET HotKeys
        /\ said.jobs \in SUBSET JobRow /\ said.bonds \in Partial(BondKeys, BondRow)
        /\ said.recalls \in Partial(RecallKeys, RecallRow)
    BY DEF SaidTyped
  <1>2. r.op \in {"SetHot", "DelHot", "EnqueueImpulse", "AckImpulse", "UpsertBond", "UpsertRecall"}
    BY LoggedFacts
  <1>3. t.hot \in Partial(HotKeys, HotRow)
    <2>1. CASE r.op = "SetHot"
      <3>1. r.row \in HotRow /\ r.row.key \in HotKeys
        BY <2>1, LoggedFacts DEF HotRow
      <3>2. t.hot = Put(said.hot, r.row.key, r.row)
        BY <2>1, SaidFields
      <3> HIDE DEF t
      <3> QED BY <1>1, <3>1, <3>2, PutTyped
    <2>2. CASE r.op = "DelHot"
      <3>1. PICK D \in SUBSET HotKeys : said.hot \in [D -> HotRow]
        BY <1>1 DEF Partial
      <3>2. t.hot = [k \in D \ {r.row.key} |-> said.hot[k]]
        BY <2>2, <3>1, SaidFields
      <3>3. [k \in D \ {r.row.key} |-> said.hot[k]] \in [D \ {r.row.key} -> HotRow]
        BY <3>1
      <3> QED BY <3>2, <3>3 DEF Partial
    <2>3. CASE r.op \notin {"SetHot", "DelHot"}
      BY <1>1, <2>3, SaidFields
    <2> QED BY <2>1, <2>2, <2>3
  <1>4. t.lastHot \in SUBSET HotKeys
    <2>1. r.op = "SetHot" => r.row.key \in HotKeys
      BY LoggedFacts DEF HotRow
    <2> QED BY <1>1, <2>1, SaidFields
  <1>5. t.jobs \in SUBSET JobRow
    <2>1. r.op = "EnqueueImpulse" => r.row \in JobRow
      BY LoggedFacts
    <2>2. CASE r.op = "EnqueueImpulse"
      BY <1>1, <2>1, <2>2, SaidFields
    <2>3. CASE r.op = "AckImpulse"
      BY <1>1, <2>3, SaidFields
    <2>4. CASE r.op \notin {"EnqueueImpulse", "AckImpulse"}
      BY <1>1, <2>4, SaidFields
    <2> QED BY <2>2, <2>3, <2>4
  <1>6. t.bonds \in Partial(BondKeys, BondRow)
    <2>1. CASE r.op = "UpsertBond"
      <3>1. r.row \in BondRow /\ r.row.key \in BondKeys
        BY <2>1, LoggedFacts DEF BondRow
      <3>2. t.bonds = Put(said.bonds, r.row.key, r.row)
        BY <2>1, SaidFields
      <3> HIDE DEF t
      <3> QED BY <1>1, <3>1, <3>2, PutTyped
    <2>2. CASE r.op # "UpsertBond"
      BY <1>1, <2>2, SaidFields
    <2> QED BY <2>1, <2>2
  <1>7. t.recalls \in Partial(RecallKeys, RecallRow)
    <2>1. CASE r.op = "UpsertRecall"
      <3>1. r.row \in RecallRow /\ r.row.key \in RecallKeys
        BY <2>1, LoggedFacts DEF RecallRow
      <3>2. t.recalls = Put(said.recalls, r.row.key, r.row)
        BY <2>1, SaidFields
      <3> HIDE DEF t
      <3> QED BY <1>1, <3>1, <3>2, PutTyped
    <2>2. CASE r.op # "UpsertRecall"
      BY <1>1, <2>2, SaidFields
    <2> QED BY <2>1, <2>2
  <1>8. t = [hot |-> t.hot, lastHot |-> t.lastHot, jobs |-> t.jobs, bonds |-> t.bonds,
             recalls |-> t.recalls]
    BY SaidFields
  <1> HIDE DEF t
  <1>9. t \in [hot : Partial(HotKeys, HotRow), lastHot : SUBSET HotKeys, jobs : SUBSET JobRow,
               bonds : Partial(BondKeys, BondRow), recalls : Partial(RecallKeys, RecallRow)]
    BY <1>3, <1>4, <1>5, <1>6, <1>7, <1>8
  <1> QED BY <1>9 DEF SaidTyped, t

LEMMA CallTyped ==
    ASSUME Typed, NEW r \in Logged, Logs(r)
    PROVE  Typed' /\ HotApplied(r, mem[1].rows, mem'[1].rows) /\ disk'[1] = disk[1]
  <1>1. PICK n \in Nat : n >= ROOT_PAGES /\ disk \in Heap(n) /\ mem \in Heap(n)
    BY DEF Typed, HeapsTyped, Logs
  <1>2. /\ \E n2 \in {n, n + 1} : disk' \in Heap(n2) /\ mem' \in Heap(n2)
        /\ disk'[1] = disk[1] /\ mem'[1].rows \in Seq(HotRow)
        /\ HotApplied(r, mem[1].rows, mem'[1].rows)
    BY <1>1, BecomesTyped DEF Typed, HotTyped, Logs
  <1>3. phase' = "open" /\ HeapsTyped'
    <2>1. \A n2 \in {n, n + 1} : n2 \in Nat /\ n2 >= ROOT_PAGES
      BY <1>1 DEF ROOT_PAGES
    <2> QED BY <1>2, <2>1 DEF HeapsTyped, Logs
  <1>4. HotTyped'
    BY <1>2 DEF Typed, HotTyped
  <1>5. SaidTyped'
    BY SaidIsTyped DEF Typed, Logs
  <1>6. LogTyped'
    <2>1. wal' \in Seq(Logged) /\ Len(wal') = Len(wal) + 1 /\ Len(wal) \in Nat
      BY LogGrows DEF Typed, LogTyped, Logs
    <2>2. covered' = covered /\ replayed' = replayed /\ phase = "open"
      BY DEF Logs
    <2>3. covered \in 0 .. Len(wal) /\ replayed \in 0 .. Len(wal) /\ replayed = 0
      BY <2>2 DEF Typed, LogTyped
    <2> QED BY <1>3, <2>1, <2>2, <2>3 DEF LogTyped
  <1>7. RestTyped'
    <2>1. calls' \in Nat
      BY DEF Typed, RestTyped, Logs
    <2> QED BY <2>1 DEF Typed, RestTyped, Logs
  <1> QED BY <1>2, <1>3, <1>4, <1>5, <1>6, <1>7 DEF Typed

LEMMA ReplayTyped ==
    ASSUME Typed, Replay
    PROVE  /\ Typed' /\ disk'[1] = disk[1] /\ replayed \in Nat
           /\ replayed + 1 \in 1 .. Len(wal) /\ wal[replayed + 1] \in Logged
           /\ Skipped => mem' = mem /\ disk' = disk
           /\ ~Skipped => HotApplied(wal[replayed + 1], mem[1].rows, mem'[1].rows)
  <1>1. PICK n \in Nat : n >= ROOT_PAGES /\ disk \in Heap(n) /\ mem \in Heap(n)
    BY DEF Typed, HeapsTyped, Replay
  <1> DEFINE r == wal[replayed + 1]
  <1>2. /\ replayed \in Nat /\ replayed + 1 \in 1 .. Len(wal) /\ r \in Logged
        /\ mem[1].rows \in Seq(HotRow) /\ disk[1].rows \in Seq(HotRow)
    BY DEF Typed, LogTyped, HotTyped, Replay
  <1>5. /\ \E n2 \in {n, n + 1} : disk' \in Heap(n2) /\ mem' \in Heap(n2)
        /\ disk'[1] = disk[1] /\ mem'[1].rows \in Seq(HotRow)
        /\ Skipped => mem' = mem /\ disk' = disk
        /\ ~Skipped => HotApplied(r, mem[1].rows, mem'[1].rows)
    <2>1. CASE Skipped
      <3>1. mem' = mem /\ disk' = disk
        BY <2>1 DEF Replay, Becomes, E
      <3> QED BY <1>1, <1>2, <2>1, <3>1
    <2>2. CASE ~Skipped
      <3>1. Becomes(Apply(E, r))
        BY <2>2 DEF Replay
      <3> HIDE DEF r
      <3> QED BY <1>1, <1>2, <2>2, <3>1, BecomesTyped
    <2> QED BY <2>1, <2>2
  <1>6. phase = "replay" /\ phase' = "replay" /\ HeapsTyped'
    <2>1. \A n2 \in {n, n + 1} : n2 \in Nat /\ n2 >= ROOT_PAGES
      BY <1>1 DEF ROOT_PAGES
    <2> QED BY <1>5, <2>1 DEF HeapsTyped, Replay
  <1>7. HotTyped'
    BY <1>2, <1>5 DEF HotTyped
  <1>8. LogTyped'
    <2>1. /\ wal' = wal /\ covered' = covered /\ replayed' = replayed + 1
      BY DEF Replay
    <2>2. wal \in Seq(Logged) /\ covered \in 0 .. Len(wal)
      BY DEF Typed, LogTyped
    <2> QED BY <1>2, <1>6, <2>1, <2>2 DEF LogTyped
  <1>9. SaidTyped' /\ RestTyped'
    BY DEF Typed, SaidTyped, RestTyped, Replay
  <1> QED BY <1>2, <1>5, <1>6, <1>7, <1>8, <1>9 DEF Typed

LEMMA TypedStep == Typed /\ [Next]_vars => Typed'
  <1> SUFFICES ASSUME Typed, [Next]_vars
               PROVE  Typed'
    OBVIOUS
  <1> USE DEF Typed
  <1>1. PICK n \in Nat : /\ n >= ROOT_PAGES /\ disk \in Heap(n)
                         /\ IF phase = "closed" THEN mem = <<>> ELSE mem \in Heap(n)
    BY DEF HeapsTyped
  <1>2. /\ disk[1].rows \in Seq(HotRow) /\ (phase # "closed" => mem[1].rows \in Seq(HotRow))
        /\ wal \in Seq(Logged) /\ Len(wal) \in Nat
        /\ covered \in 0 .. Len(wal) /\ replayed \in 0 .. Len(wal)
        /\ phase = "persisted" => covered = Len(wal)
        /\ phase # "replay" => replayed = 0
    BY DEF HotTyped, LogTyped
  <1>3. ASSUME Tick
        PROVE  Typed'
    <2>1. now' \in 1 .. MaxNow
      <3>1. MaxNow \in Nat /\ now \in 1 .. MaxNow
        BY DomainsAssumption DEF RestTyped
      <3> QED BY <1>3, <3>1 DEF Tick
    <2> QED BY <1>3, <2>1 DEF Tick, HeapsTyped, HotTyped, SaidTyped, LogTyped, RestTyped
  <1>4. ASSUME Open
        PROVE  Typed'
    <2>1. /\ phase = "closed" /\ phase' = "replay" /\ mem' = disk /\ disk' = disk
          /\ UNCHANGED <<wal, covered, replayed, closing, now, said, setup, calls, crashes>>
      BY <1>4 DEF Open
    <2>2. HeapsTyped' /\ HotTyped' /\ LogTyped'
      BY <1>1, <1>2, <2>1 DEF HeapsTyped, HotTyped, LogTyped
    <2>3. SaidTyped' /\ RestTyped'
      BY <2>1 DEF SaidTyped, RestTyped
    <2> QED BY <2>2, <2>3
  <1>5. ASSUME Opened
        PROVE  Typed'
    <2>1. /\ phase = "replay" /\ phase' = "open" /\ replayed' = 0
          /\ UNCHANGED <<mem, disk, wal, covered, closing, now, said, setup, calls, crashes>>
      BY <1>5 DEF Opened
    <2>2. HeapsTyped' /\ HotTyped' /\ LogTyped'
      BY <1>1, <1>2, <2>1 DEF HeapsTyped, HotTyped, LogTyped
    <2>3. SaidTyped' /\ RestTyped'
      BY <2>1 DEF SaidTyped, RestTyped
    <2> QED BY <2>2, <2>3
  <1>6. ASSUME NEW id \in DOMAIN mem, Evict(id)
        PROVE  Typed'
    <2>1. /\ phase \in {"replay", "open"} /\ disk' = [disk EXCEPT ![id] = mem[id]]
          /\ UNCHANGED <<mem, phase, wal, covered, replayed, closing, now, said, setup, calls, crashes>>
      BY <1>6 DEF Evict
    <2>2. mem \in Heap(n) /\ id \in 0 .. n - 1 /\ mem[id] \in PageSet(n)
      BY <1>1, <2>1 DEF Heap
    <2>3. disk' \in Heap(n) /\ disk'[1] \in {disk[1], mem[1]}
      <3>1. 1 \in 0 .. n - 1
        BY <1>1 DEF ROOT_PAGES
      <3> DEFINE page == mem[id]
      <3>2. page \in PageSet(n) /\ id \in 0 .. n - 1 /\ disk \in Heap(n)
        BY <1>1, <2>2
      <3>3. disk' = [disk EXCEPT ![id] = page]
        BY <2>1
      <3> HIDE DEF page
      <3>4. /\ disk' \in Heap(n) /\ disk'[id] = page
            /\ \A q \in (0 .. n - 1) \ {id} : disk'[q] = disk[q]
        BY <3>2, <3>3 DEF Heap
      <3> QED BY <3>1, <3>4 DEF page
    <2>4. HeapsTyped' /\ HotTyped' /\ LogTyped'
      BY <1>1, <1>2, <2>1, <2>2, <2>3 DEF HeapsTyped, HotTyped, LogTyped
    <2>5. SaidTyped' /\ RestTyped'
      BY <2>1 DEF SaidTyped, RestTyped
    <2> QED BY <2>4, <2>5
  <1>7. ASSUME CkptPersist
        PROVE  Typed'
    <2>1. /\ phase = "open" /\ phase' = "persisted" /\ disk' = mem /\ covered' = Len(wal)
          /\ closing' \in BOOLEAN
          /\ UNCHANGED <<mem, wal, replayed, now, said, setup, calls, crashes>>
      BY <1>7 DEF CkptPersist
    <2>2. HeapsTyped' /\ HotTyped' /\ LogTyped'
      BY <1>1, <1>2, <2>1 DEF HeapsTyped, HotTyped, LogTyped
    <2>3. SaidTyped'
      BY <2>1 DEF SaidTyped
    <2>4. RestTyped'
      BY <2>1 DEF RestTyped
    <2> QED BY <2>2, <2>3, <2>4
  <1>8. ASSUME CkptRotate
        PROVE  Typed'
    <2>1. /\ phase = "persisted" /\ wal' = <<>> /\ covered' = 0
          /\ UNCHANGED <<disk, now, said, setup, calls, crashes>>
          /\ \/ phase' = "closed" /\ mem' = <<>> /\ replayed' = 0 /\ closing' = FALSE
             \/ phase' = "open" /\ mem' = mem /\ replayed' = replayed /\ closing' = closing
      BY <1>8 DEF CkptRotate, Gone
    <2>2. HeapsTyped' /\ HotTyped' /\ LogTyped'
      BY <1>1, <1>2, <2>1 DEF HeapsTyped, HotTyped, LogTyped
    <2>3. SaidTyped'
      BY <2>1 DEF SaidTyped
    <2>4. RestTyped'
      <3>1. closing' \in BOOLEAN
        BY <2>1 DEF RestTyped
      <3> QED BY <2>1, <3>1 DEF RestTyped
    <2> QED BY <2>2, <2>3, <2>4
  <1>9. ASSUME CloseSkipped \/ Crash
        PROVE  Typed'
    <2>1. /\ phase # "closed" /\ phase' = "closed" /\ mem' = <<>> /\ replayed' = 0 /\ closing' = FALSE
          /\ disk' \in {disk, mem}
          /\ UNCHANGED <<wal, covered, now, said, setup, calls>>
          /\ crashes' \in {crashes, crashes + 1}
      BY <1>9 DEF CloseSkipped, Crash, Gone
    <2>2. HeapsTyped' /\ HotTyped' /\ LogTyped'
      BY <1>1, <1>2, <2>1 DEF HeapsTyped, HotTyped, LogTyped
    <2>3. SaidTyped'
      BY <2>1 DEF SaidTyped
    <2>4. RestTyped'
      <3>1. closing' \in BOOLEAN
        BY <2>1, Zenon
      <3>2. crashes' \in Nat
        BY <2>1 DEF RestTyped
      <3> QED BY <2>1, <3>1, <3>2 DEF RestTyped
    <2> QED BY <2>2, <2>3, <2>4
  <1>10. ASSUME UNCHANGED vars
         PROVE  Typed'
    BY <1>10 DEF vars, HeapsTyped, HotTyped, SaidTyped, LogTyped, RestTyped
  <1>11. RestTyped
    OBVIOUS
  <1> QED BY <1>3, <1>4, <1>5, <1>6, <1>7, <1>8, <1>9, <1>10, <1>11, EveryStep, CallTyped, ReplayTyped

LEMMA TypedImplies == Typed => TypeOK
  <1> SUFFICES ASSUME Typed
               PROVE  TypeOK
    OBVIOUS
  <1>1. PICK n \in Nat : /\ n >= ROOT_PAGES /\ disk \in Heap(n)
                         /\ IF phase = "closed" THEN mem = <<>> ELSE mem \in Heap(n)
    BY DEF Typed, HeapsTyped
  <1>2. SizePages(disk) = n /\ DOMAIN disk = 0 .. n - 1
    BY <1>1, SizeOf DEF Heap
  <1>3. ASSUME NEW heap \in Heap(n), NEW id \in DOMAIN heap
        PROVE  /\ heap[id].ty \in Domain \cup {"super", "free"}
               /\ heap[id].next \in 0 .. n - 1
               /\ Len(heap[id].rows) <= PageCap
    <2>1. heap[id] \in PageSet(n)
      BY DEF Heap
    <2>2. Links(n) \subseteq 0 .. n - 1
      BY <1>1 DEF Links, ROOT_PAGES
    <2> QED BY <2>1, <2>2 DEF PageSet
  <1>4. ASSUME NEW heap \in {disk, mem}, NEW id \in DOMAIN heap
        PROVE  heap \in Heap(n)
    <2>1. CASE mem = <<>>
      <3>1. DOMAIN mem = {}
        BY <2>1
      <3> QED BY <1>1, <3>1
    <2> QED BY <1>1, <2>1
  <1>5. /\ DOMAIN disk = 0 .. SizePages(disk) - 1
        /\ phase # "closed" => DOMAIN mem = DOMAIN disk
    BY <1>1, <1>2 DEF Heap
  <1>6. /\ phase \in {"closed", "replay", "open", "persisted"}
        /\ covered \in 0 .. Len(wal) /\ replayed \in 0 .. Len(wal)
        /\ closing \in BOOLEAN
    BY DEF Typed, LogTyped, RestTyped
  <1>7. now \in 0 .. MaxNow
    <2>1. MaxNow \in Nat /\ now \in 1 .. MaxNow
      BY DomainsAssumption DEF Typed, RestTyped
    <2> QED BY <2>1
  <1>8. \A heap \in {disk, mem} : \A id \in DOMAIN heap :
          /\ heap[id].ty \in Domain \cup {"super", "free"}
          /\ heap[id].next \in 0 .. SizePages(disk) - 1
          /\ Len(heap[id].rows) <= PageCap
    BY <1>2, <1>3, <1>4
  <1> QED BY <1>5, <1>6, <1>7, <1>8 DEF TypeOK

\* Every page of the file and of the pool has a type, a link to a page, and no more rows
\* than fit; the process has the pages of the file; ENGINE.json covers no more of the log
\* than there is, and replay counts no further.
THEOREM TypeIsOK == Spec => []TypeOK
  <1>1. Spec => []Typed
    BY InitTyped, TypedStep, PTL DEF Spec
  <1> QED BY <1>1, TypedImplies, PTL

-----------------------------------------------------------------------------
(* The hot page. *)

\* Up to which record of the log the pages in memory are
AppliedTo == IF phase # "replay" THEN Len(wal)
             ELSE IF replayed < covered THEN covered ELSE replayed

\* A row is current after record j when its key has a later record or it is what was
\* said last.
Overtaken(key, j) ==
    \E i \in j + 1 .. Len(wal) : wal[i].op \in {"SetHot", "DelHot"} /\ wal[i].row.key = key
IsSaid(row)      == row.key \in DOMAIN said.hot /\ said.hot[row.key] = row
Current(row, j)  == Overtaken(row.key, j) \/ IsSaid(row)
AllCurrent(page, j) == \A row \in ToSet(page.rows) : Current(row, j)

HotCurrent ==
    /\ \A i \in 1 .. Len(wal) : wal[i].op = "SetHot" => Current(wal[i].row, i)
    /\ AllCurrent(disk[1], covered)
    /\ phase # "closed" => AllCurrent(mem[1], AppliedTo)

\* The key set last is on the page, or a later record sets it.
SetAfter(key, j) ==
    \E i \in j + 1 .. Len(wal) : wal[i].op = "SetHot" /\ wal[i].row.key = key
OnPage(page, key) == \E row \in ToSet(page.rows) : row.key = key
LastOn(page, j)   == \A key \in said.lastHot : OnPage(page, key) \/ SetAfter(key, j)

LastThere ==
    /\ said.lastHot \subseteq DOMAIN said.hot
    /\ \A i \in 1 .. Len(wal), key \in said.lastHot :
          \/ SetAfter(key, i)
          \/ wal[i].op \notin {"SetHot", "DelHot"}
          \/ wal[i].op = "SetHot" /\ wal[i].row.key = key
          \/ wal[i].op = "DelHot" /\ wal[i].row.key # key
    /\ LastOn(disk[1], covered)
    /\ phase # "closed" => LastOn(mem[1], AppliedTo)

LEMMA InitHot == Init => HotCurrent /\ LastThere
  <1> SUFFICES ASSUME Init
               PROVE  HotCurrent /\ LastThere
    OBVIOUS
  <1>1. /\ setup \in Setups /\ disk = HeapWith(setup.free) /\ wal = <<>> /\ covered = 0
        /\ phase = "closed" /\ said.lastHot = {}
    BY DEF Init
  <1>2. disk[1].rows = <<>>
    <2> DEFINE n == ROOT_PAGES + Len(setup.free)
    <2>1. n \in Nat /\ n >= ROOT_PAGES /\ \A p \in 0 .. n - 1 : disk[p].rows = <<>>
      BY <1>1, InitHeap
    <2>2. 1 \in 0 .. n - 1
      BY <2>1 DEF ROOT_PAGES
    <2> QED BY <2>1, <2>2
  <1>3. ToSet(disk[1].rows) = {} /\ Len(wal) = 0
    BY <1>1, <1>2 DEF ToSet
  <1>4. HotCurrent
    BY <1>1, <1>3 DEF HotCurrent, AllCurrent
  <1>5. LastThere
    BY <1>1, <1>3 DEF LastThere, LastOn
  <1> QED BY <1>4, <1>5

\* What is current stays so after a later record, and when a record of another key is applied.
LEMMA CurrentEarlier ==
    ASSUME NEW row, NEW j \in Nat, NEW k \in Nat, k <= j, wal \in Seq(Logged), Current(row, j)
    PROVE  Current(row, k)
  <1>1. \A i \in j + 1 .. Len(wal) : i \in k + 1 .. Len(wal)
    OBVIOUS
  <1> QED BY <1>1 DEF Current, Overtaken

LEMMA SetEarlier ==
    ASSUME NEW key, NEW j \in Nat, NEW k \in Nat, k <= j, wal \in Seq(Logged), SetAfter(key, j)
    PROVE  SetAfter(key, k)
  <1>1. \A i \in j + 1 .. Len(wal) : i \in k + 1 .. Len(wal)
    OBVIOUS
  <1> QED BY <1>1 DEF SetAfter

\* Whatever a call says, a row that was current is, or the call's record overtakes it.
LEMMA CallCurrent ==
    ASSUME SaidTyped, wal \in Seq(Logged), NEW r \in Logged, Logs(r),
           NEW row, NEW j \in 0 .. Len(wal), Current(row, j)
    PROVE  Current(row, j)'
  <1> DEFINE n == Len(wal)
  <1>1. /\ n \in Nat /\ wal' = Append(wal, r) /\ Len(wal') = n + 1 /\ wal'[n + 1] = r
        /\ \A i \in 1 .. n : wal'[i] = wal[i]
    BY LogGrows DEF Logs
  <1> HIDE DEF n
  <1>2. said'.hot = CASE r.op = "SetHot" -> Put(said.hot, r.row.key, r.row)
                      [] r.op = "DelHot" -> [k \in DOMAIN said.hot \ {r.row.key} |-> said.hot[k]]
                      [] OTHER -> said.hot
    BY SaidFields DEF Logs
  <1>3. j + 1 \in 1 .. n + 1 /\ n + 1 \in j + 1 .. n + 1
        /\ \A i \in j + 1 .. n : i \in j + 1 .. n + 1 /\ i \in 1 .. n
    BY <1>1 DEF n
  <1>4. CASE Overtaken(row.key, j)
    <2>1. PICK i \in j + 1 .. n : wal[i].op \in {"SetHot", "DelHot"} /\ wal[i].row.key = row.key
      BY <1>4 DEF Overtaken, n
    <2>2. i \in j + 1 .. Len(wal') /\ wal'[i] = wal[i]
      BY <1>1, <1>3
    <2> QED BY <2>1, <2>2 DEF Current, Overtaken
  <1>5. CASE r.op \in {"SetHot", "DelHot"} /\ r.row.key = row.key
    BY <1>1, <1>3, <1>5 DEF Current, Overtaken
  <1>6. CASE IsSaid(row) /\ ~(r.op \in {"SetHot", "DelHot"} /\ r.row.key = row.key)
    <2>1. row.key \in DOMAIN said.hot /\ said.hot[row.key] = row
      BY <1>6 DEF IsSaid
    <2>2. row.key \in DOMAIN said'.hot /\ said'.hot[row.key] = row
      <3>1. CASE r.op = "SetHot"
        <4>1. said'.hot = Put(said.hot, r.row.key, r.row) /\ r.row.key # row.key
          BY <1>2, <1>6, <3>1
        <4> QED BY <2>1, <4>1 DEF Put
      <3>2. CASE r.op = "DelHot"
        <4>1. /\ said'.hot = [k \in DOMAIN said.hot \ {r.row.key} |-> said.hot[k]]
              /\ r.row.key # row.key
          BY <1>2, <1>6, <3>2
        <4> QED BY <2>1, <4>1
      <3>3. CASE r.op \notin {"SetHot", "DelHot"}
        BY <1>2, <2>1, <3>3
      <3> QED BY <3>1, <3>2, <3>3
    <2> QED BY <2>2 DEF Current, IsSaid
  <1> QED BY <1>4, <1>5, <1>6 DEF Current

\* The call's own row is what was said last.
LEMMA CallSays ==
    ASSUME SaidTyped, NEW r \in Logged, Logs(r), r.op = "SetHot"
    PROVE  IsSaid(r.row)'
  <1>1. said'.hot = Put(said.hot, r.row.key, r.row)
    BY SaidFields DEF Logs
  <1>2. r.row.key \in DOMAIN said'.hot /\ said'.hot[r.row.key] = r.row
    BY <1>1 DEF Put
  <1> QED BY <1>2 DEF IsSaid

LEMMA HotCall ==
    ASSUME Typed, HotCurrent, NEW r \in Logged, Logs(r)
    PROVE  HotCurrent'
  <1>0. PICK n : n = Len(wal)
    OBVIOUS
  <1>1. /\ n \in Nat /\ Len(wal') = n + 1 /\ wal'[n + 1] = r
        /\ \A i \in 1 .. n : wal'[i] = wal[i]
        /\ wal \in Seq(Logged) /\ covered \in 0 .. n /\ phase = "open" /\ phase' = "open"
        /\ covered' = covered
    BY <1>0, LogGrows DEF Logs, Typed, LogTyped
  <1>2. \A row, j : j \in 0 .. n /\ Current(row, j) => Current(row, j)'
    BY <1>0, <1>1, CallCurrent DEF Typed
  <1>3. ASSUME NEW i \in 1 .. n + 1, wal'[i].op = "SetHot", NEW row, row = wal'[i].row
        PROVE  Current(row, i)'
    <2>1. CASE i = n + 1
      BY <1>1, <1>3, <2>1, CallSays DEF Typed, Current
    <2>2. CASE i # n + 1
      <3>1. i \in 1 .. n /\ i \in 0 .. n
        BY <1>1, <2>2
      <3>2. wal'[i] = wal[i]
        BY <1>1, <3>1
      <3>3. Current(row, i)
        BY <1>0, <1>3, <3>1, <3>2 DEF HotCurrent
      <3> QED BY <1>2, <3>1, <3>3
    <2> QED BY <2>1, <2>2
  <1>4. AllCurrent(disk[1], covered)'
    <2>1. disk'[1] = disk[1] /\ AllCurrent(disk[1], covered)
      BY CallTyped DEF HotCurrent
    <2>2. \A row \in ToSet(disk[1].rows) : Current(row, covered)'
      BY <1>1, <1>2, <2>1 DEF AllCurrent
    <2> QED BY <2>1, <2>2 DEF AllCurrent
  <1>5. ASSUME NEW row \in ToSet(mem'[1].rows)
        PROVE  IsSaid(row)'
    <2>1. HotApplied(r, mem[1].rows, mem'[1].rows)
      BY CallTyped
    <2>2. ASSUME NEW x \in ToSet(mem[1].rows), ~(r.op \in {"SetHot", "DelHot"} /\ r.row.key = x.key)
          PROVE  IsSaid(x)'
      <3>1. Current(x, n)
        BY <1>0, <1>1 DEF HotCurrent, AllCurrent, AppliedTo
      <3>2. Current(x, n)'
        BY <1>1, <1>2, <3>1
      <3>3. ~Overtaken(x.key, n)'
        <4>1. \A i \in n + 1 .. n + 1 : i = n + 1
          BY <1>1
        <4> QED BY <1>1, <2>2, <4>1 DEF Overtaken
      <3> QED BY <3>2, <3>3 DEF Current
    <2>3. CASE r.op = "SetHot"
      <3>1. row = r.row \/ (row \in ToSet(mem[1].rows) /\ row.key # r.row.key)
        BY <2>1, <2>3 DEF HotApplied, Replaced
      <3> QED BY <2>2, <2>3, <3>1, CallSays DEF Typed
    <2>4. CASE r.op = "DelHot"
      <3>1. row \in ToSet(mem[1].rows) /\ row.key # r.row.key
        BY <2>1, <2>4 DEF HotApplied
      <3> QED BY <2>2, <2>4, <3>1
    <2>5. CASE r.op \notin {"SetHot", "DelHot"}
      <3>1. row \in ToSet(mem[1].rows)
        BY <2>1, <2>5 DEF HotApplied
      <3> QED BY <2>2, <2>5, <3>1
    <2> QED BY <2>3, <2>4, <2>5
  <1>6. AllCurrent(mem[1], AppliedTo)'
    BY <1>5 DEF AllCurrent, Current
  <1>7. \A i \in 1 .. Len(wal') : wal'[i].op = "SetHot" => Current(wal[i].row, i)'
    BY <1>1, <1>3
  <1> QED BY <1>4, <1>6, <1>7 DEF HotCurrent

LEMMA EvictHot ==
    ASSUME Typed, NEW id \in DOMAIN mem, Evict(id)
    PROVE  disk'[1] \in {disk[1], mem[1]}
  <1>1. PICK n \in Nat : n >= ROOT_PAGES /\ disk \in Heap(n) /\ mem \in Heap(n)
    BY DEF Typed, HeapsTyped, Evict
  <1>2. disk' = [disk EXCEPT ![id] = mem[id]] /\ 1 \in 0 .. n - 1 /\ DOMAIN disk = 0 .. n - 1
    BY <1>1 DEF Evict, Heap, ROOT_PAGES
  <1> QED BY <1>2

\* The steps but calls and replay, as far as the hot page, log and promises go
HotRest ==
    \/ UNCHANGED <<wal, said, covered, disk, mem, phase, replayed>>
    \/ /\ phase = "closed" /\ phase' = "replay" /\ mem' = disk
       /\ UNCHANGED <<disk, wal, said, covered, replayed>>
    \/ /\ phase = "replay" /\ phase' = "open" /\ replayed = Len(wal)
       /\ UNCHANGED <<disk, wal, said, covered, mem>>
    \/ /\ phase # "closed" /\ disk'[1] \in {disk[1], mem[1]}
       /\ UNCHANGED <<wal, said, covered, mem, phase, replayed>>
    \/ /\ phase = "open" /\ phase' = "persisted" /\ disk' = mem /\ covered' = Len(wal)
       /\ UNCHANGED <<wal, said, mem>>
    \/ /\ phase = "persisted" /\ wal' = <<>> /\ covered' = 0 /\ UNCHANGED <<disk, said>>
       /\ \/ phase' = "closed"
          \/ phase' = "open" /\ mem' = mem
    \/ /\ phase # "closed" /\ phase' = "closed" /\ UNCHANGED <<wal, said, covered>>
       /\ disk' = disk \/ (phase = "open" /\ disk' = mem)

LEMMA StepKinds ==
    ASSUME Typed, [Next]_vars
    PROVE  (\E r \in Logged : Logs(r)) \/ Replay \/ HotRest
  <1>1. RestTyped
    BY DEF Typed
  <1>2. Tick \/ UNCHANGED vars => HotRest
    BY DEF HotRest, Tick, vars
  <1>3. Open => HotRest
    BY DEF HotRest, Open
  <1>4. Opened => HotRest
    BY DEF HotRest, Opened
  <1>5. ASSUME NEW id \in DOMAIN mem, Evict(id)
        PROVE  HotRest
    BY <1>5, EvictHot DEF HotRest, Evict
  <1>6. CkptPersist => HotRest
    BY DEF HotRest, CkptPersist
  <1>7. CkptRotate => HotRest
    BY DEF HotRest, CkptRotate, Gone
  <1>8. CloseSkipped \/ Crash => HotRest
    BY DEF HotRest, CloseSkipped, Crash, Gone
  <1> QED BY <1>1, <1>2, <1>3, <1>4, <1>5, <1>6, <1>7, <1>8, EveryStep

LEMMA HotReplay ==
    ASSUME Typed, HotCurrent, Replay
    PROVE  HotCurrent'
  <1>1. PICK n, c, p : n = Len(wal) /\ c = covered /\ p = replayed
    OBVIOUS
  <1>2. /\ n \in Nat /\ c \in 0 .. n /\ p \in Nat /\ p + 1 \in 1 .. n
        /\ wal \in Seq(Logged) /\ phase = "replay" /\ phase' = "replay"
        /\ wal' = wal /\ said' = said /\ covered' = covered /\ replayed' = p + 1
        /\ disk'[1] = disk[1]
    BY <1>1, ReplayTyped DEF Typed, LogTyped, Replay
  <1>3. \A row, j : Current(row, j) <=> Current(row, j)'
    BY <1>2 DEF Current, Overtaken, IsSaid
  <1>4. \A i \in 1 .. Len(wal') : wal'[i].op = "SetHot" => Current(wal[i].row, i)'
    BY <1>2, <1>3 DEF HotCurrent, Current, Overtaken, IsSaid
  <1>5. AllCurrent(disk[1], covered)'
    BY <1>2, <1>3 DEF HotCurrent, AllCurrent, Current, Overtaken, IsSaid
  <1>6. AllCurrent(mem[1], AppliedTo)'
    <2>1. CASE p < c
      <3>1. mem' = mem
        BY <1>1, <2>1, ReplayTyped DEF Skipped
      <3>2. AppliedTo = c /\ AppliedTo' = c
        BY <1>1, <1>2, <2>1 DEF AppliedTo
      <3>3. \A row \in ToSet(mem[1].rows) : Current(row, c)
        BY <1>2, <3>2 DEF HotCurrent, AllCurrent
      <3> QED BY <1>3, <3>1, <3>2, <3>3 DEF AllCurrent
    <2>2. CASE ~(p < c)
      <3>1. PICK r : r = wal[p + 1] /\ r \in Logged /\ HotApplied(r, mem[1].rows, mem'[1].rows)
        BY <1>1, <2>2, ReplayTyped DEF Skipped
      <3>2. AppliedTo = p /\ AppliedTo' = p + 1
        BY <1>1, <1>2, <2>2 DEF AppliedTo
      <3>3. \A row \in ToSet(mem[1].rows) : Current(row, p)
        BY <1>2, <3>2 DEF HotCurrent, AllCurrent
      <3>4. ASSUME NEW row \in ToSet(mem[1].rows),
                   ~(r.op \in {"SetHot", "DelHot"} /\ r.row.key = row.key)
            PROVE  Current(row, p + 1)
        <4>1. \A i \in p + 1 .. n : i = p + 1 \/ i \in (p + 1) + 1 .. n
          BY <1>2
        <4> QED BY <1>1, <3>1, <3>3, <3>4, <4>1 DEF Current, Overtaken
      <3>5. ASSUME NEW row \in ToSet(mem'[1].rows)
            PROVE  Current(row, p + 1)
        <4>1. CASE r.op = "SetHot"
          <5>1. row = r.row \/ (row \in ToSet(mem[1].rows) /\ row.key # r.row.key)
            BY <3>1, <4>1 DEF HotApplied, Replaced
          <5>2. Current(r.row, p + 1)
            BY <1>1, <1>2, <3>1, <4>1 DEF HotCurrent
          <5> QED BY <3>4, <4>1, <5>1, <5>2
        <4>2. CASE r.op = "DelHot"
          <5>1. row \in ToSet(mem[1].rows) /\ row.key # r.row.key
            BY <3>1, <4>2 DEF HotApplied
          <5> QED BY <3>4, <4>2, <5>1
        <4>3. CASE r.op \notin {"SetHot", "DelHot"}
          <5>1. row \in ToSet(mem[1].rows)
            BY <3>1, <4>3 DEF HotApplied
          <5> QED BY <3>4, <4>3, <5>1
        <4> QED BY <4>1, <4>2, <4>3
      <3> QED BY <1>3, <3>2, <3>5 DEF AllCurrent
    <2> QED BY <2>1, <2>2
  <1> QED BY <1>4, <1>5, <1>6 DEF HotCurrent

\* The pages in memory are never behind those of the file.
LEMMA AppliedBounds ==
    ASSUME LogTyped
    PROVE  /\ AppliedTo \in 0 .. Len(wal) /\ covered <= AppliedTo /\ AppliedTo \in Nat
           /\ covered \in Nat /\ Len(wal) \in Nat
           /\ phase # "replay" => AppliedTo = Len(wal)
  BY DEF AppliedTo, LogTyped

LEMMA HotOther ==
    ASSUME Typed, Typed', HotCurrent, HotRest
    PROVE  HotCurrent'
  <1>1. PICK n, c, a : n = Len(wal) /\ c = covered /\ a = AppliedTo
    OBVIOUS
  <1>2. /\ n \in Nat /\ c \in Nat /\ a \in Nat /\ c <= a /\ a <= n /\ wal \in Seq(Logged)
        /\ phase # "replay" => a = n
        /\ phase = "persisted" => c = n
    BY <1>1, AppliedBounds DEF Typed, LogTyped
  <1>3. /\ \A row \in ToSet(disk[1].rows) : Current(row, c)
        /\ phase # "closed" => \A row \in ToSet(mem[1].rows) : Current(row, a) /\ Current(row, c)
    BY <1>1, <1>2, CurrentEarlier DEF HotCurrent, AllCurrent
  <1>4. ASSUME wal' = wal, said' = said,
               disk'[1] = disk[1] \/ (phase # "closed" /\ disk'[1] = mem[1]),
               covered' = c \/ (phase # "closed" /\ covered' = a /\ disk'[1] = mem[1]),
               \/ phase' = "closed"
               \/ phase # "closed" /\ mem' = mem /\ AppliedTo' = a
               \/ phase = "closed" /\ mem' = disk /\ AppliedTo' = c
        PROVE  HotCurrent'
    <2>1. \A row, j : Current(row, j) <=> Current(row, j)'
      BY <1>4 DEF Current, Overtaken, IsSaid
    <2>2. \A i \in 1 .. Len(wal') : wal'[i].op = "SetHot" => Current(wal[i].row, i)'
      BY <1>4, <2>1 DEF HotCurrent, Current, Overtaken, IsSaid
    <2>3. AllCurrent(disk[1], covered)'
      BY <1>3, <1>4, <2>1 DEF AllCurrent
    <2>4. phase' # "closed" => AllCurrent(mem[1], AppliedTo)'
      BY <1>3, <1>4, <2>1 DEF AllCurrent
    <2> QED BY <2>2, <2>3, <2>4 DEF HotCurrent
  <1>5. CASE UNCHANGED <<wal, said, covered, disk, mem, phase, replayed>>
    BY <1>1, <1>4, <1>5 DEF AppliedTo
  <1>6. CASE /\ phase = "closed" /\ phase' = "replay" /\ mem' = disk
             /\ UNCHANGED <<disk, wal, said, covered, replayed>>
    <2>1. replayed' = 0
      BY <1>6 DEF Typed, LogTyped
    <2>2. AppliedTo' = c
      BY <1>1, <1>2, <1>6, <2>1 DEF AppliedTo
    <2> QED BY <1>1, <1>4, <1>6, <2>2
  <1>7. CASE /\ phase = "replay" /\ phase' = "open" /\ replayed = Len(wal)
             /\ UNCHANGED <<disk, wal, said, covered, mem>>
    <2>1. a = n /\ AppliedTo' = n
      BY <1>1, <1>2, <1>7 DEF AppliedTo
    <2> QED BY <1>1, <1>4, <1>7, <2>1
  <1>8. CASE /\ phase # "closed" /\ disk'[1] \in {disk[1], mem[1]}
             /\ UNCHANGED <<wal, said, covered, mem, phase, replayed>>
    BY <1>1, <1>4, <1>8 DEF AppliedTo
  <1>9. CASE /\ phase = "open" /\ phase' = "persisted" /\ disk' = mem /\ covered' = Len(wal)
             /\ UNCHANGED <<wal, said, mem>>
    <2>1. a = n /\ AppliedTo' = n
      BY <1>1, <1>2, <1>9 DEF AppliedTo
    <2> QED BY <1>1, <1>4, <1>9, <2>1
  <1>10. CASE /\ phase = "persisted" /\ wal' = <<>> /\ covered' = 0 /\ UNCHANGED <<disk, said>>
              /\ phase' = "closed" \/ (phase' = "open" /\ mem' = mem)
    <2>1. a = n /\ c = n /\ Len(wal') = 0 /\ (phase' = "open" => AppliedTo' = 0)
      BY <1>2, <1>10 DEF AppliedTo
    <2>2. \A row : Current(row, n) => Current(row, 0)'
      BY <1>1, <1>2, <1>10 DEF Current, Overtaken, IsSaid
    <2>3. AllCurrent(disk[1], covered)'
      BY <1>3, <1>10, <2>1, <2>2 DEF AllCurrent
    <2>4. phase' # "closed" => AllCurrent(mem[1], AppliedTo)'
      BY <1>3, <1>10, <2>1, <2>2 DEF AllCurrent
    <2>5. \A i \in 1 .. Len(wal') : wal'[i].op = "SetHot" => Current(wal[i].row, i)'
      BY <2>1
    <2> QED BY <2>3, <2>4, <2>5 DEF HotCurrent
  <1>11. CASE /\ phase # "closed" /\ phase' = "closed" /\ UNCHANGED <<wal, said, covered>>
              /\ disk' = disk \/ (phase = "open" /\ disk' = mem)
    BY <1>1, <1>4, <1>11
  <1> QED BY <1>5, <1>6, <1>7, <1>8, <1>9, <1>10, <1>11 DEF HotRest

\* hot_get's answer is a row of the page, or nothing.
LEMMA HotGetFacts ==
    ASSUME NEW pages, pages[1].rows \in Seq(HotRow), NEW key, NEW t \in Nat
    PROVE  \/ HotGet(pages, key, t) = None
           \/ /\ HotGet(pages, key, t) \in ToSet(pages[1].rows)
              /\ HotGet(pages, key, t).key = key
              /\ HotGet(pages, key, t).exp \notin 1 .. t
  <1> DEFINE rows == pages[1].rows
             at == {k \in DOMAIN rows : rows[k].key = key}
             found == rows[Min(at)]
  <1>1. HotGet(pages, key, t) = IF at = {} \/ found.exp \in 1 .. t THEN None ELSE found
    BY RootFacts DEF HotGet
  <1>2. CASE at # {}
    <2>1. at \in SUBSET Nat
      OBVIOUS
    <2>2. Min(at) \in at
      <3> HIDE DEF at
      <3> QED BY <1>2, <2>1, MinFacts
    <2>3. found \in ToSet(rows) /\ found.key = key
      BY <2>2 DEF ToSet
    <2> QED BY <1>1, <2>3
  <1> QED BY <1>1, <1>2

LEMMA CurrentIsFresh == Typed /\ HotCurrent => HotIsFresh
  <1> SUFFICES ASSUME Typed, HotCurrent, Serving, NEW key \in HotKeys,
                      HotGet(mem, key, now) # None
               PROVE  LET got == HotGet(mem, key, now)
                      IN  /\ key \in DOMAIN said.hot /\ got = said.hot[key]
                          /\ got.exp = 0 \/ got.exp > now
    BY DEF HotIsFresh
  <1> DEFINE got == HotGet(mem, key, now)
  <1>1. /\ phase # "closed" /\ AppliedTo = Len(wal) /\ mem[1].rows \in Seq(HotRow)
        /\ now \in Nat /\ Len(wal) \in Nat
    <2>1. MaxNow \in Nat
      BY DomainsAssumption
    <2> QED BY <2>1, AppliedBounds DEF Serving, Typed, HotTyped, RestTyped
  <1>2. got \in ToSet(mem[1].rows) /\ got.key = key /\ got.exp \notin 1 .. now
    BY <1>1, HotGetFacts
  <1> HIDE DEF got
  <1>3. got \in HotRow
    BY <1>1, <1>2 DEF ToSet
  <1>4. Current(got, Len(wal))
    BY <1>1, <1>2 DEF HotCurrent, AllCurrent
  <1>5. IsSaid(got)
    <2>1. Len(wal) + 1 .. Len(wal) = {}
      BY <1>1
    <2> QED BY <1>4, <2>1 DEF Current, Overtaken
  <1>6. got.exp \in Nat
    BY <1>3 DEF HotRow
  <1> QED BY <1>1, <1>2, <1>5, <1>6 DEF IsSaid, got

\* hot_get never gives a value that was overwritten, deleted or has expired, whatever a
\* crash left of the hot page in the file and however much of the log replay repeats.
THEOREM HotNeverStale == Spec => []HotIsFresh
  <1> DEFINE Inv == Typed /\ HotCurrent
  <1>1. Init => Inv
    BY InitTyped, InitHot
  <1>2. Inv /\ [Next]_vars => Inv'
    BY TypedStep, StepKinds, HotCall, HotReplay, HotOther
  <1>3. Inv => HotIsFresh
    BY CurrentIsFresh
  <1> HIDE DEF Inv
  <1> QED BY <1>1, <1>2, <1>3, PTL DEF Spec

-----------------------------------------------------------------------------
(* The key set last. *)

LEMMA LastCall ==
    ASSUME Typed, LastThere, NEW r \in Logged, Logs(r)
    PROVE  LastThere'
  <1>1. PICK n, c : n = Len(wal) /\ c = covered
    OBVIOUS
  <1>2. /\ n \in Nat /\ wal' = Append(wal, r) /\ Len(wal') = n + 1 /\ wal'[n + 1] = r
        /\ \A i \in 1 .. n : wal'[i] = wal[i]
        /\ wal \in Seq(Logged) /\ c \in 0 .. n /\ phase = "open" /\ phase' = "open"
        /\ covered' = c /\ AppliedTo = n
    BY <1>1, LogGrows DEF Logs, Typed, LogTyped, AppliedTo
  <1>3. /\ said'.hot = CASE r.op = "SetHot" -> Put(said.hot, r.row.key, r.row)
                         [] r.op = "DelHot" -> [k \in DOMAIN said.hot \ {r.row.key} |-> said.hot[k]]
                         [] OTHER -> said.hot
        /\ said'.lastHot = CASE r.op = "SetHot" -> {r.row.key}
                             [] r.op = "DelHot" -> said.lastHot \ {r.row.key}
                             [] OTHER -> said.lastHot
    BY SaidFields DEF Logs, Typed
  <1>4. HotApplied(r, mem[1].rows, mem'[1].rows) /\ disk'[1] = disk[1]
    BY CallTyped
  <1>5. said'.lastHot \subseteq DOMAIN said'.hot
    <2>1. said.lastHot \subseteq DOMAIN said.hot
      BY DEF LastThere
    <2>2. CASE r.op = "SetHot"
      <3>1. DOMAIN said'.hot = DOMAIN said.hot \cup {r.row.key}
        BY <1>3, <2>2 DEF Put
      <3> QED BY <1>3, <2>2, <3>1
    <2>3. CASE r.op = "DelHot"
      BY <1>3, <2>1, <2>3
    <2>4. CASE r.op \notin {"SetHot", "DelHot"}
      BY <1>3, <2>1, <2>4
    <2> QED BY <2>2, <2>3, <2>4
  <1>6. ASSUME NEW key, NEW j \in 0 .. n, SetAfter(key, j)
        PROVE  SetAfter(key, j)'
    <2>1. PICK i \in j + 1 .. n : wal[i].op = "SetHot" /\ wal[i].row.key = key
      BY <1>1, <1>6 DEF SetAfter
    <2>2. i \in j + 1 .. n + 1 /\ i \in 1 .. n
      BY <1>2
    <2>3. i \in j + 1 .. Len(wal') /\ wal'[i] = wal[i]
      BY <1>2, <2>2
    <2> QED BY <2>1, <2>3 DEF SetAfter
  <1>7. ASSUME r.op = "SetHot", NEW j \in 0 .. n
        PROVE  SetAfter(r.row.key, j)'
    <2>1. n + 1 \in j + 1 .. Len(wal')
      BY <1>2
    <2> QED BY <1>2, <1>7, <2>1 DEF SetAfter
  <1>8. ASSUME NEW i \in 1 .. n + 1, NEW key \in said'.lastHot, NEW w, w = wal'[i]
        PROVE  \/ SetAfter(key, i)'
               \/ w.op \notin {"SetHot", "DelHot"}
               \/ w.op = "SetHot" /\ w.row.key = key
               \/ w.op = "DelHot" /\ w.row.key # key
    <2>1. CASE i = n + 1
      BY <1>2, <1>3, <1>8, <2>1
    <2>2. CASE i # n + 1 /\ r.op = "SetHot"
      <3>1. i \in 0 .. n /\ key = r.row.key
        BY <1>2, <1>3, <2>2
      <3> QED BY <1>7, <2>2, <3>1
    <2>3. CASE i # n + 1 /\ r.op # "SetHot"
      <3>1. i \in 0 .. n /\ i \in 1 .. n /\ key \in said.lastHot
        BY <1>2, <1>3, <2>3
      <3>2. w = wal[i]
        BY <1>2, <1>8, <3>1
      <3>3. \/ SetAfter(key, i)
            \/ w.op \notin {"SetHot", "DelHot"}
            \/ w.op = "SetHot" /\ w.row.key = key
            \/ w.op = "DelHot" /\ w.row.key # key
        BY <1>1, <3>1, <3>2 DEF LastThere
      <3> QED BY <1>6, <3>1, <3>3
    <2> QED BY <2>1, <2>2, <2>3
  <1>9. LastOn(disk[1], covered)'
    <2> SUFFICES ASSUME NEW key \in said'.lastHot
                 PROVE  OnPage(disk'[1], key) \/ SetAfter(key, c)'
      BY <1>2 DEF LastOn, OnPage
    <2>1. CASE r.op = "SetHot"
      BY <1>2, <1>3, <1>7, <2>1
    <2>2. CASE r.op # "SetHot"
      <3>1. key \in said.lastHot
        BY <1>3, <2>2
      <3>2. OnPage(disk[1], key) \/ SetAfter(key, c)
        BY <1>1, <3>1 DEF LastThere, LastOn
      <3> QED BY <1>2, <1>4, <1>6, <3>2
    <2> QED BY <2>1, <2>2
  <1>10. LastOn(mem[1], AppliedTo)'
    <2> SUFFICES ASSUME NEW key \in said'.lastHot
                 PROVE  OnPage(mem'[1], key)
      BY DEF LastOn, OnPage
    <2>1. CASE r.op = "SetHot"
      <3>1. key = r.row.key
        BY <1>3, <2>1
      <3>2. \E k \in DOMAIN mem'[1].rows : mem'[1].rows[k] = r.row
        BY <1>4, <2>1 DEF HotApplied
      <3> QED BY <3>1, <3>2 DEF OnPage, ToSet
    <2>2. CASE r.op # "SetHot"
      <3>1. key \in said.lastHot /\ (r.op = "DelHot" => key # r.row.key)
        BY <1>3, <2>2
      <3>2. ~SetAfter(key, n)
        <4>1. n + 1 .. n = {}
          BY <1>2
        <4> QED BY <1>1, <4>1 DEF SetAfter
      <3>3. PICK row \in ToSet(mem[1].rows) : row.key = key
        BY <1>2, <3>1, <3>2 DEF LastThere, LastOn, OnPage
      <3>4. row \in ToSet(mem'[1].rows)
        BY <1>4, <2>2, <3>1, <3>3 DEF HotApplied
      <3> QED BY <3>3, <3>4 DEF OnPage
    <2> QED BY <2>1, <2>2
  <1> QED BY <1>2, <1>5, <1>8, <1>9, <1>10 DEF LastThere

LEMMA LastReplay ==
    ASSUME Typed, LastThere, Replay
    PROVE  LastThere'
  <1>1. PICK n, c, p : n = Len(wal) /\ c = covered /\ p = replayed
    OBVIOUS
  <1>2. /\ n \in Nat /\ c \in 0 .. n /\ p \in Nat /\ p + 1 \in 1 .. n
        /\ wal \in Seq(Logged) /\ phase = "replay" /\ phase' = "replay"
        /\ wal' = wal /\ said' = said /\ covered' = covered /\ replayed' = p + 1
        /\ disk'[1] = disk[1]
    BY <1>1, ReplayTyped DEF Typed, LogTyped, Replay
  <1>3. \A key, j : SetAfter(key, j) <=> SetAfter(key, j)'
    BY <1>2 DEF SetAfter
  <1>4. LastOn(mem[1], AppliedTo)'
    <2>1. CASE p < c
      <3>1. mem' = mem
        BY <1>1, <2>1, ReplayTyped DEF Skipped
      <3>2. AppliedTo = c /\ AppliedTo' = c
        BY <1>1, <1>2, <2>1 DEF AppliedTo
      <3>3. LastOn(mem[1], c)
        BY <1>2, <3>2 DEF LastThere
      <3> QED BY <1>2, <1>3, <3>1, <3>2, <3>3 DEF LastOn, OnPage
    <2>2. CASE ~(p < c)
      <3>1. PICK r : r = wal[p + 1] /\ r \in Logged /\ HotApplied(r, mem[1].rows, mem'[1].rows)
        BY <1>1, <2>2, ReplayTyped DEF Skipped
      <3>2. AppliedTo = p /\ AppliedTo' = p + 1
        BY <1>1, <1>2, <2>2 DEF AppliedTo
      <3>3. ASSUME NEW key \in said.lastHot
            PROVE  OnPage(mem'[1], key) \/ SetAfter(key, p + 1)
        <4>1. OnPage(mem[1], key) \/ SetAfter(key, p)
          BY <1>2, <3>2 DEF LastThere, LastOn
        <4>2. \/ SetAfter(key, p + 1)
              \/ r.op \notin {"SetHot", "DelHot"}
              \/ r.op = "SetHot" /\ r.row.key = key
              \/ r.op = "DelHot" /\ r.row.key # key
          BY <1>1, <1>2, <3>1 DEF LastThere
        <4>3. CASE r.op = "SetHot" /\ r.row.key = key
          <5>1. \E k \in DOMAIN mem'[1].rows : mem'[1].rows[k] = r.row
            BY <3>1, <4>3 DEF HotApplied
          <5> QED BY <4>3, <5>1 DEF OnPage, ToSet
        <4>4. CASE r.op # "SetHot" /\ (r.op = "DelHot" => r.row.key # key)
          <5>1. SetAfter(key, p) => SetAfter(key, p + 1)
            <6>1. \A i \in p + 1 .. n : i = p + 1 \/ i \in (p + 1) + 1 .. n
              BY <1>2
            <6> QED BY <1>1, <3>1, <4>4, <6>1 DEF SetAfter
          <5>2. ASSUME NEW row \in ToSet(mem[1].rows), row.key = key
                PROVE  row \in ToSet(mem'[1].rows)
            BY <3>1, <4>4, <5>2 DEF HotApplied
          <5> QED BY <4>1, <5>1, <5>2 DEF OnPage
        <4> QED BY <4>2, <4>3, <4>4
      <3> QED BY <1>2, <1>3, <3>2, <3>3 DEF LastOn, OnPage
    <2> QED BY <2>1, <2>2
  <1>5. LastOn(disk[1], covered)'
    BY <1>2, <1>3 DEF LastThere, LastOn, OnPage
  <1>6. ASSUME NEW i \in 1 .. Len(wal'), NEW key \in said'.lastHot
        PROVE  \/ SetAfter(key, i)'
               \/ wal'[i].op \notin {"SetHot", "DelHot"}
               \/ wal'[i].op = "SetHot" /\ wal'[i].row.key = key
               \/ wal'[i].op = "DelHot" /\ wal'[i].row.key # key
    BY <1>2, <1>3 DEF LastThere
  <1>7. said'.lastHot \subseteq DOMAIN said'.hot
    BY <1>2 DEF LastThere
  <1> QED BY <1>4, <1>5, <1>6, <1>7 DEF LastThere

LEMMA LastOther ==
    ASSUME Typed, Typed', LastThere, HotRest
    PROVE  LastThere'
  <1>1. PICK n, c, a : n = Len(wal) /\ c = covered /\ a = AppliedTo
    OBVIOUS
  <1>2. /\ n \in Nat /\ c \in Nat /\ a \in Nat /\ c <= a /\ a <= n /\ wal \in Seq(Logged)
        /\ phase # "replay" => a = n
        /\ phase = "persisted" => c = n
    BY <1>1, AppliedBounds DEF Typed, LogTyped
  <1>3. \A key : SetAfter(key, a) => SetAfter(key, c)
    BY <1>2, SetEarlier
  <1>4. /\ LastOn(disk[1], c)
        /\ phase # "closed" => LastOn(mem[1], a) /\ LastOn(mem[1], c)
    BY <1>1, <1>3 DEF LastThere, LastOn
  <1>5. ASSUME wal' = wal, said' = said,
               disk'[1] = disk[1] \/ (phase # "closed" /\ disk'[1] = mem[1]),
               covered' = c \/ (phase # "closed" /\ covered' = a /\ disk'[1] = mem[1]),
               \/ phase' = "closed"
               \/ phase # "closed" /\ mem' = mem /\ AppliedTo' = a
               \/ phase = "closed" /\ mem' = disk /\ AppliedTo' = c
        PROVE  LastThere'
    <2>1. \A key, j : SetAfter(key, j) <=> SetAfter(key, j)'
      BY <1>5 DEF SetAfter
    <2>2. LastOn(disk[1], covered)'
      BY <1>4, <1>5, <2>1 DEF LastOn, OnPage
    <2>3. phase' # "closed" => LastOn(mem[1], AppliedTo)'
      BY <1>4, <1>5, <2>1 DEF LastOn, OnPage
    <2>4. ASSUME NEW i \in 1 .. Len(wal'), NEW key \in said'.lastHot
          PROVE  \/ SetAfter(key, i)'
                 \/ wal'[i].op \notin {"SetHot", "DelHot"}
                 \/ wal'[i].op = "SetHot" /\ wal'[i].row.key = key
                 \/ wal'[i].op = "DelHot" /\ wal'[i].row.key # key
      BY <1>5, <2>1 DEF LastThere
    <2>5. said'.lastHot \subseteq DOMAIN said'.hot
      BY <1>5 DEF LastThere
    <2> QED BY <2>2, <2>3, <2>4, <2>5 DEF LastThere
  <1>6. CASE UNCHANGED <<wal, said, covered, disk, mem, phase, replayed>>
    BY <1>1, <1>5, <1>6 DEF AppliedTo
  <1>7. CASE /\ phase = "closed" /\ phase' = "replay" /\ mem' = disk
             /\ UNCHANGED <<disk, wal, said, covered, replayed>>
    <2>1. replayed' = 0
      BY <1>7 DEF Typed, LogTyped
    <2>2. AppliedTo' = c
      BY <1>1, <1>2, <1>7, <2>1 DEF AppliedTo
    <2> QED BY <1>1, <1>5, <1>7, <2>2
  <1>8. CASE /\ phase = "replay" /\ phase' = "open" /\ replayed = Len(wal)
             /\ UNCHANGED <<disk, wal, said, covered, mem>>
    <2>1. a = n /\ AppliedTo' = n
      BY <1>1, <1>2, <1>8 DEF AppliedTo
    <2> QED BY <1>1, <1>5, <1>8, <2>1
  <1>9. CASE /\ phase # "closed" /\ disk'[1] \in {disk[1], mem[1]}
             /\ UNCHANGED <<wal, said, covered, mem, phase, replayed>>
    BY <1>1, <1>5, <1>9 DEF AppliedTo
  <1>10. CASE /\ phase = "open" /\ phase' = "persisted" /\ disk' = mem /\ covered' = Len(wal)
              /\ UNCHANGED <<wal, said, mem>>
    <2>1. a = n /\ AppliedTo' = n
      BY <1>1, <1>2, <1>10 DEF AppliedTo
    <2> QED BY <1>1, <1>5, <1>10, <2>1
  <1>11. CASE /\ phase = "persisted" /\ wal' = <<>> /\ covered' = 0 /\ UNCHANGED <<disk, said>>
              /\ phase' = "closed" \/ (phase' = "open" /\ mem' = mem)
    <2>1. a = n /\ c = n /\ Len(wal') = 0 /\ (phase' = "open" => AppliedTo' = 0)
      BY <1>2, <1>11 DEF AppliedTo
    <2>2. \A key : ~SetAfter(key, n)
      <3>1. n + 1 .. n = {}
        BY <1>2
      <3> QED BY <1>1, <3>1 DEF SetAfter
    <2>3. LastOn(disk[1], covered)'
      BY <1>4, <1>11, <2>1, <2>2 DEF LastOn, OnPage
    <2>4. phase' # "closed" => LastOn(mem[1], AppliedTo)'
      BY <1>4, <1>11, <2>1, <2>2 DEF LastOn, OnPage
    <2>5. 1 .. Len(wal') = {}
      BY <2>1
    <2>6. said'.lastHot \subseteq DOMAIN said'.hot
      BY <1>11 DEF LastThere
    <2> QED BY <2>3, <2>4, <2>5, <2>6 DEF LastThere
  <1>12. CASE /\ phase # "closed" /\ phase' = "closed" /\ UNCHANGED <<wal, said, covered>>
              /\ disk' = disk \/ (phase = "open" /\ disk' = mem)
    BY <1>1, <1>5, <1>12
  <1> QED BY <1>6, <1>7, <1>8, <1>9, <1>10, <1>11, <1>12 DEF HotRest

\* hot_get finds a key that has a row.
LEMMA HotGetFinds ==
    ASSUME NEW pages, pages[1].rows \in Seq(HotRow), NEW key, NEW t \in Nat,
           OnPage(pages[1], key), HotGet(pages, key, t) = None
    PROVE  \E row \in ToSet(pages[1].rows) : row.key = key /\ row.exp \in 1 .. t
  <1> DEFINE rows == pages[1].rows
             at == {k \in DOMAIN rows : rows[k].key = key}
             found == rows[Min(at)]
  <1>1. None = IF at = {} \/ found.exp \in 1 .. t THEN None ELSE found
    BY RootFacts DEF HotGet
  <1>2. at \in SUBSET Nat /\ at # {}
    BY DEF OnPage, ToSet
  <1>3. Min(at) \in at
    <2> HIDE DEF at
    <2> QED BY <1>2, MinFacts
  <1>4. found \in ToSet(rows) /\ found.key = key
    BY <1>3 DEF ToSet
  <1> HIDE DEF found, at
  <1>5. found # None
    <2>1. found \in HotRow
      BY <1>4 DEF ToSet
    <2>2. found.v # 0
      BY <2>1 DEF HotRow
    <2>3. None.v = 0
      BY DEF None
    <2> QED BY <2>2, <2>3
  <1> QED BY <1>1, <1>2, <1>4, <1>5

LEMMA LastIsThere == Typed /\ HotCurrent /\ LastThere => LastHotIsKept
  <1> SUFFICES ASSUME Typed, HotCurrent, LastThere, Serving, NEW key \in said.lastHot,
                      HotGet(mem, key, now) = None
               PROVE  said.hot[key].exp \in 1 .. now
    BY DEF LastHotIsKept
  <1>1. /\ phase # "closed" /\ AppliedTo = Len(wal) /\ mem[1].rows \in Seq(HotRow)
        /\ now \in Nat /\ Len(wal) \in Nat
    <2>1. MaxNow \in Nat
      BY DomainsAssumption
    <2> QED BY <2>1, AppliedBounds DEF Serving, Typed, HotTyped, RestTyped
  <1>2. Len(wal) + 1 .. Len(wal) = {}
    BY <1>1
  <1>3. OnPage(mem[1], key)
    BY <1>1, <1>2 DEF LastThere, LastOn, SetAfter
  <1>4. PICK row \in ToSet(mem[1].rows) : row.key = key /\ row.exp \in 1 .. now
    BY <1>1, <1>3, HotGetFinds
  <1>5. IsSaid(row)
    BY <1>1, <1>2 DEF HotCurrent, AllCurrent, Current, Overtaken
  <1> QED BY <1>4, <1>5 DEF IsSaid

\* A full hot page forgets other keys to make room, but hot_get finds the key set last
\* until it expires or is deleted, also after crashes, evictions and replays.
THEOREM HotLastKept == Spec => []LastHotIsKept
  <1> DEFINE Inv == Typed /\ HotCurrent /\ LastThere
  <1>1. Init => Inv
    BY InitTyped, InitHot
  <1>2. Inv /\ [Next]_vars => Inv'
    BY TypedStep, StepKinds, HotCall, HotReplay, HotOther, LastCall, LastReplay, LastOther
  <1>3. Inv => LastHotIsKept
    BY LastIsThere
  <1> HIDE DEF Inv
  <1> QED BY <1>1, <1>2, <1>3, PTL DEF Spec

-----------------------------------------------------------------------------
(* From here on, the page chains, for every setup whose process does not    *)
(* die after it took pages from a freelist: chains stay apart from each     *)
(* other and from the freelist, jobs stay until they are acknowledged and   *)
(* no longer, and the last tuple of every bond is listed.                   *)

-----------------------------------------------------------------------------
(* Heaps whose chains are apart. *)

\* Links lead to pages of the same type, no two to the same page and none to the head of
\* the freelist, which is a free page.
Sound(pages) ==
    /\ pages[1].next = 0
    /\ \A d \in Domain : pages[Root[d]].ty = d
    /\ \A p, q \in DOMAIN pages \ {0} :
          pages[p].next = pages[q].next /\ pages[p].next # 0 => p = q
    /\ \A p \in DOMAIN pages \ {0} :
          pages[p].next # 0 => /\ pages[pages[p].next].ty = pages[p].ty
                               /\ pages[p].next # pages[0].at32
    /\ pages[0].at32 # 0 => pages[pages[0].at32].ty = "free"

\* The pages of a domain's chain
On(pages, d) == ToSet(Chain(pages, Root[d]))

LEMMA OnFacts ==
    ASSUME NEW n \in Nat, n >= ROOT_PAGES, NEW heap \in Heap(n), NEW d \in Domain
    PROVE  /\ Root[d] \in On(heap, d) /\ Last(Chain(heap, Root[d])) \in On(heap, d)
           /\ On(heap, d) \subseteq {Root[d]} \cup (ROOT_PAGES .. n - 1)
           /\ On(heap, d) \subseteq (0 .. n - 1) \ {0}
           /\ \A p \in On(heap, d) : heap[p].next \in On(heap, d) \cup {0}
  <1>1. Root[d] \in (0 .. n - 1) \ {0}
    BY RootFacts DEF ROOT_PAGES
  <1>2. Linked(heap) /\ DOMAIN heap = 0 .. n - 1
    BY HeapLinked
  <1>3. \A p \in On(heap, d) : heap[p].next \in On(heap, d) \cup {0}
    BY <1>1, <1>2, ChainReaches DEF On
  <1> QED BY <1>1, <1>3, ChainPages DEF On

\* A set with the root that is closed under next has the whole chain.
LEMMA OnLeast ==
    ASSUME NEW n \in Nat, n >= ROOT_PAGES, NEW heap \in Heap(n), NEW d \in Domain,
           NEW D, Root[d] \in D, \A p \in D : heap[p].next \in D \cup {0}
    PROVE  On(heap, d) \subseteq D
  <1>1. Root[d] \in (0 .. n - 1) \ {0}
    BY RootFacts DEF ROOT_PAGES
  <1>2. Linked(heap) /\ DOMAIN heap = 0 .. n - 1
    BY HeapLinked
  <1> QED BY <1>1, <1>2, ChainReaches DEF On

LEMMA OnTyped ==
    ASSUME NEW n \in Nat, n >= ROOT_PAGES, NEW heap \in Heap(n), Sound(heap), NEW d \in Domain
    PROVE  \A p \in On(heap, d) : heap[p].ty = d
  <1> DEFINE D == {p \in (0 .. n - 1) \ {0} : heap[p].ty = d}
  <1>1. Root[d] \in (0 .. n - 1) \ {0}
    BY RootFacts DEF ROOT_PAGES
  <1>2. DOMAIN heap = 0 .. n - 1 /\ \A p \in 0 .. n - 1 : heap[p].next \in Links(n)
    BY HeapLinked
  <1>3. \A p \in D : heap[p].next \in D \cup {0}
    <2> TAKE p \in D
    <2>1. CASE heap[p].next # 0
      <3>1. heap[p].next \in (0 .. n - 1) \ {0}
        BY <1>2, <2>1 DEF Links, ROOT_PAGES
      <3>2. heap[heap[p].next].ty = heap[p].ty
        BY <1>2, <2>1 DEF Sound
      <3> QED BY <3>1, <3>2
    <2> QED BY <2>1
  <1>4. Root[d] \in D
    BY <1>1 DEF Sound
  <1> HIDE DEF D
  <1>5. On(heap, d) \subseteq D
    BY <1>3, <1>4, OnLeast
  <1> QED BY <1>5 DEF D

\* A page of two chains would have both types.
LEMMA OnApart ==
    ASSUME NEW n \in Nat, n >= ROOT_PAGES, NEW heap \in Heap(n), Sound(heap),
           NEW d \in Domain, NEW e \in Domain, d # e
    PROVE  On(heap, d) \cap On(heap, e) = {}
  BY OnTyped

\* The last page has no successor: a page that it led back to would have another link to
\* it, or be the root.
LEMMA ChainEnds ==
    ASSUME NEW n \in Nat, n >= ROOT_PAGES, NEW heap \in Heap(n), Sound(heap), NEW d \in Domain
    PROVE  heap[Last(Chain(heap, Root[d]))].next = 0
  <1> DEFINE c == Chain(heap, Root[d])
             m == Len(c)
  <1> SUFFICES ASSUME heap[Last(c)].next # 0
               PROVE  FALSE
    OBVIOUS
  <1>1. Root[d] \in (0 .. n - 1) \ {0} /\ Root[d] \notin Links(n)
    BY RootFacts DEF Links, ROOT_PAGES
  <1>2. Linked(heap) /\ DOMAIN heap = 0 .. n - 1 /\ \A p \in 0 .. n - 1 : heap[p].next \in Links(n)
    BY HeapLinked
  <1>3. /\ WalkFrom(heap, Root[d], c)
        /\ NextOf(heap, c) \in ToSet(c) \cup {0}
    BY <1>1, <1>2, ChainFacts
  <1>4. On(heap, d) \subseteq (0 .. n - 1) \ {0} /\ Last(c) \in On(heap, d)
    BY OnFacts
  <1> HIDE DEF c
  <1>5. m \in Nat \ {0} /\ DOMAIN c = 1 .. m /\ Last(c) = c[m] /\ c[1] = Root[d]
    <2>1. c \in Seq(DOMAIN heap) /\ c # <<>>
      BY <1>3 DEF WalkFrom, Walks
    <2> QED BY <1>3, <2>1 DEF Last, WalkFrom
  <1>6. PICK j \in 1 .. m : c[j] = heap[c[m]].next
    BY <1>3, <1>5 DEF NextOf, ToSet
  <1>7. c[m] \in 0 .. n - 1 /\ c[m] # 0
    BY <1>4, <1>5
  <1>8. j # 1
    BY <1>1, <1>2, <1>5, <1>6, <1>7
  <1> HIDE DEF m
  <1>9. j - 1 \in 1 .. m - 1 /\ j - 1 \in 1 .. m /\ (j - 1) + 1 = j
    BY <1>5, <1>6, <1>8
  <1>10. heap[c[j - 1]].next = heap[c[m]].next
    BY <1>3, <1>6, <1>9 DEF WalkFrom, m
  <1>11. c[j - 1] \in (0 .. n - 1) \ {0}
    <2>1. c[j - 1] \in On(heap, d)
      BY <1>5, <1>9 DEF On, ToSet, c
    <2> QED BY <1>4, <2>1
  <1>12. c[j - 1] = c[m]
    BY <1>2, <1>5, <1>7, <1>10, <1>11 DEF Sound
  <1>13. m \in 1 .. m
    BY <1>5
  <1>14. j - 1 = m
    BY <1>3, <1>5, <1>9, <1>12, <1>13 DEF WalkFrom
  <1> QED BY <1>5, <1>6, <1>14

\* The freelist has free pages only.
LEMMA FreeApart ==
    ASSUME NEW n \in Nat, n >= ROOT_PAGES, NEW heap \in Heap(n), Sound(heap), NEW d \in Domain
    PROVE  On(heap, d) \cap ToSet(Chain(heap, heap[0].at32)) = {}
  <1> DEFINE head == heap[0].at32
             D == {p \in (0 .. n - 1) \ {0} : heap[p].ty = "free"}
  <1>1. /\ DOMAIN heap = 0 .. n - 1 /\ Linked(heap) /\ head \in Links(n)
        /\ \A p \in 0 .. n - 1 : heap[p].next \in Links(n)
    BY HeapLinked DEF ROOT_PAGES
  <1>2. CASE head = 0
    <2>1. ToSet(Chain(heap, head)) = {}
      BY <1>2 DEF Chain, ToSet
    <2> QED BY <2>1
  <1>3. CASE head # 0
    <2>1. head \in D
      BY <1>1, <1>3 DEF Sound, Links, ROOT_PAGES
    <2>2. \A p \in D : heap[p].next \in D \cup {0}
      <3> TAKE p \in D
      <3>1. CASE heap[p].next # 0
        <4>1. heap[p].next \in (0 .. n - 1) \ {0}
          BY <1>1, <3>1 DEF Links, ROOT_PAGES
        <4>2. heap[heap[p].next].ty = heap[p].ty
          BY <1>1, <3>1 DEF Sound
        <4> QED BY <4>1, <4>2
      <3> QED BY <3>1
    <2>3. head \in DOMAIN heap
      BY <1>1, <2>1
    <2> HIDE DEF D, head
    <2>4. ToSet(Chain(heap, head)) \subseteq D
      BY <1>1, <1>3, <2>1, <2>2, <2>3, ChainReaches
    <2>5. \A p \in On(heap, d) : heap[p].ty = d
      BY OnTyped
    <2>6. d # "free"
      BY DEF Domain
    <2> QED BY <2>4, <2>5, <2>6 DEF D, head
  <1> QED BY <1>2, <1>3

-----------------------------------------------------------------------------
(* What changes of pages do to chains. *)

SameShape(n, h, g) ==
    /\ \A p \in 0 .. n - 1 : g[p].next = h[p].next /\ g[p].ty = h[p].ty
    /\ g[0].at32 = h[0].at32

LEMMA ShapeKept ==
    ASSUME NEW n \in Nat, n >= ROOT_PAGES, NEW h \in Heap(n), NEW g \in Heap(n),
           Sound(h), SameShape(n, h, g)
    PROVE  Sound(g) /\ \A d \in Domain : On(g, d) = On(h, d)
  <1>1. /\ DOMAIN h = 0 .. n - 1 /\ DOMAIN g = 0 .. n - 1 /\ 1 \in 0 .. n - 1
        /\ \A d \in Domain : Root[d] \in 0 .. n - 1
        /\ \A p \in 0 .. n - 1 : h[p].next \in 0 .. n - 1 /\ h[p].at32 \in 0 .. n - 1
        /\ 0 \in 0 .. n - 1
    <2>1. /\ DOMAIN h = 0 .. n - 1 /\ DOMAIN g = 0 .. n - 1
          /\ \A p \in 0 .. n - 1 : h[p].next \in Links(n) /\ h[p].at32 \in Links(n)
      BY HeapLinked
    <2>2. Links(n) \subseteq 0 .. n - 1 /\ \A k \in 0 .. ROOT_PAGES - 1 : k \in 0 .. n - 1
      BY DEF Links, ROOT_PAGES
    <2>3. \A d \in Domain : Root[d] \in 0 .. ROOT_PAGES - 1
      BY RootFacts DEF ROOT_PAGES
    <2>4. 0 \in 0 .. ROOT_PAGES - 1 /\ 1 \in 0 .. ROOT_PAGES - 1
      BY DEF ROOT_PAGES
    <2> QED BY <2>1, <2>2, <2>3, <2>4
  <1>2. Sound(g)
    <2>1. g[1].next = 0 /\ \A d \in Domain : g[Root[d]].ty = d
      BY <1>1 DEF Sound, SameShape
    <2>2. \A p, q \in DOMAIN g \ {0} : g[p].next = g[q].next /\ g[p].next # 0 => p = q
      BY <1>1 DEF Sound, SameShape
    <2>3. ASSUME NEW p \in DOMAIN g \ {0}, g[p].next # 0
          PROVE  g[g[p].next].ty = g[p].ty /\ g[p].next # g[0].at32
      <3>1. g[p].next = h[p].next /\ h[p].next \in 0 .. n - 1
        BY <1>1 DEF SameShape
      <3>2. h[h[p].next].ty = h[p].ty /\ h[p].next # h[0].at32
        BY <1>1, <2>3, <3>1 DEF Sound
      <3> QED BY <1>1, <3>1, <3>2 DEF SameShape
    <2>4. g[0].at32 # 0 => g[g[0].at32].ty = "free"
      BY <1>1 DEF Sound, SameShape
    <2> QED BY <2>1, <2>2, <2>3, <2>4 DEF Sound
  <1>3. ASSUME NEW d \in Domain
        PROVE  On(g, d) = On(h, d)
    <2>1. \A p \in On(h, d) : g[p].next \in On(h, d) \cup {0}
      BY OnFacts DEF SameShape
    <2>2. On(g, d) \subseteq On(h, d)
      BY <2>1, OnFacts, OnLeast
    <2>3. \A p \in On(g, d) : h[p].next \in On(g, d) \cup {0}
      BY OnFacts DEF SameShape
    <2>4. On(h, d) \subseteq On(g, d)
      BY <2>3, OnFacts, OnLeast
    <2> QED BY <2>2, <2>4
  <1> QED BY <1>2, <1>3

\* A page that nothing leads to, linked behind the last page of a chain
LinkedBehind(n, n2, h, g, d, last, a) ==
    /\ a \in ROOT_PAGES .. n2 - 1 /\ 0 .. n2 - 1 = (0 .. n - 1) \cup {a}
    /\ last \in On(h, d) /\ h[last].next = 0
    /\ \A p \in (0 .. n - 1) \ {0} : h[p].next # a
    /\ \A e \in Domain : a \notin On(h, e)
    /\ g[last].next = a /\ g[last].ty = h[last].ty
    /\ g[a].next = 0 /\ g[a].ty = d
    /\ \A p \in 0 .. n - 1 : p \notin {0, last, a} => g[p] = h[p]
    /\ g[0].at32 # 0 => /\ g[0].at32 \in ROOT_PAGES .. n - 1 /\ g[0].at32 # a
                        /\ h[g[0].at32].ty = "free"
                        /\ \A p \in (0 .. n - 1) \ {0, a} : h[p].next # g[0].at32

LEMMA LinkKept ==
    ASSUME NEW n \in Nat, n >= ROOT_PAGES, NEW n2 \in Nat, n2 >= n,
           NEW h \in Heap(n), NEW g \in Heap(n2),
           Sound(h), NEW d \in Domain \ {"hot"}, NEW last, NEW a, LinkedBehind(n, n2, h, g, d, last, a)
    PROVE  /\ Sound(g) /\ last # a
           /\ On(g, d) = On(h, d) \cup {a}
           /\ \A e \in Domain \ {d} : On(g, e) = On(h, e) /\ \A p \in On(h, e) : p # last /\ p # a
  <1> USE DEF LinkedBehind
  <1>0. d \in Domain /\ n2 >= ROOT_PAGES
    BY DEF ROOT_PAGES
  <1>1. /\ DOMAIN h = 0 .. n - 1 /\ DOMAIN g = 0 .. n2 - 1
        /\ \A p \in 0 .. n - 1 : h[p].next \in {0} \cup (ROOT_PAGES .. n - 1)
    BY <1>0, HeapLinked DEF Links
  <1>2. /\ last \in (0 .. n - 1) \ {0} /\ last # a /\ a # 0 /\ h[last].ty = d
        /\ last \in {Root[d]} \cup (ROOT_PAGES .. n - 1)
    BY <1>0, OnFacts, OnTyped DEF ROOT_PAGES
  <1>3. \A p \in (0 .. n - 1) \ {0} : /\ p # last /\ p # a => g[p] = h[p]
                                      /\ p # a => g[p].ty = h[p].ty
    BY <1>2
  <1>4. \A e \in Domain : Root[e] \in 1 .. ROOT_PAGES - 1 /\ Root[e] \in (0 .. n - 1) \ {0} /\ Root[e] # a
    BY RootFacts DEF ROOT_PAGES
  <1>5. 1 \in (0 .. n - 1) \ {0} /\ 1 # a /\ 1 # last
    <2>1. Root[d] # 1
      BY RootFacts
    <2> QED BY <1>2, <2>1 DEF ROOT_PAGES
  <1>6. \A p \in (0 .. n2 - 1) \ {0} : p = a \/ p \in (0 .. n - 1) \ {0}
    OBVIOUS
  <1>7. ASSUME NEW p \in (0 .. n2 - 1) \ {0}, g[p].next # 0
        PROVE  /\ p # a
               /\ \/ p = last /\ g[p].next = a
                  \/ p # last /\ g[p].next = h[p].next /\ g[p].next # a
                     /\ g[p].next \in ROOT_PAGES .. n - 1
    <2>1. p # a /\ p \in (0 .. n - 1) \ {0}
      BY <1>6, <1>7
    <2>2. CASE p = last
      BY <2>1, <2>2
    <2>3. CASE p # last
      <3>1. g[p] = h[p] /\ p \in 0 .. n - 1
        BY <1>3, <2>1, <2>3
      <3>2. h[p].next # a
        BY <2>1
      <3>3. h[p].next \in {0} \cup (ROOT_PAGES .. n - 1)
        BY <1>1, <3>1
      <3> QED BY <1>7, <2>1, <2>3, <3>1, <3>2, <3>3
    <2> QED BY <2>1, <2>2, <2>3
  <1>8. Sound(g)
    <2>1. g[1].next = 0
      BY <1>3, <1>5 DEF Sound
    <2>2. \A e \in Domain : g[Root[e]].ty = e
      BY <1>3, <1>4 DEF Sound
    <2>3. ASSUME NEW p \in DOMAIN g \ {0}, NEW q \in DOMAIN g \ {0},
                 g[p].next = g[q].next, g[p].next # 0
          PROVE  p = q
      <3>1. CASE p = last
        BY <1>1, <1>7, <2>3, <3>1
      <3>2. CASE p # last
        <4>1. g[p].next = h[p].next /\ g[p].next # a /\ p \in (0 .. n - 1) \ {0}
          BY <1>1, <1>6, <1>7, <2>3, <3>2
        <4>2. g[q].next = h[q].next /\ q \in (0 .. n - 1) \ {0}
          BY <1>1, <1>6, <1>7, <2>3, <4>1
        <4>3. \A x, y \in (0 .. n - 1) \ {0} :
                 h[x].next = h[y].next /\ h[x].next # 0 => x = y
          BY <1>1 DEF Sound
        <4> QED BY <2>3, <4>1, <4>2, <4>3
      <3> QED BY <3>1, <3>2
    <2>4. ASSUME NEW p \in DOMAIN g \ {0}, g[p].next # 0
          PROVE  g[g[p].next].ty = g[p].ty /\ g[p].next # g[0].at32
      <3>1. CASE p = last
        <4>1. g[p].next = a
          BY <1>1, <1>7, <2>4, <3>1
        <4> QED BY <1>2, <3>1, <4>1
      <3>2. CASE p # last
        <4> DEFINE q == h[p].next
        <4>1. g[p].next = q /\ p # a /\ p \in (0 .. n - 1) \ {0} /\ q # 0 /\ q # a
              /\ q \in ROOT_PAGES .. n - 1
          BY <1>1, <1>6, <1>7, <2>4, <3>2
        <4>2. q \in (0 .. n - 1) \ {0} /\ h[q].ty = h[p].ty
          BY <1>1, <4>1 DEF Sound, ROOT_PAGES
        <4>3. g[q].ty = h[q].ty /\ g[p].ty = h[p].ty
          BY <1>3, <4>1, <4>2
        <4>4. q # g[0].at32
          BY <4>1
        <4> QED BY <4>1, <4>2, <4>3, <4>4
      <3> QED BY <3>1, <3>2
    <2>5. ASSUME g[0].at32 # 0
          PROVE  g[g[0].at32].ty = "free"
      <3> DEFINE x == g[0].at32
      <3>1. x \in (0 .. n - 1) \ {0} /\ x # a /\ h[x].ty = "free"
        BY <2>5 DEF ROOT_PAGES
      <3> HIDE DEF x
      <3> QED BY <1>3, <3>1 DEF x
    <2> QED BY <2>1, <2>2, <2>3, <2>4, <2>5 DEF Sound
  <1>9. On(g, d) = On(h, d) \cup {a}
    <2>1. \A p \in On(h, d) \cup {a} : g[p].next \in (On(h, d) \cup {a}) \cup {0}
      <3> TAKE p \in On(h, d) \cup {a}
      <3>1. CASE p \in On(h, d) /\ p # last
        <4>1. p \in (0 .. n - 1) \ {0} /\ p # a /\ h[p].next \in On(h, d) \cup {0}
          BY <1>0, <3>1, OnFacts
        <4> QED BY <1>3, <3>1, <4>1
      <3> QED BY <3>1
    <2>2. On(g, d) \subseteq On(h, d) \cup {a}
      <3> DEFINE D == On(h, d) \cup {a}
      <3>1. Root[d] \in D /\ \A p \in D : g[p].next \in D \cup {0}
        BY <1>0, <2>1, OnFacts
      <3> HIDE DEF D
      <3>2. On(g, d) \subseteq D
        BY <1>0, <3>1, OnLeast
      <3> QED BY <3>2 DEF D
    <2>3. On(h, d) \subseteq On(g, d)
      <3> DEFINE D == On(g, d) \ {a}
      <3>1. Root[d] \in D
        BY <1>0, <1>4, OnFacts
      <3>2. \A p \in D : h[p].next \in D \cup {0}
        <4> TAKE p \in D
        <4>1. p \in On(h, d) /\ p \in (0 .. n - 1) \ {0} /\ g[p].next \in On(g, d) \cup {0}
          BY <1>0, <2>2, OnFacts
        <4>2. CASE p = last
          BY <4>2
        <4>3. CASE p # last
          BY <1>3, <4>1, <4>3
        <4> QED BY <4>2, <4>3
      <3> HIDE DEF D
      <3>3. On(h, d) \subseteq D
        BY <1>0, <3>1, <3>2, OnLeast
      <3> QED BY <3>3 DEF D
    <2>4. a \in On(g, d)
      <3>1. last \in On(g, d)
        BY <2>3
      <3>2. g[last].next \in On(g, d) \cup {0}
        BY <1>0, <3>1, OnFacts
      <3> QED BY <1>2, <3>2
    <2> QED BY <2>2, <2>3, <2>4
  <1>10. ASSUME NEW e \in Domain \ {d}
         PROVE  On(g, e) = On(h, e) /\ \A p \in On(h, e) : p # last /\ p # a
    <2>1. e \in Domain
      OBVIOUS
    <2>2. \A p \in On(h, e) : p \in (0 .. n - 1) \ {0} /\ p # last /\ p # a
      <3>1. \A p \in On(h, e) : h[p].ty = e /\ p \in (0 .. n - 1) \ {0} /\ p # a
        BY <2>1, OnTyped, OnFacts
      <3> QED BY <1>2, <3>1
    <2>3. \A p \in On(h, e) : g[p].next = h[p].next
      BY <1>3, <2>2
    <2>4. \A p \in On(h, e) : g[p].next \in On(h, e) \cup {0}
      BY <2>1, <2>3, OnFacts
    <2>5. On(g, e) \subseteq On(h, e)
      BY <1>0, <2>1, <2>4, OnFacts, OnLeast
    <2>6. \A p \in On(g, e) : h[p].next \in On(g, e) \cup {0}
      BY <1>0, <2>1, <2>3, <2>5, OnFacts
    <2>7. On(h, e) \subseteq On(g, e)
      BY <1>0, <2>1, <2>6, OnFacts, OnLeast
    <2> QED BY <2>2, <2>5, <2>7
  <1> QED BY <1>2, <1>8, <1>9, <1>10

-----------------------------------------------------------------------------
(* What calls and replay do to chains. *)

Chained == {"impulse", "bond", "recall"}

Untouched(h, g, d) ==
    /\ On(g, d) = On(h, d)
    /\ \A p \in On(h, d) : g[p].rows = h[p].rows

\* Only one page is written, an old one or the new one.
AddedTo(h, g, d, row, a) ==
    /\ a \in On(g, d) /\ On(g, d) \subseteq On(h, d) \cup {a}
    /\ g[a].rows = Append(IF a \in On(h, d) THEN h[a].rows ELSE <<>>, row)
    /\ \A p \in On(h, d) : p # a => g[p].rows = h[p].rows

Added(h, g, d, row) ==
    /\ On(h, d) \subseteq On(g, d)
    /\ \A p \in On(h, d) : /\ ToSet(h[p].rows) \subseteq ToSet(g[p].rows)
                           /\ ToSet(g[p].rows) \subseteq ToSet(h[p].rows) \cup {row}
    /\ \A p \in On(g, d) \ On(h, d) : ToSet(g[p].rows) \subseteq {row}
    /\ \E p \in On(g, d) : row \in ToSet(g[p].rows)
    /\ \E a \in On(g, d) : AddedTo(h, g, d, row, a)

Removed(h, g, id) ==
    /\ On(g, "impulse") = On(h, "impulse")
    /\ \A p \in On(h, "impulse") : g[p].rows = Others(h[p].rows, "id", id)
    /\ \A p \in On(h, "impulse") : ToSet(g[p].rows) = {x \in ToSet(h[p].rows) : x.id # id}

\* The new page that extends a heap whose freelist is empty, if there is one
Extended(n, n2, s, t) ==
    /\ t.mem[0].at32 = 0
    /\ \A p \in 0 .. n - 1 : /\ t.mem[p].ty = s.mem[p].ty
                             /\ s.mem[p].next \in {0, t.mem[p].next}
    /\ \A p \in 0 .. n2 - 1 : p = n => t.disk[p] = Alloc(t.mem[p].ty)
    /\ \A d \in Domain : On(t.mem, d) \subseteq On(s.mem, d) \cup {n}

\* A step that keeps the heap sound
Sane(n, n2, s, t) ==
    /\ t \in Store(n2) /\ Sound(t.mem)
    /\ \A p \in 0 .. n - 1 : t.disk[p] = s.disk[p]
    /\ s.mem[0].at32 = 0 => Extended(n, n2, s, t)

LEMMA FilledFields ==
    ASSUME NEW n \in Nat, NEW page \in PageSet(n), NEW ty \in Domain, page.ty = ty,
           NEW row \in Row
    PROVE  /\ Filled(page, ty, row).ty = page.ty /\ Filled(page, ty, row).next = page.next
           /\ Filled(page, ty, row).rows = Append(page.rows, row)
  BY DEF Filled, Insert, PageSet

LEMMA InsertedRoom ==
    ASSUME NEW n \in Nat, n >= ROOT_PAGES, NEW s \in Store(n), Sound(s.mem),
           NEW ty \in Domain \ {"hot"}, NEW row \in Row,
           Roomy(s.mem, Chain(s.mem, Root[ty])) # {}
    PROVE  LET t == ChainInsert(s, ty, row)
           IN  /\ Sane(n, n, s, t) /\ Added(s.mem, t.mem, ty, row)
               /\ \A e \in Domain \ {ty} : Untouched(s.mem, t.mem, e)
  <1> DEFINE t == ChainInsert(s, ty, row)
             h == s.mem
             g == t.mem
  <1>0. ty \in Domain /\ ty # "free" /\ h \in Heap(n)
    BY DEF Domain, Store
  <1>1. /\ t \in Store(n) /\ t.disk = s.disk
        /\ \E p \in ToSet(Chain(s.mem, Root[ty])) :
              /\ p \in (0 .. n - 1) \ {0}
              /\ HasRoom(s.mem[p]) /\ t.mem[p] = Filled(s.mem[p], ty, row)
              /\ \A q \in (0 .. n - 1) \ {p} : t.mem[q] = s.mem[q]
    BY <1>0, InsertInRoom
  <1> HIDE DEF t
  <1>2. PICK p \in On(h, ty) :
              /\ p \in (0 .. n - 1) \ {0}
              /\ HasRoom(h[p]) /\ g[p] = Filled(h[p], ty, row)
              /\ \A q \in (0 .. n - 1) \ {p} : g[q] = h[q]
    BY <1>1 DEF On
  <1>3. h[p] \in PageSet(n) /\ h[p].ty = ty /\ g \in Heap(n) /\ t.mem \in Heap(n)
    BY <1>0, <1>1, <1>2, HeapLinked, OnTyped DEF Store
  <1> HIDE DEF h, g
  <1>5. /\ g[p].ty = h[p].ty /\ g[p].next = h[p].next /\ g[p].rows = Append(h[p].rows, row)
    <2>1. ty \in Domain /\ h[p] \in PageSet(n) /\ h[p].ty = ty /\ row \in Row
      BY <1>0, <1>3
    <2>2. /\ Filled(h[p], ty, row).ty = h[p].ty /\ Filled(h[p], ty, row).next = h[p].next
          /\ Filled(h[p], ty, row).rows = Append(h[p].rows, row)
      BY <2>1, FilledFields
    <2> QED BY <1>2, <2>2
  <1>6. SameShape(n, h, g)
    <2>1. 0 \in 0 .. n - 1
      BY DEF ROOT_PAGES
    <2> QED BY <1>2, <1>5, <2>1 DEF SameShape
  <1>7. Sound(g) /\ \A d \in Domain : On(g, d) = On(h, d)
    BY <1>0, <1>3, <1>6, ShapeKept DEF h
  <1>8. ToSet(g[p].rows) = ToSet(h[p].rows) \cup {row}
    <2>1. h[p].rows \in Seq(Row)
      BY <1>3 DEF PageSet
    <2> QED BY <1>5, <2>1, ToSetAppend
  <1>9. \A d \in Domain : On(h, d) \subseteq 0 .. n - 1
    BY <1>0, OnFacts
  <1>10. Added(h, g, ty, row)
    <2>1. \A q \in On(h, ty) : q # p => g[q] = h[q]
      BY <1>0, <1>2, <1>9
    <2>2. AddedTo(h, g, ty, row, p)
      BY <1>0, <1>2, <1>5, <1>7, <2>1 DEF AddedTo
    <2> QED BY <1>0, <1>2, <1>7, <1>8, <2>1, <2>2 DEF Added
  <1>11. ASSUME NEW e \in Domain \ {ty}
         PROVE  Untouched(h, g, e)
    <2>1. On(h, ty) \cap On(h, e) = {}
      BY <1>0, OnApart DEF h
    <2>2. \A q \in On(h, e) : g[q] = h[q]
      BY <1>2, <1>9, <2>1
    <2> QED BY <1>7, <2>2 DEF Untouched
  <1>12. Sane(n, n, s, t)
    <2>1. \A q \in 0 .. n - 1 : q # n
      OBVIOUS
    <2>2. s.mem[0].at32 = 0 => Extended(n, n, s, t)
      BY <1>6, <1>7, <2>1 DEF Extended, SameShape, g, h
    <2> QED BY <1>1, <1>7, <2>2 DEF Sane, g
  <1> QED BY <1>10, <1>11, <1>12 DEF t, g, h

\* The page that insert_into_chain links, wherever alloc_page took it from
LEMMA InsertedLink ==
    ASSUME NEW n \in Nat, n >= ROOT_PAGES, NEW s \in Store(n), Sound(s.mem),
           NEW ty \in Domain \ {"hot"}, NEW row \in Row, NEW n2 \in {n, n + 1}, NEW t, NEW a,
           t \in Store(n2), t.mem[a] = Insert(Alloc(ty), row),
           LinkedBehind(n, n2, s.mem, t.mem, ty, Last(Chain(s.mem, Root[ty])), a),
           t.mem[Last(Chain(s.mem, Root[ty]))] = LinkedTo(s.mem[Last(Chain(s.mem, Root[ty]))], a),
           \A p \in 0 .. n - 1 : t.disk[p] = s.disk[p],
           s.mem[0].at32 = 0 => a = n /\ t.mem[0].at32 = 0 /\ t.disk[n] = Alloc(ty) /\ t.mem[0].ty = s.mem[0].ty
                                /\ s.mem[0].next \in {0, t.mem[0].next}
    PROVE  /\ Sane(n, n2, s, t) /\ Added(s.mem, t.mem, ty, row)
           /\ \A e \in Domain \ {ty} : Untouched(s.mem, t.mem, e)
  <1> DEFINE h == s.mem
             g == t.mem
             last == Last(Chain(h, Root[ty]))
  <1>0. ty \in Domain /\ h \in Heap(n) /\ g \in Heap(n2) /\ n2 \in Nat /\ n2 >= n /\ n2 >= ROOT_PAGES
    BY DEF Store, ROOT_PAGES
  <1>1. LinkedBehind(n, n2, h, g, ty, last, a) /\ g[last] = LinkedTo(h[last], a)
    OBVIOUS
  <1>2. g[a] = Insert(Alloc(ty), row) /\ Sound(h)
    OBVIOUS
  <1>3. last \in (0 .. n - 1) \ {0} /\ last \in On(h, ty)
    BY <1>0, OnFacts
  <1> HIDE DEF h, g, last
  <1>4. /\ Sound(g) /\ last # a
        /\ On(g, ty) = On(h, ty) \cup {a}
        /\ \A e \in Domain \ {ty} : On(g, e) = On(h, e) /\ \A p \in On(h, e) : p # last /\ p # a
    BY <1>0, <1>1, <1>2, LinkKept
  <1>5. /\ g[last].rows = h[last].rows /\ ToSet(g[a].rows) = {row} /\ g[a].ty = ty
        /\ g[last].ty = h[last].ty
    <2>1. h[last] \in PageSet(n)
      BY <1>0, <1>3, HeapLinked
    <2>2. g[last].rows = h[last].rows /\ g[last].ty = h[last].ty
      BY <1>1, <2>1 DEF LinkedTo, PageSet
    <2>3. g[a].rows = <<row>> /\ g[a].ty = ty
      BY <1>2 DEF Insert, Alloc
    <2>4. ToSet(<<row>>) = {row}
      BY DEF ToSet
    <2> QED BY <2>2, <2>3, <2>4
  <1>6. \A p \in 0 .. n - 1 : p \notin {0, last, a} => g[p] = h[p]
    BY <1>1 DEF LinkedBehind
  <1>7. \A d \in Domain : On(h, d) \subseteq (0 .. n - 1) \ {0} /\ a \notin On(h, d)
    BY <1>0, <1>1, OnFacts DEF LinkedBehind
  <1>8. Added(h, g, ty, row)
    <2>1. \A p \in On(h, ty) : g[p].rows = h[p].rows
      BY <1>0, <1>5, <1>6, <1>7
    <2>2. g[a].rows = Append(<<>>, row)
      BY <1>2 DEF Insert, Alloc
    <2>3. AddedTo(h, g, ty, row, a)
      BY <1>0, <1>4, <1>7, <2>1, <2>2 DEF AddedTo
    <2> QED BY <1>4, <1>5, <2>1, <2>3 DEF Added
  <1>9. ASSUME NEW e \in Domain \ {ty}
        PROVE  Untouched(h, g, e)
    <2>1. \A p \in On(h, e) : g[p] = h[p]
      BY <1>4, <1>6, <1>7
    <2> QED BY <1>4, <2>1 DEF Untouched
  <1>10. ASSUME h[0].at32 = 0
         PROVE  Extended(n, n2, s, t)
    <2>1. a = n /\ g[0].at32 = 0 /\ t.disk[n] = Alloc(ty) /\ g[0].ty = h[0].ty
          /\ h[0].next \in {0, g[0].next}
      BY <1>10 DEF g, h
    <2>2. \A p \in 0 .. n - 1 : p # n
      OBVIOUS
    <2>3. ASSUME NEW p \in 0 .. n - 1
          PROVE  g[p].ty = h[p].ty /\ h[p].next \in {0, g[p].next}
      <3>1. CASE p = last
        BY <1>1, <1>5, <3>1 DEF LinkedBehind
      <3>2. CASE p # last
        BY <1>6, <2>1, <2>2, <3>2
      <3> QED BY <3>1, <3>2
    <2>4. t.disk[n] = Alloc(g[n].ty)
      BY <1>5, <2>1
    <2>5. ASSUME NEW d \in Domain
          PROVE  On(g, d) \subseteq On(h, d) \cup {n}
      <3>1. CASE d = ty
        BY <1>4, <2>1, <3>1
      <3>2. CASE d # ty
        <4>1. On(g, d) = On(h, d)
          BY <1>4, <3>2
        <4> QED BY <4>1
      <3> QED BY <3>1, <3>2
    <2> QED BY <2>1, <2>3, <2>4, <2>5 DEF Extended, g, h
  <1>11. Sane(n, n2, s, t)
    <2>1. Sound(t.mem)
      BY <1>4 DEF g
    <2>2. s.mem[0].at32 = 0 => Extended(n, n2, s, t)
      BY <1>10 DEF h
    <2> QED BY <2>1, <2>2 DEF Sane
  <1> QED BY <1>8, <1>9, <1>11 DEF g, h

\* What insert_into_chain does
Inserted(n, n2, s, t, ty, row) ==
    /\ Sane(n, n2, s, t) /\ Added(s.mem, t.mem, ty, row)
    /\ \A e \in Domain \ {ty} : Untouched(s.mem, t.mem, e)

LEMMA LinkFields ==
    ASSUME NEW n \in Nat, NEW page \in PageSet(n), NEW id
    PROVE  LinkedTo(page, id).next = id /\ LinkedTo(page, id).ty = page.ty
  BY DEF LinkedTo, PageSet

LEMMA HeadFields ==
    ASSUME NEW n \in Nat, NEW page \in PageSet(n), NEW id
    PROVE  Heading(page, id).at32 = id /\ Heading(page, id).ty = page.ty
           /\ Heading(page, id).next = page.next
  BY DEF Heading, PageSet

LEMMA NewFields ==
    ASSUME NEW ty, NEW row
    PROVE  Insert(Alloc(ty), row).next = 0 /\ Insert(Alloc(ty), row).ty = ty
  BY DEF Insert, Alloc

LEMMA InsertedFresh ==
    ASSUME NEW n \in Nat, n >= ROOT_PAGES, NEW s \in Store(n), Sound(s.mem),
           NEW ty \in Domain \ {"hot"}, NEW row \in Row,
           Roomy(s.mem, Chain(s.mem, Root[ty])) = {}, FreelistHead(s) = 0
    PROVE  Inserted(n, n + 1, s, ChainInsert(s, ty, row), ty, row)
  <1> DEFINE t == ChainInsert(s, ty, row)
             a == AllocPage(s, ty)
             h == s.mem
             g == t.mem
             last == Last(Chain(h, Root[ty]))
             n2 == n + 1
  <1>0. ty \in Domain /\ h \in Heap(n) /\ n2 \in {n, n + 1} /\ n \in ROOT_PAGES .. n2 - 1
        /\ 0 .. n2 - 1 = (0 .. n - 1) \cup {n}
    BY DEF Store, ROOT_PAGES
  <1>1. /\ a.id = n /\ a.s \in Store(n2)
        /\ \A p \in 0 .. n - 1 : a.s.mem[p] = s.mem[p] /\ a.s.disk[p] = s.disk[p]
        /\ a.s.mem[n] = Alloc(ty) /\ a.s.disk[n] = Alloc(ty)
    BY <1>0, AllocFresh
  <1>2. last \in On(h, ty) /\ last \in (0 .. n - 1) \ {0} /\ last # n
    BY <1>0, OnFacts
  <1> HIDE DEF n2
  <1>3. /\ t \in Store(n2) /\ t.disk = a.s.disk
        /\ last # a.id => /\ t.mem[last] = LinkedTo(a.s.mem[last], a.id)
                          /\ t.mem[a.id] = Insert(Alloc(ty), row)
        /\ \A q \in 0 .. n2 - 1 : q # last /\ q # a.id => t.mem[q] = a.s.mem[q]
    BY <1>0, <1>1, InsertLinks
  <1> HIDE DEF a, t, last, g
  <1>4. /\ g[last] = LinkedTo(h[last], n) /\ g[n] = Insert(Alloc(ty), row)
        /\ \A p \in 0 .. n - 1 : p # last => g[p] = h[p]
    <2>1. \A p \in 0 .. n - 1 : p # n /\ p \in 0 .. n2 - 1
      BY <1>0
    <2> QED BY <1>1, <1>2, <1>3, <2>1 DEF g
  <1>5. h[last] \in PageSet(n) /\ 0 \in 0 .. n - 1
        /\ \A p \in 0 .. n - 1 : h[p].next \in Links(n)
    BY <1>0, <1>2, HeapLinked DEF ROOT_PAGES
  <1>6. h[0].at32 = 0 /\ g[0] = h[0]
    BY <1>2, <1>4, <1>5 DEF FreelistHead, Super
  <1>7. LinkedBehind(n, n2, h, g, ty, last, n)
    <2>1. h[last].next = 0
      BY <1>0, ChainEnds DEF last
    <2>2. \A p \in (0 .. n - 1) \ {0} : h[p].next # n
      BY <1>5 DEF Links, ROOT_PAGES
    <2>3. \A e \in Domain : n \notin On(h, e)
      BY <1>0, OnFacts
    <2>4. g[last].next = n /\ g[last].ty = h[last].ty
      BY <1>4, <1>5, LinkFields
    <2>5. g[n].next = 0 /\ g[n].ty = ty
      BY <1>4, NewFields
    <2> QED BY <1>0, <1>2, <1>4, <1>6, <2>1, <2>2, <2>3, <2>4, <2>5 DEF LinkedBehind
  <1>8. \A p \in 0 .. n - 1 : t.disk[p] = s.disk[p]
    BY <1>1, <1>3
  <1>9. t.disk[n] = Alloc(ty)
    BY <1>1, <1>3
  <1>10. Sane(n, n2, s, t) /\ Added(s.mem, t.mem, ty, row)
         /\ \A e \in Domain \ {ty} : Untouched(s.mem, t.mem, e)
    <2>1. t.mem[n] = Insert(Alloc(ty), row)
          /\ t.mem[last] = LinkedTo(s.mem[last], n)
          /\ LinkedBehind(n, n2, s.mem, t.mem, ty, last, n)
      BY <1>4, <1>7 DEF g
    <2>2. t.mem[0].at32 = 0 /\ t.mem[0].ty = s.mem[0].ty /\ s.mem[0].next \in {0, t.mem[0].next}
      BY <1>6 DEF g
    <2> QED BY <1>0, <1>3, <1>8, <1>9, <2>1, <2>2, InsertedLink DEF last
  <1> QED BY <1>10 DEF Inserted, t, n2

LEMMA InsertedFreed ==
    ASSUME NEW n \in Nat, n >= ROOT_PAGES, NEW s \in Store(n), Sound(s.mem),
           NEW ty \in Domain \ {"hot"}, NEW row \in Row,
           Roomy(s.mem, Chain(s.mem, Root[ty])) = {}, FreelistHead(s) # 0
    PROVE  Inserted(n, n, s, ChainInsert(s, ty, row), ty, row)
  <1> DEFINE t == ChainInsert(s, ty, row)
             a == AllocPage(s, ty)
             h == s.mem
             g == t.mem
             last == Last(Chain(h, Root[ty]))
  <1>0. ty \in Domain /\ h \in Heap(n) /\ n \in {n, n + 1} /\ 0 \in 0 .. n - 1
    BY DEF Store, ROOT_PAGES
  <1>1. /\ a.id = FreelistHead(s) /\ a.id \in ROOT_PAGES .. n - 1
        /\ a.s \in Store(n) /\ a.s.disk = s.disk
        /\ \A p \in 0 .. n - 1 : p # 0 /\ p # a.id => a.s.mem[p] = s.mem[p]
        /\ a.s.mem[a.id] = Alloc(ty)
        /\ a.s.mem[0] = Heading(s.mem[0], s.mem[a.id].next)
    BY <1>0, AllocFreed
  <1>2. last \in On(h, ty) /\ last \in (0 .. n - 1) \ {0}
    BY <1>0, OnFacts
  <1>3. PICK x : x = a.id
    OBVIOUS
  <1>4. x \in ROOT_PAGES .. n - 1 /\ x \in (0 .. n - 1) \ {0} /\ h[0].at32 = x /\ h[x].ty = "free"
    BY <1>1, <1>3 DEF FreelistHead, Super, ROOT_PAGES, Sound
  <1>5. \A e \in Domain : x \notin On(h, e)
    <2>1. \A e \in Domain : e # "free"
      BY DEF Domain
    <2> QED BY <1>0, <1>4, <2>1, OnTyped
  <1>6. last # x
    BY <1>0, <1>2, <1>5
  <1>7. /\ t \in Store(n) /\ t.disk = a.s.disk
        /\ last # a.id => /\ t.mem[last] = LinkedTo(a.s.mem[last], a.id)
                          /\ t.mem[a.id] = Insert(Alloc(ty), row)
        /\ \A q \in 0 .. n - 1 : q # last /\ q # a.id => t.mem[q] = a.s.mem[q]
    BY <1>0, <1>1, InsertLinks
  <1> HIDE DEF a, t, last, g
  <1>8. /\ g[last] = LinkedTo(h[last], x) /\ g[x] = Insert(Alloc(ty), row)
        /\ \A p \in 0 .. n - 1 : p \notin {0, last, x} => g[p] = h[p]
        /\ g[0] = Heading(h[0], h[x].next)
    BY <1>0, <1>1, <1>2, <1>3, <1>4, <1>6, <1>7 DEF g
  <1>9. h[last] \in PageSet(n) /\ h[0] \in PageSet(n) /\ DOMAIN h = 0 .. n - 1
        /\ \A p \in 0 .. n - 1 : h[p].next \in Links(n)
    BY <1>0, <1>2, HeapLinked
  <1>10. g[0].at32 = h[x].next
    BY <1>8, <1>9, HeadFields
  <1>11. LinkedBehind(n, n, h, g, ty, last, x)
    <2>1. h[last].next = 0
      BY <1>0, ChainEnds DEF last
    <2>2. \A p \in (0 .. n - 1) \ {0} : h[p].next # x
      BY <1>4, <1>9 DEF Sound
    <2>3. g[last].next = x /\ g[last].ty = h[last].ty
      BY <1>8, <1>9, LinkFields
    <2>4. g[x].next = 0 /\ g[x].ty = ty
      BY <1>8, NewFields
    <2>5. 0 .. n - 1 = (0 .. n - 1) \cup {x}
      BY <1>4
    <2>6. ASSUME g[0].at32 # 0
          PROVE  /\ g[0].at32 \in ROOT_PAGES .. n - 1 /\ g[0].at32 # x
                 /\ h[g[0].at32].ty = "free"
                 /\ \A p \in (0 .. n - 1) \ {0, x} : h[p].next # g[0].at32
      <3>1. h[x].next # 0 /\ h[x].next \in Links(n)
        BY <1>4, <1>9, <1>10, <2>6
      <3>2. h[x].next \in ROOT_PAGES .. n - 1
        BY <3>1 DEF Links
      <3>3. h[h[x].next].ty = "free" /\ h[x].next # x
        BY <1>4, <1>9, <3>1 DEF Sound
      <3>4. \A p \in (0 .. n - 1) \ {0, x} : h[p].next # h[x].next
        BY <1>4, <1>9, <3>1 DEF Sound
      <3> QED BY <1>10, <3>2, <3>3, <3>4
    <2> QED BY <1>2, <1>4, <1>5, <1>8, <2>1, <2>2, <2>3, <2>4, <2>5, <2>6 DEF LinkedBehind
  <1>12. \A p \in 0 .. n - 1 : t.disk[p] = s.disk[p]
    BY <1>1, <1>7
  <1>13. Sane(n, n, s, t) /\ Added(s.mem, t.mem, ty, row)
         /\ \A e \in Domain \ {ty} : Untouched(s.mem, t.mem, e)
    <2>1. t.mem[x] = Insert(Alloc(ty), row)
          /\ t.mem[last] = LinkedTo(s.mem[last], x)
          /\ LinkedBehind(n, n, s.mem, t.mem, ty, last, x)
      BY <1>8, <1>11 DEF g
    <2>2. s.mem[0].at32 # 0
      BY DEF FreelistHead, Super
    <2> QED BY <1>0, <1>7, <1>12, <2>1, <2>2, InsertedLink DEF last
  <1> QED BY <1>13 DEF Inserted, t

\* insert_into_chain, whatever page it takes
LEMMA InsertKeeps ==
    ASSUME NEW n \in Nat, n >= ROOT_PAGES, NEW s \in Store(n), Sound(s.mem),
           NEW ty \in Domain \ {"hot"}, NEW row \in Row
    PROVE  \E n2 \in {n, n + 1} : Inserted(n, n2, s, ChainInsert(s, ty, row), ty, row)
  <1>1. CASE Roomy(s.mem, Chain(s.mem, Root[ty])) # {}
    <2>1. Inserted(n, n, s, ChainInsert(s, ty, row), ty, row)
      BY <1>1, InsertedRoom DEF Inserted
    <2> QED BY <2>1
  <1>2. CASE Roomy(s.mem, Chain(s.mem, Root[ty])) = {}
    BY <1>2, InsertedFresh, InsertedFreed
  <1> QED BY <1>1, <1>2

\* Changes of rows that leave the links and types of all pages
LEMMA RowsChanged ==
    ASSUME NEW n \in Nat, n >= ROOT_PAGES, NEW s \in Store(n), Sound(s.mem),
           NEW t \in Store(n), t.disk = s.disk, SameShape(n, s.mem, t.mem)
    PROVE  Sane(n, n, s, t) /\ \A d \in Domain : On(t.mem, d) = On(s.mem, d)
  <1> DEFINE h == s.mem
             g == t.mem
  <1>1. h \in Heap(n) /\ g \in Heap(n)
    BY DEF Store
  <1>2. SameShape(n, h, g) /\ Sound(h)
    OBVIOUS
  <1> HIDE DEF h, g
  <1>3. Sound(g) /\ \A d \in Domain : On(g, d) = On(h, d)
    BY <1>1, <1>2, ShapeKept
  <1>4. \A p \in 0 .. n - 1 : p # n
    OBVIOUS
  <1>5. s.mem[0].at32 = 0 => Extended(n, n, s, t)
    BY <1>2, <1>3, <1>4 DEF Extended, SameShape, g, h
  <1> QED BY <1>3, <1>5 DEF Sane, g, h

\* write_hot_local and delete_hot_local
LEMMA HotShape ==
    ASSUME NEW n \in Nat, n >= ROOT_PAGES, NEW s \in Store(n), Sound(s.mem),
           NEW t \in Store(n), t.disk = s.disk,
           \A p \in 0 .. n - 1 : p # 1 => t.mem[p] = s.mem[p],
           NEW rows, t.mem[1] = HotPage(rows)
    PROVE  Sane(n, n, s, t) /\ \A d \in Domain \ {"hot"} : Untouched(s.mem, t.mem, d)
  <1>1. t.mem[1].ty = "hot" /\ t.mem[1].next = 0
    BY DEF HotPage, Alloc
  <1>2. s.mem[1].ty = "hot" /\ s.mem[1].next = 0 /\ 0 \in 0 .. n - 1 /\ s.mem \in Heap(n)
    BY RootFacts DEF Sound, ROOT_PAGES, Domain, Store
  <1>3. SameShape(n, s.mem, t.mem)
    BY <1>1, <1>2 DEF SameShape
  <1>4. Sane(n, n, s, t) /\ \A d \in Domain : On(t.mem, d) = On(s.mem, d)
    BY <1>3, RowsChanged
  <1>5. ASSUME NEW d \in Domain \ {"hot"}
        PROVE  Untouched(s.mem, t.mem, d)
    <2>1. \A p \in On(s.mem, d) : p \in 0 .. n - 1 /\ s.mem[p].ty = d
      BY <1>2, OnFacts, OnTyped
    <2>2. \A p \in On(s.mem, d) : t.mem[p] = s.mem[p]
      BY <1>2, <2>1
    <2> QED BY <1>4, <2>2 DEF Untouched
  <1> QED BY <1>4, <1>5

LEMMA WriteHotPage ==
    ASSUME NEW n \in Nat, n >= ROOT_PAGES, NEW s \in Store(n), NEW row
    PROVE  \E rows : WriteHot(s, row).mem[1] = HotPage(rows)
  <1> DEFINE kept == Others(s.mem[1].rows, "key", row.key)
             rows == IF Len(kept) < PageCap THEN Append(kept, row) ELSE <<row>>
  <1>1. s = [mem |-> s.mem, disk |-> s.disk] /\ 1 \in DOMAIN s.mem
    BY DEF Store, Heap, ROOT_PAGES
  <1>2. WriteHot(s, row) = [mem |-> [s.mem EXCEPT ![1] = HotPage(rows)], disk |-> s.disk]
    BY <1>1, RootFacts DEF WriteHot
  <1> HIDE DEF rows
  <1>3. WriteHot(s, row).mem[1] = HotPage(rows)
    BY <1>1, <1>2
  <1> QED BY <1>3

LEMMA DeleteHotPage ==
    ASSUME NEW n \in Nat, n >= ROOT_PAGES, NEW s \in Store(n), NEW key
    PROVE  \E rows : DeleteHot(s, key).mem[1] = HotPage(rows)
  <1> DEFINE rows == Others(s.mem[1].rows, "key", key)
  <1>1. s = [mem |-> s.mem, disk |-> s.disk] /\ 1 \in DOMAIN s.mem
    BY DEF Store, Heap, ROOT_PAGES
  <1>2. DeleteHot(s, key) = [mem |-> [s.mem EXCEPT ![1] = HotPage(rows)], disk |-> s.disk]
    BY <1>1, RootFacts DEF DeleteHot
  <1> HIDE DEF rows
  <1>3. DeleteHot(s, key).mem[1] = HotPage(rows)
    BY <1>1, <1>2
  <1> QED BY <1>3

\* remove_impulse_local
LEMMA RemoveKeeps ==
    ASSUME NEW n \in Nat, n >= ROOT_PAGES, NEW s \in Store(n), Sound(s.mem), NEW id
    PROVE  LET t == RemoveJob(s, id)
           IN  /\ Sane(n, n, s, t) /\ Removed(s.mem, t.mem, id)
               /\ \A d \in Domain \ {"impulse"} : Untouched(s.mem, t.mem, d)
  <1> DEFINE t == RemoveJob(s, id)
             C == On(s.mem, "impulse")
  <1>0. Root["impulse"] = 2 /\ "impulse" \in Domain /\ s.mem \in Heap(n) /\ 0 \in 0 .. n - 1
    BY DEF Root, Domain, Store, ROOT_PAGES
  <1>1. C = ToSet(Chain(s.mem, 2))
    BY <1>0 DEF On
  <1>2. /\ t \in Store(n) /\ t.disk = s.disk
        /\ \A p \in 0 .. n - 1 : p \notin C => t.mem[p] = s.mem[p]
        /\ \A p \in C : /\ t.mem[p].ty = "impulse"
                        /\ t.mem[p].next = s.mem[p].next
                        /\ t.mem[p].rows = Others(s.mem[p].rows, "id", id)
    BY <1>1, RemoveJobFacts
  <1> HIDE DEF t, C
  <1>3. C \subseteq (0 .. n - 1) \ {0} /\ \A p \in C : s.mem[p].ty = "impulse"
    BY <1>0, OnFacts, OnTyped DEF C
  <1>4. SameShape(n, s.mem, t.mem)
    BY <1>0, <1>2, <1>3 DEF SameShape
  <1>5. Sane(n, n, s, t) /\ \A d \in Domain : On(t.mem, d) = On(s.mem, d)
    BY <1>2, <1>4, RowsChanged
  <1>6. Removed(s.mem, t.mem, id)
    <2>1. ASSUME NEW p \in C
          PROVE  ToSet(t.mem[p].rows) = {x \in ToSet(s.mem[p].rows) : x.id # id}
      <3>1. s.mem[p] \in PageSet(n)
        BY <1>0, <1>3, HeapLinked
      <3>2. s.mem[p].rows \in Seq(Row)
        BY <3>1 DEF PageSet
      <3>3. ToSet(Others(s.mem[p].rows, "id", id)) = {x \in ToSet(s.mem[p].rows) : x["id"] # id}
        BY <3>2, OthersFacts
      <3> QED BY <1>2, <3>3
    <2>2. On(s.mem, "impulse") = C /\ On(t.mem, "impulse") = C
      BY <1>0, <1>5 DEF C
    <2>3. \A p \in C : t.mem[p].rows = Others(s.mem[p].rows, "id", id)
      BY <1>2
    <2> QED BY <2>1, <2>2, <2>3 DEF Removed
  <1>7. ASSUME NEW d \in Domain \ {"impulse"}
        PROVE  Untouched(s.mem, t.mem, d)
    <2>1. \A p \in On(s.mem, d) : p \in 0 .. n - 1 /\ p \notin C
      BY <1>0, OnFacts, OnApart DEF C
    <2>2. \A p \in On(s.mem, d) : t.mem[p] = s.mem[p]
      BY <1>2, <2>1
    <2> QED BY <1>5, <2>2 DEF Untouched
  <1> QED BY <1>5, <1>6, <1>7 DEF t

\* The chains that jobs and bonds are read from
Tables   == {"impulse", "bond"}
InsertOp == [impulse |-> "EnqueueImpulse", bond |-> "UpsertBond"]

RowsApplied(d, h, g, r) ==
    /\ r.op = InsertOp[d] => Added(h, g, d, r.row)
    /\ d = "impulse" /\ r.op = "AckImpulse" => Removed(h, g, r.row.id)
    /\ r.op # InsertOp[d] /\ ~(d = "impulse" /\ r.op = "AckImpulse") => Untouched(h, g, d)

ChainsApplied(n, n2, s, t, r) ==
    Sane(n, n2, s, t) /\ \A d \in Tables : RowsApplied(d, s.mem, t.mem, r)

\* apply_wal
LEMMA ApplyKeeps ==
    ASSUME NEW n \in Nat, n >= ROOT_PAGES, NEW s \in Store(n), Sound(s.mem), NEW rs,
           NEW r \in Logged, s.mem[1].rows \in Seq(HotRow)
    PROVE  \E n2 \in {n, n + 1} :
              ChainsApplied(n, n2, s, Apply([s |-> s, recalls |-> rs], r).s, r)
  <1> DEFINE t == Apply([s |-> s, recalls |-> rs], r).s
  <1>1. /\ Tables \subseteq Domain \ {"hot"} /\ InsertOp["impulse"] = "EnqueueImpulse"
        /\ InsertOp["bond"] = "UpsertBond" /\ Tables = {"impulse", "bond"}
        /\ {"impulse", "bond", "recall"} \subseteq Domain \ {"hot"}
    BY DEF Tables, InsertOp, Domain
  <1>2. CASE r.op \in {"SetHot", "DelHot"}
    <2>1. /\ t \in Store(n) /\ t.disk = s.disk
          /\ \A p \in 0 .. n - 1 : p # 1 => t.mem[p] = s.mem[p]
          /\ \E rows : t.mem[1] = HotPage(rows)
      <3>1. CASE r.op = "SetHot"
        <4>1. t = WriteHot(s, r.row) /\ r.row \in HotRow
          BY <3>1, ApplyStore, LoggedFacts
        <4>2. LET u == WriteHot(s, r.row)
              IN  /\ u \in Store(n) /\ u.disk = s.disk
                  /\ \A p \in 0 .. n - 1 : p # 1 => u.mem[p] = s.mem[p]
          BY ONLY <4>1, WriteHotFacts, n \in Nat, n >= ROOT_PAGES, s \in Store(n),
                  s.mem[1].rows \in Seq(HotRow)
        <4>3. \E rows : WriteHot(s, r.row).mem[1] = HotPage(rows)
          BY ONLY WriteHotPage, n \in Nat, n >= ROOT_PAGES, s \in Store(n)
        <4> HIDE DEF t
        <4> QED BY ONLY <4>1, <4>2, <4>3
      <3>2. CASE r.op = "DelHot"
        <4>1. t = DeleteHot(s, r.row.key)
          BY <3>2, ApplyStore
        <4> HIDE DEF t
        <4> QED BY <4>1, DeleteHotFacts, DeleteHotPage
      <3> QED BY <1>2, <3>1, <3>2
    <2> HIDE DEF t
    <2>2. Sane(n, n, s, t) /\ \A d \in Domain \ {"hot"} : Untouched(s.mem, t.mem, d)
      BY <2>1, HotShape
    <2>3. \A d \in Tables : RowsApplied(d, s.mem, t.mem, r)
      BY <1>1, <1>2, <2>2 DEF RowsApplied
    <2>4. ChainsApplied(n, n, s, t, r)
      BY <2>2, <2>3 DEF ChainsApplied
    <2> QED BY <2>4 DEF t
  <1>3. ASSUME NEW ty \in Domain \ {"hot"}, r.row \in Row, t = ChainInsert(s, ty, r.row),
               \A d \in Tables : r.op = InsertOp[d] <=> d = ty, r.op # "AckImpulse"
        PROVE  \E n2 \in {n, n + 1} : ChainsApplied(n, n2, s, t, r)
    <2> HIDE DEF t
    <2>1. PICK n2 \in {n, n + 1} : Inserted(n, n2, s, t, ty, r.row)
      BY <1>3, InsertKeeps
    <2>2. \A d \in Tables : RowsApplied(d, s.mem, t.mem, r)
      BY <1>1, <1>3, <2>1 DEF RowsApplied, Inserted
    <2>3. ChainsApplied(n, n2, s, t, r)
      BY <2>1, <2>2 DEF ChainsApplied, Inserted
    <2> QED BY <2>3
  <1>4. CASE r.op = "EnqueueImpulse"
    <2>1. t = ChainInsert(s, "impulse", r.row) /\ r.row \in Row
      BY <1>4, ApplyStore, LoggedFacts DEF Row
    <2> HIDE DEF t
    <2> QED BY <1>1, <1>3, <1>4, <2>1 DEF t
  <1>5. CASE r.op = "UpsertBond"
    <2>1. t = ChainInsert(s, "bond", r.row) /\ r.row \in Row
      BY <1>5, ApplyStore, LoggedFacts DEF Row
    <2> HIDE DEF t
    <2> QED BY <1>1, <1>3, <1>5, <2>1 DEF t
  <1>6. CASE r.op = "UpsertRecall"
    <2>1. t = ChainInsert(s, "recall", r.row) /\ r.row \in Row
      BY <1>6, ApplyStore, LoggedFacts DEF Row
    <2> HIDE DEF t
    <2> QED BY <1>1, <1>3, <1>6, <2>1 DEF t
  <1>7. CASE r.op = "AckImpulse"
    <2>1. t = RemoveJob(s, r.row.id)
      BY <1>7, ApplyStore
    <2> HIDE DEF t
    <2>2. /\ Sane(n, n, s, t) /\ Removed(s.mem, t.mem, r.row.id)
          /\ \A d \in Domain \ {"impulse"} : Untouched(s.mem, t.mem, d)
      BY <2>1, RemoveKeeps
    <2>3. \A d \in Tables : RowsApplied(d, s.mem, t.mem, r)
      BY <1>1, <1>7, <2>2 DEF RowsApplied
    <2>4. ChainsApplied(n, n, s, t, r)
      BY <2>2, <2>3 DEF ChainsApplied
    <2> QED BY <2>4 DEF t
  <1> QED BY <1>2, <1>4, <1>5, <1>6, <1>7, LoggedFacts

-----------------------------------------------------------------------------
(* The heap that a behaviour starts with. *)

\* As many numbers as places, so each is at one place
LEMMA FreeOnce ==
    ASSUME NEW set \in Setups
    PROVE  \A j, k \in DOMAIN set.free : set.free[j] = set.free[k] => j = k
  <1> DEFINE free == set.free
             m == Len(free)
             T == ROOT_PAGES .. ROOT_PAGES + m - 1
  <1>1. free \in Seq(Nat) /\ ToSet(free) = T /\ m \in Nat /\ DOMAIN free = 1 .. m
    BY DomainsAssumption
  <1> HIDE DEF free, m
  <1>2. free \in [1 .. m -> T]
    BY <1>1 DEF ToSet
  <1>3. \A y \in T : \E j \in 1 .. m : free[j] = y
    BY <1>1 DEF ToSet
  <1>4. free \in Surjection(1 .. m, T)
    <2> HIDE DEF T
    <2> QED BY <1>2, <1>3 DEF Surjection
  <1>5. IsFiniteSet(1 .. m) /\ Cardinality(1 .. m) = m /\ Cardinality(T) = m
    <2>1. 1 \in Int /\ m \in Int /\ ROOT_PAGES \in Int /\ ROOT_PAGES + m - 1 \in Int
      BY <1>1 DEF ROOT_PAGES
    <2>2. /\ IsFiniteSet(1 .. m)
          /\ Cardinality(1 .. m) = IF 1 > m THEN 0 ELSE m - 1 + 1
      BY <2>1, FS_Interval
    <2>3. Cardinality(T) = IF ROOT_PAGES > ROOT_PAGES + m - 1 THEN 0
                           ELSE (ROOT_PAGES + m - 1) - ROOT_PAGES + 1
      BY <2>1, FS_Interval
    <2> QED BY <1>1, <2>2, <2>3 DEF ROOT_PAGES
  <1> HIDE DEF T
  <1>6. free \in Injection(1 .. m, T)
    BY <1>4, <1>5, FS_SurjSameCardinalityImpliesInj
  <1>7. \A j, k \in 1 .. m : free[j] = free[k] => j = k
    BY <1>6 DEF Injection, IsInjective
  <1> QED BY <1>1, <1>7 DEF free

\* The free pages of that heap, in the order of the list
LEMMA FreePages ==
    ASSUME NEW set \in Setups, NEW j \in DOMAIN set.free
    PROVE  LET page == HeapWith(set.free)[set.free[j]]
           IN  /\ page.ty = "free"
               /\ page.next = IF j = Len(set.free) THEN 0 ELSE set.free[j + 1]
  <1> DEFINE free == set.free
             id == free[j]
             after(k) == IF k = Len(free) THEN 0 ELSE free[k + 1]
  <1>1. free \in Seq(Nat) /\ ToSet(free) = ROOT_PAGES .. ROOT_PAGES + Len(free) - 1
        /\ Len(free) \in Nat
    BY DomainsAssumption
  <1>2. id \in ToSet(free)
    BY DEF ToSet
  <1>3. id \in 0 .. ROOT_PAGES + Len(free) - 1 /\ id # 0 /\ id \notin Roots
    BY <1>1, <1>2, RootFacts DEF ROOT_PAGES
  <1>4. (CHOOSE k \in DOMAIN free : free[k] = id) = j
    BY FreeOnce
  <1> HIDE DEF after
  <1>5. HeapWith(free)[id] = [Alloc("free") EXCEPT !.next = after(j)]
    BY <1>3, <1>4 DEF HeapWith, Super, after
  <1>6. [Alloc("free") EXCEPT !.next = after(j)].ty = "free"
        /\ [Alloc("free") EXCEPT !.next = after(j)].next = after(j)
    BY DEF Alloc
  <1> QED BY <1>5, <1>6 DEF after

LEMMA InitSound ==
    ASSUME NEW set \in Setups
    PROVE  Sound(HeapWith(set.free))
  <1> DEFINE free == set.free
             heap == HeapWith(free)
             n == ROOT_PAGES + Len(free)
             m == Len(free)
  <1>1. /\ free \in Seq(Nat) /\ m \in Nat /\ DOMAIN free = 1 .. m
        /\ ToSet(free) = ROOT_PAGES .. n - 1
    <2>1. free \in Seq(Nat) /\ ToSet(free) = ROOT_PAGES .. ROOT_PAGES + m - 1
      BY DomainsAssumption
    <2> HIDE DEF free
    <2>2. m \in Nat /\ DOMAIN free = 1 .. m
      BY <2>1
    <2>3. n - 1 = ROOT_PAGES + m - 1
      BY <2>2 DEF ROOT_PAGES
    <2> QED BY <2>1, <2>2, <2>3
  <1>2. /\ heap \in Heap(n) /\ n \in Nat /\ n >= ROOT_PAGES
        /\ free = <<>> => heap[0].at32 = 0
        /\ \A d \in Domain : heap[Root[d]].ty = d /\ heap[Root[d]].next = 0
    BY InitHeap
  <1>3. \A j \in 1 .. m : /\ heap[free[j]].ty = "free"
                          /\ j = m => heap[free[j]].next = 0
                          /\ j # m => heap[free[j]].next = free[j + 1]
    BY <1>1, FreePages
  <1>4. \A j, k \in 1 .. m : free[j] = free[k] => j = k
    BY <1>1, FreeOnce
  <1>5. free # <<>> => heap[0].at32 = free[1] /\ 1 \in 1 .. m
    <2> SUFFICES ASSUME free # <<>>
                 PROVE  heap[0].at32 = free[1] /\ 1 \in 1 .. m
      OBVIOUS
    <2>1. 0 \in 0 .. ROOT_PAGES + m - 1 /\ Head(free) = free[1] /\ 1 \in 1 .. m
      BY <1>1 DEF ROOT_PAGES
    <2>2. heap[0] = [Alloc("super") EXCEPT !.at32 = Head(free)]
      BY <2>1 DEF HeapWith, Super
    <2> QED BY <2>1, <2>2 DEF Alloc
  <1> HIDE DEF heap, free
  <1>6. ASSUME NEW p \in DOMAIN heap \ {0}
        PROVE  (\E d \in Domain : p = Root[d]) \/ (\E j \in 1 .. m : p = free[j])
    <2>1. DOMAIN heap = 0 .. n - 1
      BY <1>2, HeapLinked
    <2>2. CASE p \in ROOT_PAGES .. n - 1
      BY <1>1, <2>2 DEF ToSet
    <2>3. CASE p \in 1 .. 4
      <3>1. p \in Roots
        BY <2>3, RootFacts
      <3> QED BY <3>1 DEF Roots
    <2>4. p \in ROOT_PAGES .. n - 1 \/ p \in 1 .. 4
      BY <1>2, <2>1 DEF ROOT_PAGES
    <2> QED BY <2>2, <2>3, <2>4
  <1> HIDE DEF n, m
  <1>7. ASSUME NEW p \in DOMAIN heap \ {0}, heap[p].next # 0
        PROVE  \E j \in 1 .. m : /\ p = free[j] /\ j + 1 \in 1 .. m /\ j + 1 # 1
                                 /\ heap[p].next = free[j + 1]
    <2>1. PICK j \in 1 .. m : p = free[j]
      BY <1>2, <1>6, <1>7
    <2>2. j # m
      BY <1>3, <1>7, <2>1
    <2>3. j + 1 \in 1 .. m /\ j + 1 # 1
      BY <1>1, <2>2
    <2>4. heap[p].next = free[j + 1]
      BY <1>3, <2>1, <2>2
    <2> QED BY <2>1, <2>3, <2>4
  <1>8. heap[1].next = 0 /\ \A d \in Domain : heap[Root[d]].ty = d
    BY <1>2, RootFacts DEF Domain
  <1>9. ASSUME NEW p \in DOMAIN heap \ {0}, NEW q \in DOMAIN heap \ {0},
               heap[p].next = heap[q].next, heap[p].next # 0
        PROVE  p = q
    <2>1. PICK j \in 1 .. m : p = free[j] /\ j + 1 \in 1 .. m /\ heap[p].next = free[j + 1]
      BY <1>7, <1>9
    <2>2. PICK k \in 1 .. m : q = free[k] /\ k + 1 \in 1 .. m /\ heap[q].next = free[k + 1]
      BY <1>7, <1>9
    <2>3. j + 1 = k + 1
      BY <1>4, <1>9, <2>1, <2>2
    <2>4. j = k
      BY <1>1, <2>3
    <2> QED BY <2>1, <2>2, <2>4
  <1>10. ASSUME NEW p \in DOMAIN heap \ {0}, heap[p].next # 0
         PROVE  heap[heap[p].next].ty = heap[p].ty /\ heap[p].next # heap[0].at32
    <2>1. PICK j \in 1 .. m : p = free[j] /\ j + 1 \in 1 .. m /\ heap[p].next = free[j + 1] /\ j + 1 # 1
      BY <1>7, <1>10
    <2>2. heap[free[j + 1]].ty = "free" /\ heap[free[j]].ty = "free"
      BY <1>3, <2>1
    <2>3. heap[0].at32 = 0 \/ (heap[0].at32 = free[1] /\ 1 \in 1 .. m)
      BY <1>2, <1>5
    <2> QED BY <1>4, <1>10, <2>1, <2>2, <2>3
  <1>11. heap[0].at32 # 0 => heap[heap[0].at32].ty = "free"
    BY <1>2, <1>3, <1>5
  <1>12. Sound(heap)
    BY <1>8, <1>9, <1>10, <1>11 DEF Sound
  <1> QED BY <1>12 DEF heap, free

-----------------------------------------------------------------------------
(* Chains of reachable states. *)

\* The chains in the file, which evictions bring up to date page by page
Behind(old, new) ==
    /\ old[0].at32 = 0 /\ new[0].at32 = 0
    /\ \A p \in DOMAIN old : old[p].ty = new[p].ty /\ old[p].next \in {0, new[p].next}

ChainsSound ==
    /\ IF phase = "closed" THEN Sound(disk) ELSE Sound(mem)
    /\ phase = "persisted" => disk = mem
    /\ setup.free = <<>> => IF phase = "closed" THEN disk[0].at32 = 0 ELSE Behind(disk, mem)

\* A process that dies has not taken pages from a freelist.
FreelistOutlived == \A set \in Setups : set.free = <<>> \/ set.deaths = 0

LEMMA BehindSound ==
    ASSUME NEW n \in Nat, n >= ROOT_PAGES, NEW old \in Heap(n), NEW new \in Heap(n),
           Sound(new), Behind(old, new)
    PROVE  Sound(old)
  <1>1. /\ DOMAIN old = 0 .. n - 1 /\ DOMAIN new = 0 .. n - 1 /\ 1 \in 0 .. n - 1
        /\ \A p \in 0 .. n - 1 : new[p].next \in 0 .. n - 1
    BY HeapLinked DEF Links, ROOT_PAGES
  <1>2. \A d \in Domain : Root[d] \in 0 .. n - 1
    <2>1. \A k \in 1 .. ROOT_PAGES - 1 : k \in 0 .. n - 1
      BY DEF ROOT_PAGES
    <2> QED BY <2>1, RootFacts
  <1>3. old[1].next = 0 /\ \A d \in Domain : old[Root[d]].ty = d
    BY <1>1, <1>2 DEF Sound, Behind
  <1>4. ASSUME NEW p \in DOMAIN old \ {0}, old[p].next # 0
        PROVE  old[p].next = new[p].next /\ old[p].next \in DOMAIN old \ {0}
    BY <1>1, <1>4 DEF Behind
  <1>5. ASSUME NEW p \in DOMAIN old \ {0}, NEW q \in DOMAIN old \ {0},
               old[p].next = old[q].next, old[p].next # 0
        PROVE  p = q
    BY <1>1, <1>4, <1>5 DEF Sound
  <1>6. ASSUME NEW p \in DOMAIN old \ {0}, old[p].next # 0
        PROVE  old[old[p].next].ty = old[p].ty /\ old[p].next # old[0].at32
    BY <1>1, <1>4, <1>6 DEF Sound, Behind
  <1> QED BY <1>3, <1>5, <1>6 DEF Sound, Behind

\* A call or an iteration of replay, as far as chains go
AfterRecord(n, n2, r) ==
    /\ mem \in Heap(n) /\ disk \in Heap(n) /\ mem' \in Heap(n2) /\ disk' \in Heap(n2)
    /\ Sound(mem')
    /\ \A p \in 0 .. n - 1 : disk'[p] = disk[p]
    /\ mem[0].at32 = 0 =>
          /\ mem'[0].at32 = 0
          /\ \A p \in 0 .. n - 1 : /\ mem'[p].ty = mem[p].ty
                                   /\ mem[p].next \in {0, mem'[p].next}
          /\ \A p \in 0 .. n2 - 1 : p = n => disk'[p] = Alloc(mem'[p].ty)
          /\ \A d \in Domain : On(mem', d) \subseteq On(mem, d) \cup {n}
    /\ \A d \in Tables : RowsApplied(d, mem, mem', r)

LEMMA BecomesAfter ==
    ASSUME Typed, phase # "closed", Sound(mem), NEW r \in Logged, Becomes(Apply(E, r))
    PROVE  \E n \in Nat : n >= ROOT_PAGES /\ \E n2 \in {n, n + 1} : AfterRecord(n, n2, r)
  <1>1. PICK n \in Nat : n >= ROOT_PAGES /\ disk \in Heap(n) /\ mem \in Heap(n)
    BY DEF Typed, HeapsTyped
  <1> DEFINE s == [mem |-> mem, disk |-> disk]
             t == Apply([s |-> s, recalls |-> recalls], r).s
  <1>2. s \in Store(n) /\ s.mem = mem /\ s.disk = disk /\ s.mem[1].rows \in Seq(HotRow)
    BY <1>1 DEF Store, Typed, HotTyped
  <1>3. mem' = t.mem /\ disk' = t.disk
    BY DEF Becomes, E
  <1> HIDE DEF s
  <1>4. Sound(s.mem)
    BY <1>2
  <1>5. PICK n2 \in {n, n + 1} : ChainsApplied(n, n2, s, t, r)
    BY <1>1, <1>2, <1>4, ApplyKeeps
  <1> HIDE DEF t
  <1>6. t.mem \in Heap(n2) /\ t.disk \in Heap(n2)
    BY <1>5 DEF ChainsApplied, Sane, Store
  <1>7. AfterRecord(n, n2, r)
    <2>1. Sane(n, n2, s, t) /\ \A d \in Tables : RowsApplied(d, mem, mem', r)
      BY <1>2, <1>3, <1>5 DEF ChainsApplied
    <2>2. Sound(mem') /\ \A p \in 0 .. n - 1 : disk'[p] = disk[p]
      BY <1>2, <1>3, <2>1 DEF Sane
    <2>3. ASSUME mem[0].at32 = 0
          PROVE  /\ mem'[0].at32 = 0
                 /\ \A p \in 0 .. n - 1 : /\ mem'[p].ty = mem[p].ty
                                          /\ mem[p].next \in {0, mem'[p].next}
                 /\ \A p \in 0 .. n2 - 1 : p = n => disk'[p] = Alloc(mem'[p].ty)
                 /\ \A d \in Domain : On(mem', d) \subseteq On(mem, d) \cup {n}
      BY <1>2, <1>3, <2>1, <2>3 DEF Sane, Extended
    <2> QED BY <1>1, <1>3, <1>6, <2>1, <2>2, <2>3 DEF AfterRecord
  <1> QED BY <1>1, <1>7

LEMMA BehindAfter ==
    ASSUME NEW n \in Nat, n >= ROOT_PAGES, NEW n2 \in {n, n + 1}, NEW r, AfterRecord(n, n2, r),
           Behind(disk, mem)
    PROVE  Behind(disk', mem')
  <1>1. /\ DOMAIN disk = 0 .. n - 1 /\ DOMAIN disk' = 0 .. n2 - 1 /\ 0 \in 0 .. n - 1
    BY DEF AfterRecord, Heap, ROOT_PAGES
  <1>2. /\ mem[0].at32 = 0 /\ mem'[0].at32 = 0 /\ disk'[0].at32 = 0
    BY <1>1 DEF Behind, AfterRecord
  <1>3. ASSUME NEW p \in 0 .. n2 - 1
        PROVE  disk'[p].ty = mem'[p].ty /\ disk'[p].next \in {0, mem'[p].next}
    <2>1. CASE p \in 0 .. n - 1
      <3>1. disk'[p] = disk[p] /\ mem'[p].ty = mem[p].ty /\ mem[p].next \in {0, mem'[p].next}
        BY <1>2, <2>1 DEF AfterRecord
      <3>2. disk[p].ty = mem[p].ty /\ disk[p].next \in {0, mem[p].next}
        BY <1>1, <2>1 DEF Behind
      <3> QED BY <3>1, <3>2
    <2>2. CASE p = n
      <3>1. disk'[p] = Alloc(mem'[p].ty)
        BY <1>2, <2>2 DEF AfterRecord
      <3> QED BY <3>1 DEF Alloc
    <2> QED BY <2>1, <2>2
  <1> QED BY <1>1, <1>2, <1>3 DEF Behind

\* The steps that apply no record
ChainRest ==
    /\ setup' = setup
    /\ \/ UNCHANGED <<wal, said, covered, disk, mem, phase, replayed>>
       \/ /\ phase = "closed" /\ phase' = "replay" /\ mem' = disk
          /\ UNCHANGED <<disk, wal, said, covered, replayed>>
       \/ /\ phase = "replay" /\ phase' = "open" /\ replayed = Len(wal)
          /\ UNCHANGED <<disk, wal, said, covered, mem>>
       \/ /\ phase \in {"replay", "open"} /\ DOMAIN disk' = DOMAIN disk
          /\ \A p \in DOMAIN disk : disk'[p] \in {disk[p], mem[p]}
          /\ UNCHANGED <<wal, said, covered, mem, phase, replayed>>
       \/ /\ phase = "open" /\ phase' = "persisted" /\ disk' = mem /\ covered' = Len(wal)
          /\ UNCHANGED <<wal, said, mem>>
       \/ /\ phase = "persisted" /\ wal' = <<>> /\ covered' = 0 /\ UNCHANGED <<disk, said>>
          /\ \/ phase' = "closed"
             \/ phase' = "open" /\ mem' = mem
       \/ /\ phase = "open" /\ phase' = "closed" /\ disk' = mem
          /\ UNCHANGED <<wal, said, covered>>
       \/ /\ phase # "closed" /\ phase' = "closed" /\ setup.deaths # 0
          /\ UNCHANGED <<disk, wal, said, covered>>
       \/ /\ phase = "replay" /\ phase' = "replay" /\ Skipped /\ replayed' = replayed + 1
          /\ UNCHANGED <<disk, mem, wal, said, covered>>

\* The steps that do
ReplayOne(r) ==
    /\ phase = "replay" /\ phase' = "replay" /\ ~Skipped
    /\ replayed + 1 \in 1 .. Len(wal) /\ r = wal[replayed + 1]
    /\ replayed' = replayed + 1 /\ Becomes(Apply(E, r))
    /\ UNCHANGED <<wal, said, covered, setup, calls>>

LEMMA ChainSteps ==
    ASSUME Typed, [Next]_vars
    PROVE  (\E r \in Logged : Logs(r) \/ ReplayOne(r)) \/ (ChainRest /\ calls' = calls)
  <1>1. RestTyped
    BY DEF Typed
  <1>2. Tick \/ UNCHANGED vars => ChainRest /\ calls' = calls
    BY DEF ChainRest, Tick, vars
  <1>3. Open => ChainRest /\ calls' = calls
    BY DEF ChainRest, Open
  <1>4. Opened => ChainRest /\ calls' = calls
    BY DEF ChainRest, Opened
  <1>5. ASSUME NEW id \in DOMAIN mem, Evict(id)
        PROVE  ChainRest /\ calls' = calls
    <2>1. phase \in {"replay", "open"} /\ disk' = [disk EXCEPT ![id] = mem[id]]
      BY <1>5 DEF Evict
    <2>2. DOMAIN disk' = DOMAIN disk /\ \A p \in DOMAIN disk : disk'[p] \in {disk[p], mem[p]}
      BY <2>1
    <2> QED BY <1>5, <2>1, <2>2 DEF ChainRest, Evict
  <1>6. CkptPersist => ChainRest /\ calls' = calls
    BY DEF ChainRest, CkptPersist
  <1>7. CkptRotate => ChainRest /\ calls' = calls
    BY DEF ChainRest, CkptRotate, Gone
  <1>8. CloseSkipped => ChainRest /\ calls' = calls
    BY DEF ChainRest, CloseSkipped, Gone
  <1>9. Crash => ChainRest /\ calls' = calls
    <2>1. Crash => setup.deaths # 0
      <3> SUFFICES ASSUME crashes < setup.deaths
                   PROVE  setup.deaths # 0
        BY DEF Crash
      <3>1. crashes \in Nat /\ setup.deaths \in Nat
        BY DomainsAssumption DEF Typed, RestTyped
      <3> QED BY <3>1
    <2> QED BY <2>1 DEF ChainRest, Crash, Gone
  <1>10. ASSUME Replay
         PROVE  (\E r \in Logged : ReplayOne(r)) \/ (ChainRest /\ calls' = calls)
    <2>1. replayed + 1 \in 1 .. Len(wal) /\ wal[replayed + 1] \in Logged
      BY <1>10, ReplayTyped
    <2>2. CASE Skipped
      BY <1>10, <2>2 DEF Replay, ChainRest, Becomes, E
    <2>3. CASE ~Skipped
      <3>1. ReplayOne(wal[replayed + 1])
        BY <1>10, <2>1, <2>3 DEF Replay, ReplayOne
      <3> QED BY <2>1, <3>1
    <2> QED BY <2>2, <2>3
  <1> QED BY <1>1, <1>2, <1>3, <1>4, <1>5, <1>6, <1>7, <1>8, <1>9, <1>10, EveryStep

LEMMA SoundAfter ==
    ASSUME ChainsSound, NEW n \in Nat, n >= ROOT_PAGES, NEW n2 \in {n, n + 1}, NEW r,
           AfterRecord(n, n2, r), phase \in {"replay", "open"}, phase' = phase, setup' = setup
    PROVE  ChainsSound'
  <1>1. Sound(mem') /\ phase' # "closed" /\ phase' # "persisted"
    BY DEF AfterRecord
  <1>2. setup'.free = <<>> => Behind(disk', mem')
    BY BehindAfter DEF ChainsSound
  <1> QED BY <1>1, <1>2 DEF ChainsSound

LEMMA SoundRest ==
    ASSUME FreelistOutlived, Typed, Typed', ChainsSound, ChainRest
    PROVE  ChainsSound'
  <1>1. setup' = setup
    BY DEF ChainRest
  <1>2. PICK n \in Nat : /\ n >= ROOT_PAGES /\ disk \in Heap(n)
                         /\ phase # "closed" => mem \in Heap(n)
    BY DEF Typed, HeapsTyped
  <1>3. CASE UNCHANGED <<wal, said, covered, disk, mem, phase, replayed>>
    BY <1>1, <1>3 DEF ChainsSound
  <1>4. CASE /\ phase = "closed" /\ phase' = "replay" /\ mem' = disk
             /\ UNCHANGED <<disk, wal, said, covered, replayed>>
    BY <1>1, <1>4 DEF ChainsSound, Behind
  <1>5. CASE /\ phase = "replay" /\ phase' = "open" /\ replayed = Len(wal)
             /\ UNCHANGED <<disk, wal, said, covered, mem>>
    BY <1>1, <1>5 DEF ChainsSound
  <1>6. CASE /\ phase \in {"replay", "open"} /\ DOMAIN disk' = DOMAIN disk
             /\ \A p \in DOMAIN disk : disk'[p] \in {disk[p], mem[p]}
             /\ UNCHANGED <<wal, said, covered, mem, phase, replayed>>
    <2>1. 0 \in DOMAIN disk
      BY <1>2, HeapLinked DEF ROOT_PAGES
    <2>2. Behind(disk, mem) => Behind(disk', mem)
      BY <1>6, <2>1 DEF Behind
    <2> QED BY <1>1, <1>6, <2>2 DEF ChainsSound
  <1>7. CASE /\ phase = "open" /\ phase' = "persisted" /\ disk' = mem /\ covered' = Len(wal)
             /\ UNCHANGED <<wal, said, mem>>
    BY <1>1, <1>7 DEF ChainsSound, Behind
  <1>8. CASE /\ phase = "persisted" /\ wal' = <<>> /\ covered' = 0 /\ UNCHANGED <<disk, said>>
             /\ \/ phase' = "closed"
                \/ phase' = "open" /\ mem' = mem
    BY <1>1, <1>8 DEF ChainsSound, Behind
  <1>9. CASE /\ phase = "open" /\ phase' = "closed" /\ disk' = mem
             /\ UNCHANGED <<wal, said, covered>>
    BY <1>1, <1>9 DEF ChainsSound, Behind
  <1>10. CASE /\ phase # "closed" /\ phase' = "closed" /\ setup.deaths # 0
              /\ UNCHANGED <<disk, wal, said, covered>>
    <2>1. setup.free = <<>>
      BY <1>10 DEF FreelistOutlived, Typed, RestTyped
    <2>2. Sound(mem) /\ Behind(disk, mem)
      BY <1>10, <2>1 DEF ChainsSound
    <2>3. Sound(disk)
      BY <1>2, <1>10, <2>2, BehindSound
    <2> QED BY <1>1, <1>10, <2>2, <2>3 DEF ChainsSound, Behind
  <1>11. CASE /\ phase = "replay" /\ phase' = "replay" /\ Skipped /\ replayed' = replayed + 1
              /\ UNCHANGED <<disk, mem, wal, said, covered>>
    BY <1>1, <1>11 DEF ChainsSound
  <1> QED BY <1>3, <1>4, <1>5, <1>6, <1>7, <1>8, <1>9, <1>10, <1>11 DEF ChainRest

LEMMA InitChains == Init => ChainsSound
  <1> SUFFICES ASSUME Init
               PROVE  ChainsSound
    OBVIOUS
  <1>1. /\ setup \in Setups /\ disk = HeapWith(setup.free) /\ phase = "closed"
    BY DEF Init
  <1>2. Sound(disk) /\ (setup.free = <<>> => disk[0].at32 = 0)
    BY <1>1, InitSound, InitHeap
  <1> QED BY <1>1, <1>2 DEF ChainsSound

\* What calls and replay share
LEMMA RecordStep ==
    ASSUME Typed, ChainsSound, NEW r \in Logged, Logs(r) \/ ReplayOne(r)
    PROVE  /\ phase \in {"replay", "open"} /\ phase' = phase /\ setup' = setup
           /\ covered' = covered
           /\ \E n \in Nat : n >= ROOT_PAGES /\ \E n2 \in {n, n + 1} : AfterRecord(n, n2, r)
  <1>1. /\ phase \in {"replay", "open"} /\ phase' = phase /\ setup' = setup
        /\ covered' = covered /\ Becomes(Apply(E, r))
    BY DEF Logs, ReplayOne
  <1>2. Sound(mem)
    BY <1>1 DEF ChainsSound
  <1>3. \E n \in Nat : n >= ROOT_PAGES /\ \E n2 \in {n, n + 1} : AfterRecord(n, n2, r)
    BY <1>1, <1>2, BecomesAfter
  <1> QED BY <1>1, <1>3

LEMMA SoundStep ==
    ASSUME FreelistOutlived, Typed, ChainsSound, [Next]_vars
    PROVE  ChainsSound'
  <1>1. ASSUME NEW r \in Logged, Logs(r) \/ ReplayOne(r)
        PROVE  ChainsSound'
    BY <1>1, RecordStep, SoundAfter
  <1>2. Typed'
    BY TypedStep
  <1> QED BY <1>1, <1>2, ChainSteps, SoundRest

LEMMA SoundImplies == Typed /\ ChainsSound => ChainsAreApart
  <1> SUFFICES ASSUME Typed, ChainsSound, phase \in {"replay", "open", "persisted"}
               PROVE  LET chain == [d \in Domain |-> Chain(mem, Root[d])]
                          free  == ToSet(Chain(mem, FreelistHead(E.s)))
                      IN  \A d \in Domain :
                             /\ mem[Last(chain[d])].next = 0
                             /\ ToSet(chain[d]) \cap free = {}
                             /\ \A other \in Domain \ {d} :
                                   ToSet(chain[d]) \cap ToSet(chain[other]) = {}
                             /\ \A id \in ToSet(chain[d]) : mem[id].ty = d
    BY DEF ChainsAreApart
  <1>1. Sound(mem)
    BY DEF ChainsSound
  <1>2. PICK n \in Nat : n >= ROOT_PAGES /\ mem \in Heap(n)
    BY DEF Typed, HeapsTyped
  <1>3. FreelistHead(E.s) = mem[0].at32
    BY DEF FreelistHead, Super, E
  <1>4. ASSUME NEW d \in Domain
        PROVE  /\ mem[Last(Chain(mem, Root[d]))].next = 0
               /\ On(mem, d) \cap ToSet(Chain(mem, mem[0].at32)) = {}
               /\ \A other \in Domain \ {d} : On(mem, d) \cap On(mem, other) = {}
               /\ \A id \in On(mem, d) : mem[id].ty = d
    BY <1>1, <1>2, ChainEnds, FreeApart, OnApart, OnTyped
  <1> QED BY <1>3, <1>4 DEF On

\* The chains of the domains never meet, never reach a free page and end, so that no walk
\* of insert_into_chain goes on for ever: alloc_page gives one page to one chain, also when
\* replay repeats what evictions wrote of it.  The hypothesis is needed: in the setup of
\* run impulse_crash, a chain in the file leads into the freelist.
THEOREM ChainsStayApart ==
    ASSUME FreelistOutlived
    PROVE  Spec => []ChainsAreApart
  <1> DEFINE Inv == Typed /\ ChainsSound
  <1>1. Init => Inv
    BY InitTyped, InitChains
  <1>2. Inv /\ [Next]_vars => Inv'
    BY TypedStep, SoundStep
  <1>3. Inv => ChainsAreApart
    BY SoundImplies
  <1> HIDE DEF Inv
  <1> QED BY <1>1, <1>2, <1>3, PTL DEF Spec

-----------------------------------------------------------------------------
(* The tuples on a chain, between those that may be there and those that must. *)

Within(pages, S, A) == \A p \in S : ToSet(pages[p].rows) \subseteq A
Has(pages, S, W)    == \A w \in W : \E p \in S : w \in ToSet(pages[p].rows)

\* What a record makes of the tuples that may be there, A1 to A2, and that must, W1 to W2
Allows(d, r, A1, A2) ==
    /\ \A x \in A1 : x \in A2 \/ (d = "impulse" /\ r.op = "AckImpulse" /\ x.id = r.row.id)
    /\ r.op = InsertOp[d] => r.row \in A2
Wants(d, r, W1, W2) ==
    /\ \A w \in W2 : w \in W1 \/ (r.op = InsertOp[d] /\ w = r.row)
    /\ d = "impulse" /\ r.op = "AckImpulse" => \A w \in W2 : w.id # r.row.id

LEMMA RowsKept ==
    ASSUME NEW d \in Tables, NEW h, NEW g, NEW r, RowsApplied(d, h, g, r),
           NEW A1, NEW A2, Within(h, On(h, d), A1), Allows(d, r, A1, A2)
    PROVE  Within(g, On(g, d), A2)
  <1>0. InsertOp[d] # "AckImpulse"
    BY DEF Tables, InsertOp
  <1>1. CASE r.op = InsertOp[d]
    <2>1. Added(h, g, d, r.row) /\ A1 \subseteq A2 /\ r.row \in A2
      BY <1>0, <1>1 DEF RowsApplied, Allows
    <2>2. ASSUME NEW p \in On(g, d)
          PROVE  ToSet(g[p].rows) \subseteq A2
      <3>1. CASE p \in On(h, d)
        BY <2>1, <3>1 DEF Added, Within
      <3>2. CASE p \notin On(h, d)
        BY <2>1, <3>2 DEF Added
      <3> QED BY <3>1, <3>2
    <2> QED BY <2>2 DEF Within
  <1>2. CASE d = "impulse" /\ r.op = "AckImpulse"
    <2>1. Removed(h, g, r.row.id)
      BY <1>2 DEF RowsApplied
    <2>2. ASSUME NEW p \in On(g, d)
          PROVE  ToSet(g[p].rows) \subseteq A2
      <3>1. p \in On(h, d) /\ ToSet(g[p].rows) = {x \in ToSet(h[p].rows) : x.id # r.row.id}
        BY <1>2, <2>1 DEF Removed
      <3> QED BY <3>1 DEF Within, Allows
    <2> QED BY <2>2 DEF Within
  <1>3. CASE r.op # InsertOp[d] /\ ~(d = "impulse" /\ r.op = "AckImpulse")
    BY <1>3 DEF RowsApplied, Untouched, Within, Allows
  <1> QED BY <1>1, <1>2, <1>3

LEMMA RowsThere ==
    ASSUME NEW d \in Tables, NEW h, NEW g, NEW r, RowsApplied(d, h, g, r),
           NEW W1, NEW W2, Has(h, On(h, d), W1), Wants(d, r, W1, W2)
    PROVE  Has(g, On(g, d), W2)
  <1>0. InsertOp[d] # "AckImpulse"
    BY DEF Tables, InsertOp
  <1> SUFFICES ASSUME NEW w \in W2
               PROVE  \E p \in On(g, d) : w \in ToSet(g[p].rows)
    BY DEF Has
  <1>1. CASE r.op = InsertOp[d]
    <2>1. Added(h, g, d, r.row)
      BY <1>1 DEF RowsApplied
    <2>2. CASE w = r.row
      BY <2>1, <2>2 DEF Added
    <2>3. CASE w \in W1
      <3>1. PICK p \in On(h, d) : w \in ToSet(h[p].rows)
        BY <2>3 DEF Has
      <3> QED BY <2>1, <3>1 DEF Added
    <2> QED BY <2>2, <2>3 DEF Wants
  <1>2. CASE d = "impulse" /\ r.op = "AckImpulse"
    <2>1. Removed(h, g, r.row.id)
      BY <1>2 DEF RowsApplied
    <2>2. w \in W1 /\ w.id # r.row.id
      BY <1>0, <1>2 DEF Wants
    <2>3. PICK p \in On(h, d) : w \in ToSet(h[p].rows)
      BY <2>2 DEF Has
    <2> QED BY <1>2, <2>1, <2>2, <2>3 DEF Removed
  <1>3. CASE r.op # InsertOp[d] /\ ~(d = "impulse" /\ r.op = "AckImpulse")
    <2>1. Untouched(h, g, d)
      BY <1>3 DEF RowsApplied
    <2>2. w \in W1
      BY <1>3 DEF Wants
    <2>3. PICK p \in On(h, d) : w \in ToSet(h[p].rows)
      BY <2>2 DEF Has
    <2> QED BY <2>1, <2>3 DEF Untouched
  <1> QED BY <1>1, <1>2, <1>3

\* What of the wanted tuples is on a page in the file, is on the page in memory.
Mirrors(old, new, S, W) == \A p \in S : ToSet(old[p].rows) \cap W \subseteq ToSet(new[p].rows)

\* The records that no log mentions after a checkpoint stay on pages that a record does
\* not change in the file.
LEMMA MirrorKept ==
    ASSUME NEW d \in Tables, NEW old, NEW h, NEW g, NEW r, RowsApplied(d, h, g, r),
           NEW W1, NEW W2, W2 \subseteq W1,
           d = "impulse" /\ r.op = "AckImpulse" => \A w \in W2 : w.id # r.row.id,
           Mirrors(old, h, On(h, d), W1)
    PROVE  Mirrors(old, g, On(h, d), W2)
  <1> SUFFICES ASSUME NEW p \in On(h, d), NEW w \in ToSet(old[p].rows), w \in W2
               PROVE  w \in ToSet(g[p].rows)
    BY DEF Mirrors
  <1>1. w \in ToSet(h[p].rows)
    BY DEF Mirrors
  <1>2. CASE r.op = InsertOp[d]
    BY <1>1, <1>2 DEF RowsApplied, Added
  <1>3. CASE d = "impulse" /\ r.op = "AckImpulse"
    BY <1>1, <1>3 DEF RowsApplied, Removed
  <1>4. CASE r.op # InsertOp[d] /\ ~(d = "impulse" /\ r.op = "AckImpulse")
    BY <1>1, <1>4 DEF RowsApplied, Untouched
  <1> QED BY <1>2, <1>3, <1>4

-----------------------------------------------------------------------------
(* What may and must be on a chain that has seen the log up to a record. *)

Rows(d) == IF d = "impulse" THEN JobRow ELSE BondRow

Inserts(d, row, j) ==
    \E i \in j + 1 .. Len(wal) : wal[i].op = InsertOp[d] /\ wal[i].row = row
Acks(id, j) ==
    \E i \in j + 1 .. Len(wal) : wal[i].op = "AckImpulse" /\ wal[i].row.id = id

Allowed(d, j) ==
    {row \in Rows(d) :
        IF d = "impulse" THEN row \in said.jobs \/ Acks(row.id, j)
        ELSE row.key \in DOMAIN said.bonds /\ row.v <= said.bonds[row.key].v}
Promised(d) ==
    IF d = "impulse" THEN said.jobs ELSE {said.bonds[k] : k \in DOMAIN said.bonds}
Wanted(d, j) == {row \in Promised(d) : ~Inserts(d, row, j)}

\* Replay of a record allows and wants what the call did, or a later record undoes it.
RecordsFit ==
    \A i \in 1 .. Len(wal) :
        /\ \A d \in Tables : wal[i].op = InsertOp[d] => wal[i].row \in Allowed(d, i)
        /\ wal[i].op = "AckImpulse" =>
              \A job \in said.jobs : job.id = wal[i].row.id => Inserts("impulse", job, i)

BondsFit ==
    \A k \in DOMAIN said.bonds : said.bonds[k].key = k /\ said.bonds[k].v <= calls

\* A chain whose pages have seen the log up to record j
ChainFits(pages, d, j) ==
    /\ Within(pages, On(pages, d), Allowed(d, j))
    /\ Has(pages, On(pages, d), Wanted(d, j))

\* The file, when the process may die and replay start at record j + 1
FileFits(d, j) ==
    /\ Within(disk, On(mem, d), Allowed(d, j))
    /\ Has(disk, On(disk, d), Wanted(d, j))
    /\ Mirrors(disk, mem, On(mem, d), Wanted(d, j))

FitsAt(d, j) ==
    /\ phase = "closed" /\ j = covered => ChainFits(disk, d, j)
    /\ phase # "closed" /\ j = AppliedTo => ChainFits(mem, d, j)
    /\ phase # "closed" /\ j = covered /\ setup.free = <<>> => FileFits(d, j)

ContentsFit == \A d \in Tables, j \in Nat : FitsAt(d, j)

\* An earlier place of the log allows more and wants less.
LEMMA Earlier ==
    ASSUME LogTyped, NEW d \in Tables, NEW j \in Nat, NEW k \in Nat, k <= j
    PROVE  /\ Allowed(d, j) \subseteq Allowed(d, k)
           /\ Wanted(d, k) \subseteq Wanted(d, j)
  <1>1. Len(wal) \in Nat
    BY DEF LogTyped
  <1>2. \A i \in j + 1 .. Len(wal) : i \in k + 1 .. Len(wal)
    BY <1>1
  <1>3. \A id : Acks(id, j) => Acks(id, k)
    BY <1>2 DEF Acks
  <1>4. \A row : Inserts(d, row, j) => Inserts(d, row, k)
    BY <1>2 DEF Inserts
  <1> QED BY <1>3, <1>4 DEF Allowed, Wanted

LEMMA AtEnd ==
    ASSUME LogTyped
    PROVE  /\ \A id : ~Acks(id, Len(wal))
           /\ \A d \in Tables : \A row : ~Inserts(d, row, Len(wal))
  <1>1. Len(wal) + 1 .. Len(wal) = {}
    BY DEF LogTyped
  <1> QED BY <1>1 DEF Acks, Inserts

-----------------------------------------------------------------------------
(* What calls and replay do to that. *)

\* What a call does to the promises
LEMMA JobsSaid ==
    ASSUME Typed, NEW r \in Logged, Logs(r)
    PROVE  /\ \A x \in said.jobs : x \in said'.jobs \/ (r.op = "AckImpulse" /\ x.id = r.row.id)
           /\ \A x \in said'.jobs : x \in said.jobs \/ (r.op = "EnqueueImpulse" /\ x = r.row)
           /\ r.op = "AckImpulse" => \A x \in said'.jobs : x.id # r.row.id
           /\ r.op = "EnqueueImpulse" => r.row \in said'.jobs
  <1>1. said' = Said(r)
    BY DEF Logs
  <1>2. said'.jobs = CASE r.op = "EnqueueImpulse" -> said.jobs \cup {r.row}
                       [] r.op = "AckImpulse" -> {j \in said.jobs : j.id # r.row.id}
                       [] OTHER -> said.jobs
    BY <1>1, SaidFields DEF Typed
  <1>3. CASE r.op = "EnqueueImpulse"
    BY <1>2, <1>3
  <1>4. CASE r.op = "AckImpulse"
    <2>1. said'.jobs = {j \in said.jobs : j.id # r.row.id}
      BY <1>2, <1>4
    <2> QED BY <1>4, <2>1
  <1>5. CASE r.op \notin {"EnqueueImpulse", "AckImpulse"}
    BY <1>2, <1>5
  <1> QED BY <1>3, <1>4, <1>5

LEMMA BondsTyped ==
    ASSUME NEW bonds \in Partial(BondKeys, BondRow)
    PROVE  \A k \in DOMAIN bonds : bonds[k] \in BondRow
  BY DEF Partial

LEMMA BondsSaid ==
    ASSUME Typed, BondsFit, NEW r \in Logged, Logs(r)
    PROVE  /\ BondsFit'
           /\ \A k \in DOMAIN said.bonds : /\ k \in DOMAIN said'.bonds
                                           /\ said.bonds[k].v <= said'.bonds[k].v
           /\ \A k \in DOMAIN said'.bonds :
                 \/ k \in DOMAIN said.bonds /\ said'.bonds[k] = said.bonds[k]
                 \/ r.op = "UpsertBond" /\ said'.bonds[k] = r.row
           /\ r.op = "UpsertBond" => /\ r.row.key \in DOMAIN said'.bonds
                                     /\ said'.bonds[r.row.key] = r.row
  <1>1. said' = Said(r) /\ calls' = calls + 1 /\ calls \in Nat
        /\ (r.op = "UpsertBond" => r.row.v = calls + 1)
    BY DEF Logs, Value, Typed, RestTyped
  <1>2. said'.bonds = IF r.op = "UpsertBond" THEN Put(said.bonds, r.row.key, r.row)
                      ELSE said.bonds
    BY <1>1, SaidFields DEF Typed
  <1>3. \A k \in DOMAIN said.bonds : /\ said.bonds[k].v \in Nat
                                     /\ said.bonds[k].key = k /\ said.bonds[k].v <= calls
    <2>1. said.bonds \in Partial(BondKeys, BondRow)
      BY DEF Typed, SaidTyped
    <2>2. \A k \in DOMAIN said.bonds : said.bonds[k] \in BondRow
      BY <2>1, BondsTyped
    <2> QED BY <2>2 DEF BondRow, BondsFit
  <1>4. CASE r.op = "UpsertBond"
    <2> DEFINE f == said.bonds
               g == said'.bonds
               key == r.row.key
    <2>1. g = Put(f, key, r.row) /\ r.row.v = calls + 1
      BY <1>1, <1>2, <1>4
    <2> HIDE DEF f, g
    <2>2. DOMAIN g = DOMAIN f \cup {key} /\ g[key] = r.row
          /\ \A k \in DOMAIN f : k # key => g[k] = f[k]
      BY <2>1 DEF Put
    <2>3. \A k \in DOMAIN f : f[k].v \in Nat /\ f[k].key = k /\ f[k].v <= calls
      BY <1>3 DEF f
    <2>4. \A k \in DOMAIN g : g[k].key = k /\ g[k].v <= calls + 1
      BY <1>1, <2>1, <2>2, <2>3
    <2>5. \A k \in DOMAIN f : k \in DOMAIN g /\ f[k].v <= g[k].v
      BY <1>1, <2>1, <2>2, <2>3
    <2>6. BondsFit'
      BY <1>1, <2>4 DEF BondsFit, g
    <2> QED BY <1>4, <2>2, <2>5, <2>6 DEF f, g
  <1>5. CASE r.op # "UpsertBond"
    <2>1. said'.bonds = said.bonds
      BY <1>2, <1>5
    <2>2. BondsFit'
      BY <1>1, <1>3, <2>1 DEF BondsFit
    <2> QED BY <1>3, <1>5, <2>1, <2>2
  <1> QED BY <1>4, <1>5

\* What a call does to the log
LEMMA CallLog ==
    ASSUME Typed, NEW r \in Logged, Logs(r), NEW j \in Nat, j <= Len(wal), NEW d \in Tables
    PROVE  /\ \A id : Acks(id, j) => Acks(id, j)'
           /\ \A row : Inserts(d, row, j) => Inserts(d, row, j)'
           /\ r.op = "AckImpulse" => Acks(r.row.id, j)'
           /\ r.op = InsertOp[d] => Inserts(d, r.row, j)'
  <1>1. PICK m \in Nat : m = Len(wal)
    BY DEF Typed, LogTyped
  <1>2. Len(wal') = m + 1 /\ (\A i \in 1 .. m : wal'[i] = wal[i]) /\ wal'[m + 1] = r
    BY <1>1, LogGrows DEF Typed, LogTyped, Logs
  <1>3. /\ \A i \in j + 1 .. m : i \in 1 .. m /\ i \in j + 1 .. m + 1
        /\ m + 1 \in j + 1 .. m + 1
    BY <1>1
  <1> QED BY <1>1, <1>2, <1>3 DEF Acks, Inserts

LEMMA CallFits ==
    ASSUME Typed, BondsFit, NEW r \in Logged, Logs(r), NEW d \in Tables,
           NEW j \in Nat, j <= Len(wal)
    PROVE  /\ Allowed(d, j) \subseteq Allowed(d, j)'
           /\ Wanted(d, j)' \subseteq Wanted(d, j)
           /\ d = "impulse" /\ r.op = "AckImpulse" => \A w \in Wanted(d, j)' : w.id # r.row.id
  <1>1. CASE d = "impulse"
    <2>1. Allowed(d, j) \subseteq Allowed(d, j)'
      BY <1>1, JobsSaid, CallLog DEF Allowed
    <2>2. ASSUME NEW w \in Wanted(d, j)'
          PROVE  w \in Wanted(d, j) /\ (r.op = "AckImpulse" => w.id # r.row.id)
      <3>1. w \in said'.jobs /\ ~Inserts(d, w, j)'
        BY <1>1 DEF Wanted, Promised
      <3>2. ~Inserts(d, w, j) /\ ~(r.op = InsertOp[d] /\ w = r.row)
        BY <3>1, CallLog
      <3>3. InsertOp[d] = "EnqueueImpulse"
        BY <1>1 DEF InsertOp
      <3>4. w \in said.jobs /\ (r.op = "AckImpulse" => w.id # r.row.id)
        BY <3>1, <3>2, <3>3, JobsSaid
      <3> QED BY <1>1, <3>2, <3>4 DEF Wanted, Promised
    <2> QED BY <2>1, <2>2
  <1>2. CASE d = "bond"
    <2>1. ASSUME NEW x \in Allowed(d, j)
          PROVE  x \in Allowed(d, j)'
      <3>1. x \in BondRow /\ x.key \in DOMAIN said.bonds /\ x.v <= said.bonds[x.key].v
        BY <1>2 DEF Allowed, Rows
      <3>2. x.key \in DOMAIN said'.bonds /\ said.bonds[x.key].v <= said'.bonds[x.key].v
        BY <3>1, BondsSaid
      <3>3. said.bonds[x.key] \in BondRow /\ said'.bonds[x.key] \in BondRow
        <4>1. SaidTyped /\ SaidTyped'
          BY CallTyped DEF Typed
        <4>2. /\ said.bonds \in Partial(BondKeys, BondRow)
              /\ said'.bonds \in Partial(BondKeys, BondRow)
          BY <4>1 DEF SaidTyped
        <4> QED BY <3>1, <3>2, <4>2, BondsTyped
      <3>4. x.v <= said'.bonds[x.key].v
        BY <3>1, <3>2, <3>3 DEF BondRow
      <3> QED BY <1>2, <3>1, <3>2, <3>4 DEF Allowed, Rows
    <2>2. ASSUME NEW w \in Wanted(d, j)'
          PROVE  w \in Wanted(d, j)
      <3>1. PICK k \in DOMAIN said'.bonds : w = said'.bonds[k]
        BY <1>2 DEF Wanted, Promised
      <3>2. ~Inserts(d, w, j)'
        BY DEF Wanted
      <3>3. ~Inserts(d, w, j) /\ ~(r.op = InsertOp[d] /\ w = r.row)
        BY <3>2, CallLog
      <3>4. InsertOp[d] = "UpsertBond"
        BY <1>2 DEF InsertOp
      <3>5. k \in DOMAIN said.bonds /\ w = said.bonds[k]
        BY <3>1, <3>3, <3>4, BondsSaid
      <3> QED BY <1>2, <3>3, <3>5 DEF Wanted, Promised
    <2> QED BY <1>2, <2>1, <2>2
  <1> QED BY <1>1, <1>2 DEF Tables

\* The page of a call has what the call wrote, and nothing else is new.
LEMMA CallMoves ==
    ASSUME Typed, BondsFit, NEW r \in Logged, Logs(r), NEW d \in Tables,
           NEW m \in Nat, m = Len(wal)
    PROVE  /\ Allows(d, r, Allowed(d, m), Allowed(d, m + 1)')
           /\ Wants(d, r, Wanted(d, m), Wanted(d, m + 1)')
  <1>0. LogTyped
    BY DEF Typed
  <1>1. CASE d = "impulse"
    <2>1. InsertOp[d] = "EnqueueImpulse"
      BY <1>1 DEF InsertOp
    <2>2. ASSUME NEW x \in Allowed(d, m)
          PROVE  x \in Allowed(d, m + 1)' \/ (r.op = "AckImpulse" /\ x.id = r.row.id)
      <3>1. x \in JobRow /\ x \in said.jobs
        BY <1>0, <1>1, AtEnd DEF Allowed, Rows
      <3>2. x \in said'.jobs \/ (r.op = "AckImpulse" /\ x.id = r.row.id)
        BY <3>1, JobsSaid
      <3> QED BY <1>1, <3>1, <3>2 DEF Allowed, Rows
    <2>3. ASSUME r.op = "EnqueueImpulse"
          PROVE  r.row \in Allowed(d, m + 1)'
      <3>1. r.row \in JobRow /\ r.row \in said'.jobs
        BY <2>3, LoggedFacts, JobsSaid
      <3> QED BY <1>1, <3>1 DEF Allowed, Rows
    <2>4. ASSUME NEW w \in Wanted(d, m + 1)'
          PROVE  /\ w \in Wanted(d, m) \/ (r.op = "EnqueueImpulse" /\ w = r.row)
                 /\ r.op = "AckImpulse" => w.id # r.row.id
      <3>1. w \in said'.jobs
        BY <1>1 DEF Wanted, Promised
      <3>2. /\ w \in said.jobs \/ (r.op = "EnqueueImpulse" /\ w = r.row)
            /\ r.op = "AckImpulse" => w.id # r.row.id
        BY <3>1, JobsSaid
      <3>3. ~Inserts(d, w, m)
        BY <1>0, AtEnd
      <3> QED BY <1>1, <3>2, <3>3 DEF Wanted, Promised
    <2> QED BY <1>1, <2>1, <2>2, <2>3, <2>4 DEF Allows, Wants
  <1>2. CASE d = "bond"
    <2>1. InsertOp[d] = "UpsertBond"
      BY <1>2 DEF InsertOp
    <2>2. ASSUME NEW x \in Allowed(d, m)
          PROVE  x \in Allowed(d, m + 1)'
      <3>1. x \in Allowed(d, m)'
        BY CallFits
      <3> QED BY <1>2, <3>1 DEF Allowed
    <2>3. ASSUME r.op = "UpsertBond"
          PROVE  r.row \in Allowed(d, m + 1)'
      <3>1. /\ r.row \in BondRow /\ r.row.key \in DOMAIN said'.bonds
            /\ said'.bonds[r.row.key] = r.row
        BY <2>3, LoggedFacts, BondsSaid
      <3>2. r.row.v <= r.row.v
        BY <3>1 DEF BondRow
      <3> QED BY <1>2, <3>1, <3>2 DEF Allowed, Rows
    <2>4. ASSUME NEW w \in Wanted(d, m + 1)'
          PROVE  w \in Wanted(d, m) \/ (r.op = "UpsertBond" /\ w = r.row)
      <3>1. PICK k \in DOMAIN said'.bonds : w = said'.bonds[k]
        BY <1>2 DEF Wanted, Promised
      <3>2. \/ k \in DOMAIN said.bonds /\ said'.bonds[k] = said.bonds[k]
            \/ r.op = "UpsertBond" /\ said'.bonds[k] = r.row
        BY BondsSaid
      <3>3. ~Inserts(d, w, m)
        BY <1>0, AtEnd
      <3> QED BY <1>2, <3>1, <3>2, <3>3 DEF Wanted, Promised
    <2> QED BY <1>2, <2>1, <2>2, <2>3, <2>4 DEF Allows, Wants
  <1> QED BY <1>1, <1>2 DEF Tables

LEMMA CallRecords ==
    ASSUME Typed, BondsFit, RecordsFit, NEW r \in Logged, Logs(r)
    PROVE  RecordsFit'
  <1>1. PICK m \in Nat : m = Len(wal)
    BY DEF Typed, LogTyped
  <1>2. Len(wal') = m + 1 /\ (\A i \in 1 .. m : wal'[i] = wal[i]) /\ wal'[m + 1] = r
    BY <1>1, LogGrows DEF Typed, LogTyped, Logs
  <1>3. "impulse" \in Tables /\ InsertOp["impulse"] = "EnqueueImpulse"
    BY DEF Tables, InsertOp
  <1>4. ASSUME NEW i \in 1 .. m
        PROVE  /\ \A d \in Tables : wal[i].op = InsertOp[d] => wal[i].row \in Allowed(d, i)'
               /\ wal[i].op = "AckImpulse" =>
                     \A job \in said'.jobs : job.id = wal[i].row.id => Inserts("impulse", job, i)'
    <2>1. i \in Nat /\ i <= Len(wal) /\ i \in 1 .. Len(wal)
      BY <1>1
    <2>2. ASSUME NEW d \in Tables, wal[i].op = InsertOp[d]
          PROVE  wal[i].row \in Allowed(d, i)'
      <3>1. Allowed(d, i) \subseteq Allowed(d, i)'
        BY <2>1, CallFits
      <3> QED BY <2>1, <2>2, <3>1 DEF RecordsFit
    <2>3. ASSUME wal[i].op = "AckImpulse", NEW job \in said'.jobs, job.id = wal[i].row.id
          PROVE  Inserts("impulse", job, i)'
      <3>1. job \in said.jobs \/ (r.op = "EnqueueImpulse" /\ job = r.row)
        BY JobsSaid
      <3>2. job \in said.jobs => Inserts("impulse", job, i)
        BY <2>1, <2>3 DEF RecordsFit
      <3> QED BY <1>3, <2>1, <3>1, <3>2, CallLog
    <2> QED BY <2>2, <2>3
  <1>5. ASSUME NEW d \in Tables, r.op = InsertOp[d]
        PROVE  r.row \in Allowed(d, m + 1)'
    <2>1. Allows(d, r, Allowed(d, m), Allowed(d, m + 1)')
      BY <1>1, CallMoves
    <2> QED BY <1>5, <2>1 DEF Allows
  <1>6. r.op = "AckImpulse" => \A job \in said'.jobs : job.id # r.row.id
    BY JobsSaid
  <1>7. \A i \in 1 .. m + 1 : i \in 1 .. m \/ i = m + 1
    BY <1>1
  <1>8. ASSUME NEW i \in 1 .. m + 1
        PROVE  /\ \A d \in Tables : wal'[i].op = InsertOp[d] => wal'[i].row \in Allowed(d, i)'
               /\ wal'[i].op = "AckImpulse" =>
                     \A job \in said'.jobs : job.id = wal'[i].row.id => Inserts("impulse", job, i)'
    <2>1. CASE i \in 1 .. m
      BY <1>2, <1>4, <2>1
    <2>2. CASE i = m + 1
      BY <1>2, <1>5, <1>6, <2>2
    <2> QED BY <1>7, <2>1, <2>2
  <1> QED BY <1>2, <1>8 DEF RecordsFit

\* Replay does with the pages what the call did.
LEMMA ReplayMoves ==
    ASSUME Typed, RecordsFit, NEW j \in Nat, j + 1 \in 1 .. Len(wal), NEW r, r = wal[j + 1],
           NEW d \in Tables
    PROVE  /\ Allows(d, r, Allowed(d, j), Allowed(d, j + 1))
           /\ Wants(d, r, Wanted(d, j), Wanted(d, j + 1))
           /\ \A c \in 0 .. j : d = "impulse" /\ r.op = "AckImpulse" =>
                 \A w \in Wanted(d, c) : w.id # r.row.id
  <1>0. Len(wal) \in Nat /\ LogTyped
    BY DEF Typed, LogTyped
  <1>1. \A i \in j + 1 .. Len(wal) : i = j + 1 \/ i \in (j + 1) + 1 .. Len(wal)
    BY <1>0
  <1>2. \A id : Acks(id, j) => Acks(id, j + 1) \/ (r.op = "AckImpulse" /\ r.row.id = id)
    BY <1>1 DEF Acks
  <1>3. \A row : Inserts(d, row, j) => Inserts(d, row, j + 1) \/ (r.op = InsertOp[d] /\ r.row = row)
    BY <1>1 DEF Inserts
  <1>4. r.op = InsertOp[d] => r.row \in Allowed(d, j + 1)
    BY DEF RecordsFit
  <1>5. Allows(d, r, Allowed(d, j), Allowed(d, j + 1))
    BY <1>2, <1>4 DEF Allows, Allowed
  <1>6. ASSUME d = "impulse", r.op = "AckImpulse", NEW c \in 0 .. j + 1, NEW w \in Wanted(d, c)
        PROVE  w.id # r.row.id
    <2>1. w \in said.jobs /\ ~Inserts(d, w, c)
      BY <1>6 DEF Wanted, Promised
    <2>2. w.id = r.row.id => Inserts(d, w, j + 1)
      BY <1>6, <2>1 DEF RecordsFit
    <2>3. Inserts(d, w, j + 1) => Inserts(d, w, c)
      <3>1. \A i \in (j + 1) + 1 .. Len(wal) : i \in c + 1 .. Len(wal)
        BY <1>0
      <3> QED BY <3>1 DEF Inserts
    <2> QED BY <2>1, <2>2, <2>3
  <1>7. Wants(d, r, Wanted(d, j), Wanted(d, j + 1))
    <2>1. \A w \in Wanted(d, j + 1) : w \in Wanted(d, j) \/ (r.op = InsertOp[d] /\ w = r.row)
      BY <1>3 DEF Wanted
    <2>2. j + 1 \in 0 .. j + 1
      OBVIOUS
    <2> QED BY <1>6, <2>1, <2>2 DEF Wants
  <1>8. \A c \in 0 .. j : c \in 0 .. j + 1
    OBVIOUS
  <1> QED BY <1>5, <1>6, <1>7, <1>8

-----------------------------------------------------------------------------
(* Steps that apply a record. *)

\* Evictions write pages of the chain in memory, and the chain in the file is part of it.
LEMMA FileShorter ==
    ASSUME NEW n \in Nat, n >= ROOT_PAGES, NEW old \in Heap(n), NEW new \in Heap(n),
           Behind(old, new), NEW d \in Domain
    PROVE  On(old, d) \subseteq On(new, d)
  <1>1. Root[d] \in On(new, d) /\ On(new, d) \subseteq (0 .. n - 1) \ {0}
        /\ \A p \in On(new, d) : new[p].next \in On(new, d) \cup {0}
    BY OnFacts
  <1>2. DOMAIN old = 0 .. n - 1
    BY HeapLinked
  <1>3. \A p \in On(new, d) : old[p].next \in On(new, d) \cup {0}
    BY <1>1, <1>2 DEF Behind
  <1> QED BY <1>1, <1>3, OnLeast

LEMMA FileAfter ==
    ASSUME NEW n \in Nat, n >= ROOT_PAGES, NEW n2 \in {n, n + 1}, NEW r, AfterRecord(n, n2, r),
           Behind(disk, mem), NEW d \in Tables,
           NEW A1, NEW A2, A1 \subseteq A2, NEW W1, NEW W2, W2 \subseteq W1,
           d = "impulse" /\ r.op = "AckImpulse" => \A w \in W2 : w.id # r.row.id,
           Within(disk, On(mem, d), A1), Has(disk, On(disk, d), W1),
           Mirrors(disk, mem, On(mem, d), W1)
    PROVE  /\ Within(disk', On(mem', d), A2) /\ Has(disk', On(disk', d), W2)
           /\ Mirrors(disk', mem', On(mem', d), W2)
  <1>0. d \in Domain /\ n2 \in Nat /\ n2 >= ROOT_PAGES
    BY DEF Tables, Domain, ROOT_PAGES
  <1>1. mem \in Heap(n) /\ disk \in Heap(n) /\ mem' \in Heap(n2) /\ disk' \in Heap(n2)
        /\ (\A p \in 0 .. n - 1 : disk'[p] = disk[p]) /\ RowsApplied(d, mem, mem', r)
    BY DEF AfterRecord
  <1>2. mem[0].at32 = 0
    BY DEF Behind
  <1>3. On(mem', d) \subseteq On(mem, d) \cup {n} /\ On(mem', d) \subseteq 0 .. n2 - 1
        /\ On(mem, d) \subseteq 0 .. n - 1
    BY <1>0, <1>1, <1>2, OnFacts DEF AfterRecord
  <1>4. \A p \in On(mem', d) : p \notin On(mem, d) => ToSet(disk'[p].rows) = {}
    <2>1. \A p \in On(mem', d) : p \notin On(mem, d) => disk'[p] = Alloc(mem'[p].ty)
      BY <1>2, <1>3 DEF AfterRecord
    <2>2. \A ty : ToSet(Alloc(ty).rows) = {}
      BY DEF Alloc, ToSet
    <2> QED BY <2>1, <2>2
  <1>5. \A p \in On(mem, d) : disk'[p] = disk[p]
    BY <1>1, <1>3
  <1>6. Within(disk', On(mem', d), A2)
    BY <1>4, <1>5 DEF Within
  <1>7. On(disk, d) \subseteq On(disk', d)
    <2> DEFINE D == On(disk', d) \cap (0 .. n - 1)
    <2>1. /\ Root[d] \in On(disk', d)
          /\ \A p \in On(disk', d) : disk'[p].next \in On(disk', d) \cup {0}
      BY <1>0, <1>1, OnFacts
    <2>2. Root[d] \in 0 .. n - 1 /\ \A p \in 0 .. n - 1 : disk[p].next \in 0 .. n - 1
      <3>1. \A k \in 1 .. ROOT_PAGES - 1 : k \in 0 .. n - 1
        BY DEF ROOT_PAGES
      <3>2. \A p \in 0 .. n - 1 : disk[p].next \in Links(n)
        BY <1>1, HeapLinked
      <3>3. Links(n) \subseteq 0 .. n - 1
        BY DEF Links, ROOT_PAGES
      <3> QED BY <1>0, <3>1, <3>2, <3>3, RootFacts
    <2>3. Root[d] \in D /\ \A p \in D : disk[p].next \in D \cup {0}
      BY <1>1, <2>1, <2>2
    <2> HIDE DEF D
    <2>4. On(disk, d) \subseteq D
      BY <1>0, <1>1, <2>3, OnLeast
    <2> QED BY <2>4 DEF D
  <1>8. Has(disk', On(disk', d), W2)
    <2> SUFFICES ASSUME NEW w \in W2
                 PROVE  \E p \in On(disk', d) : w \in ToSet(disk'[p].rows)
      BY DEF Has
    <2>1. PICK p \in On(disk, d) : w \in ToSet(disk[p].rows)
      BY DEF Has
    <2>2. On(disk, d) \subseteq 0 .. n - 1
      BY <1>0, <1>1, OnFacts
    <2>3. disk'[p] = disk[p] /\ p \in On(disk', d)
      BY <1>1, <1>7, <2>2
    <2> QED BY <2>1, <2>3
  <1>9. Mirrors(disk', mem', On(mem', d), W2)
    <2>1. Mirrors(disk, mem', On(mem, d), W2)
      BY <1>1, MirrorKept
    <2> QED BY <1>4, <1>5, <2>1 DEF Mirrors
  <1> QED BY <1>6, <1>8, <1>9

LEMMA CallContents ==
    ASSUME Typed, ChainsSound, BondsFit, RecordsFit, ContentsFit, NEW r \in Logged, Logs(r)
    PROVE  ContentsFit'
  <1>1. PICK m \in Nat : m = Len(wal)
    BY DEF Typed, LogTyped
  <1>2. PICK c \in Nat : c = covered /\ c <= m
    BY <1>1 DEF Typed, LogTyped
  <1>3. /\ phase = "open" /\ phase' = "open" /\ covered' = c /\ setup' = setup
        /\ AppliedTo = m /\ AppliedTo' = m + 1
    <2>1. phase = "open" /\ phase' = "open" /\ covered' = covered /\ setup' = setup
      BY DEF Logs
    <2>2. Len(wal') = m + 1
      BY <1>1, LogGrows DEF Logs, Typed, LogTyped
    <2> QED BY <1>1, <1>2, <2>1, <2>2 DEF AppliedTo
  <1>4. PICK n \in Nat : n >= ROOT_PAGES /\ \E n2 \in {n, n + 1} : AfterRecord(n, n2, r)
    BY RecordStep
  <1>5. PICK n2 \in {n, n + 1} : AfterRecord(n, n2, r)
    BY <1>4
  <1>6. ASSUME NEW d \in Tables
        PROVE  /\ Within(mem', On(mem', d), Allowed(d, m + 1)')
               /\ Has(mem', On(mem', d), Wanted(d, m + 1)')
               /\ setup.free = <<>> =>
                     /\ Within(disk', On(mem', d), Allowed(d, c)')
                     /\ Has(disk', On(disk', d), Wanted(d, c)')
                     /\ Mirrors(disk', mem', On(mem', d), Wanted(d, c)')
    <2>1. FitsAt(d, m) /\ FitsAt(d, c) /\ RowsApplied(d, mem, mem', r)
      BY <1>5 DEF ContentsFit, AfterRecord
    <2>2. Within(mem, On(mem, d), Allowed(d, m)) /\ Has(mem, On(mem, d), Wanted(d, m))
      BY <1>3, <2>1 DEF FitsAt, ChainFits
    <2>3. /\ Allows(d, r, Allowed(d, m), Allowed(d, m + 1)')
          /\ Wants(d, r, Wanted(d, m), Wanted(d, m + 1)')
      BY <1>1, CallMoves
    <2>4. Within(mem', On(mem', d), Allowed(d, m + 1)')
      BY <2>1, <2>2, <2>3, RowsKept
    <2>5. Has(mem', On(mem', d), Wanted(d, m + 1)')
      BY <2>1, <2>2, <2>3, RowsThere
    <2>6. ASSUME setup.free = <<>>
          PROVE  /\ Within(disk', On(mem', d), Allowed(d, c)')
                 /\ Has(disk', On(disk', d), Wanted(d, c)')
                 /\ Mirrors(disk', mem', On(mem', d), Wanted(d, c)')
      <3>1. /\ Within(disk, On(mem, d), Allowed(d, c)) /\ Has(disk, On(disk, d), Wanted(d, c))
            /\ Mirrors(disk, mem, On(mem, d), Wanted(d, c))
        BY <1>2, <1>3, <2>1, <2>6 DEF FitsAt, FileFits
      <3>2. Behind(disk, mem)
        BY <1>3, <2>6 DEF ChainsSound
      <3>3. /\ Allowed(d, c) \subseteq Allowed(d, c)'
            /\ Wanted(d, c)' \subseteq Wanted(d, c)
            /\ d = "impulse" /\ r.op = "AckImpulse" => \A w \in Wanted(d, c)' : w.id # r.row.id
        BY <1>1, <1>2, CallFits
      <3> QED BY <1>4, <1>5, <3>1, <3>2, <3>3, FileAfter
    <2> QED BY <2>4, <2>5, <2>6
  <1>7. ASSUME NEW d \in Tables, NEW j \in Nat
        PROVE  FitsAt(d, j)'
    BY <1>3, <1>6 DEF FitsAt, ChainFits, FileFits
  <1> QED BY <1>7 DEF ContentsFit

\* Steps that leave the log and the promises alone
LEMMA SameLog ==
    ASSUME wal' = wal, said' = said
    PROVE  \A d, j : Allowed(d, j)' = Allowed(d, j) /\ Wanted(d, j)' = Wanted(d, j)
  <1>1. \A d, row, j : Inserts(d, row, j)' <=> Inserts(d, row, j)
    BY DEF Inserts
  <1>2. \A id, j : Acks(id, j)' <=> Acks(id, j)
    BY DEF Acks
  <1>3. \A d : Promised(d)' = Promised(d)
    BY DEF Promised
  <1>4. ASSUME NEW d, NEW j
        PROVE  Allowed(d, j)' = Allowed(d, j)
    BY <1>2 DEF Allowed
  <1>5. ASSUME NEW d, NEW j
        PROVE  Wanted(d, j)' = Wanted(d, j)
    BY <1>1, <1>3 DEF Wanted
  <1> QED BY <1>4, <1>5

LEMMA ReplayContents ==
    ASSUME Typed, ChainsSound, RecordsFit, ContentsFit, NEW r \in Logged, ReplayOne(r)
    PROVE  ContentsFit'
  <1>1. PICK m \in Nat : m = replayed
    BY DEF Typed, LogTyped
  <1>2. PICK c \in Nat : c = covered /\ c <= m /\ c \in 0 .. m
    BY <1>1 DEF Typed, LogTyped, ReplayOne, Skipped
  <1>3. /\ phase = "replay" /\ phase' = "replay" /\ covered' = c /\ setup' = setup
        /\ wal' = wal /\ said' = said /\ replayed' = m + 1
        /\ m + 1 \in 1 .. Len(wal) /\ r = wal[m + 1]
    BY <1>1, <1>2 DEF ReplayOne
  <1>4. AppliedTo = m /\ AppliedTo' = m + 1
    BY <1>1, <1>2, <1>3 DEF AppliedTo
  <1>5. PICK n \in Nat : n >= ROOT_PAGES /\ \E n2 \in {n, n + 1} : AfterRecord(n, n2, r)
    BY RecordStep
  <1>6. PICK n2 \in {n, n + 1} : AfterRecord(n, n2, r)
    BY <1>5
  <1>7. \A d, j : Allowed(d, j)' = Allowed(d, j) /\ Wanted(d, j)' = Wanted(d, j)
    BY <1>3, SameLog
  <1>8. ASSUME NEW d \in Tables
        PROVE  /\ Within(mem', On(mem', d), Allowed(d, m + 1))
               /\ Has(mem', On(mem', d), Wanted(d, m + 1))
               /\ setup.free = <<>> =>
                     /\ Within(disk', On(mem', d), Allowed(d, c))
                     /\ Has(disk', On(disk', d), Wanted(d, c))
                     /\ Mirrors(disk', mem', On(mem', d), Wanted(d, c))
    <2>1. FitsAt(d, m) /\ FitsAt(d, c) /\ RowsApplied(d, mem, mem', r)
      BY <1>6 DEF ContentsFit, AfterRecord
    <2>2. Within(mem, On(mem, d), Allowed(d, m)) /\ Has(mem, On(mem, d), Wanted(d, m))
      BY <1>3, <1>4, <2>1 DEF FitsAt, ChainFits
    <2>3. /\ Allows(d, r, Allowed(d, m), Allowed(d, m + 1))
          /\ Wants(d, r, Wanted(d, m), Wanted(d, m + 1))
          /\ d = "impulse" /\ r.op = "AckImpulse" => \A w \in Wanted(d, c) : w.id # r.row.id
      BY <1>2, <1>3, ReplayMoves
    <2>4. Within(mem', On(mem', d), Allowed(d, m + 1))
      BY <2>1, <2>2, <2>3, RowsKept
    <2>5. Has(mem', On(mem', d), Wanted(d, m + 1))
      BY <2>1, <2>2, <2>3, RowsThere
    <2>6. ASSUME setup.free = <<>>
          PROVE  /\ Within(disk', On(mem', d), Allowed(d, c))
                 /\ Has(disk', On(disk', d), Wanted(d, c))
                 /\ Mirrors(disk', mem', On(mem', d), Wanted(d, c))
      <3>1. /\ Within(disk, On(mem, d), Allowed(d, c)) /\ Has(disk, On(disk, d), Wanted(d, c))
            /\ Mirrors(disk, mem, On(mem, d), Wanted(d, c))
        BY <1>2, <1>3, <2>1, <2>6 DEF FitsAt, FileFits
      <3>2. Behind(disk, mem)
        BY <1>3, <2>6 DEF ChainsSound
      <3>3. Allowed(d, c) \subseteq Allowed(d, c) /\ Wanted(d, c) \subseteq Wanted(d, c)
        OBVIOUS
      <3> QED BY <1>5, <1>6, <2>3, <3>1, <3>2, <3>3, FileAfter
    <2> QED BY <2>4, <2>5, <2>6
  <1>9. ASSUME NEW d \in Tables, NEW j \in Nat
        PROVE  FitsAt(d, j)'
    BY <1>3, <1>4, <1>7, <1>8 DEF FitsAt, ChainFits, FileFits
  <1> QED BY <1>9 DEF ContentsFit

-----------------------------------------------------------------------------
(* The other steps. *)

LEMMA Weaker ==
    ASSUME NEW pages, NEW S, NEW A1, NEW A2, A1 \subseteq A2, NEW W1, NEW W2, W2 \subseteq W1,
           Within(pages, S, A1), Has(pages, S, W1)
    PROVE  Within(pages, S, A2) /\ Has(pages, S, W2)
  BY DEF Within, Has

\* An empty log allows no more than the promises, and wants all of them.
LEMMA Rotated ==
    ASSUME LogTyped, wal' = <<>>, said' = said, NEW d \in Tables
    PROVE  /\ Allowed(d, Len(wal)) \subseteq Allowed(d, 0)'
           /\ Wanted(d, 0)' \subseteq Wanted(d, Len(wal))
  <1>1. \A id : ~Acks(id, Len(wal))
    BY AtEnd
  <1>2. \A row : ~Inserts(d, row, Len(wal))
    BY AtEnd
  <1>3. Allowed(d, Len(wal)) \subseteq Allowed(d, 0)'
    BY <1>1 DEF Allowed
  <1>4. Promised(d)' = Promised(d)
    BY DEF Promised
  <1>5. Wanted(d, 0)' \subseteq Wanted(d, Len(wal))
    BY <1>2, <1>4 DEF Wanted
  <1> QED BY <1>3, <1>5

\* An eviction
LEMMA EvictContents ==
    ASSUME NEW n \in Nat, n >= ROOT_PAGES, disk \in Heap(n), mem \in Heap(n), disk' \in Heap(n),
           \A p \in 0 .. n - 1 : disk'[p] \in {disk[p], mem[p]},
           Behind(disk, mem), NEW d \in Tables, NEW A, NEW W,
           Within(mem, On(mem, d), A), Within(disk, On(mem, d), A),
           Has(disk, On(disk, d), W), Mirrors(disk, mem, On(mem, d), W)
    PROVE  /\ Within(disk', On(mem, d), A) /\ Has(disk', On(disk', d), W)
           /\ Mirrors(disk', mem, On(mem, d), W)
  <1>0. d \in Domain
    BY DEF Tables, Domain
  <1>1. On(mem, d) \subseteq 0 .. n - 1 /\ On(disk, d) \subseteq On(mem, d)
        /\ On(disk', d) \subseteq 0 .. n - 1
    BY <1>0, OnFacts, FileShorter
  <1>2. On(disk, d) \subseteq On(disk', d)
    <2>1. /\ Root[d] \in On(disk', d)
          /\ \A p \in On(disk', d) : disk'[p].next \in On(disk', d) \cup {0}
      BY <1>0, OnFacts
    <2>2. DOMAIN disk = 0 .. n - 1
      BY HeapLinked
    <2>3. \A p \in On(disk', d) : disk[p].next \in {0, disk'[p].next}
      BY <1>1, <2>2 DEF Behind
    <2>4. \A p \in On(disk', d) : disk[p].next \in On(disk', d) \cup {0}
      BY <2>1, <2>3
    <2> QED BY <1>0, <2>1, <2>4, OnLeast
  <1>3. Within(disk', On(mem, d), A)
    BY <1>1 DEF Within
  <1>4. Has(disk', On(disk', d), W)
    <2> SUFFICES ASSUME NEW w \in W
                 PROVE  \E p \in On(disk', d) : w \in ToSet(disk'[p].rows)
      BY DEF Has
    <2>1. PICK p \in On(disk, d) : w \in ToSet(disk[p].rows)
      BY DEF Has
    <2>2. w \in ToSet(mem[p].rows)
      BY <1>1, <2>1 DEF Mirrors
    <2> QED BY <1>1, <1>2, <2>1, <2>2
  <1>5. Mirrors(disk', mem, On(mem, d), W)
    BY <1>1 DEF Mirrors
  <1> QED BY <1>3, <1>4, <1>5

LEMMA FitsAfter ==
    ASSUME wal' = wal, said' = said, setup' = setup, NEW c \in Nat, covered' = c,
           NEW a \in Nat, phase' # "closed" => AppliedTo' = a, NEW d \in Tables,
           phase' = "closed" => ChainFits(disk', d, c),
           phase' # "closed" => ChainFits(mem', d, a),
           phase' # "closed" /\ setup.free = <<>> =>
              /\ Within(disk', On(mem', d), Allowed(d, c))
              /\ Has(disk', On(disk', d), Wanted(d, c))
              /\ Mirrors(disk', mem', On(mem', d), Wanted(d, c))
    PROVE  \A j \in Nat : FitsAt(d, j)'
  <1>1. \A e, j : Allowed(e, j)' = Allowed(e, j) /\ Wanted(e, j)' = Wanted(e, j)
    BY SameLog
  <1> TAKE j \in Nat
  <1>2. phase' = "closed" /\ j = covered' => ChainFits(disk, d, j)'
    BY <1>1 DEF ChainFits
  <1>3. phase' # "closed" /\ j = AppliedTo' => ChainFits(mem, d, j)'
    BY <1>1 DEF ChainFits
  <1>4. phase' # "closed" /\ j = covered' /\ setup'.free = <<>> => FileFits(d, j)'
    BY <1>1 DEF FileFits
  <1> QED BY <1>2, <1>3, <1>4 DEF FitsAt

LEMMA OwnMirror ==
    ASSUME NEW pages, NEW d, NEW j, ChainFits(pages, d, j)
    PROVE  /\ Within(pages, On(pages, d), Allowed(d, j)) /\ Has(pages, On(pages, d), Wanted(d, j))
           /\ Mirrors(pages, pages, On(pages, d), Wanted(d, j))
  BY DEF ChainFits, Mirrors

LEMMA RestContents ==
    ASSUME FreelistOutlived, Typed, Typed', ChainsSound, ContentsFit, ChainRest
    PROVE  ContentsFit'
  <1>1. setup' = setup
    BY DEF ChainRest
  <1>2. PICK n \in Nat : /\ n >= ROOT_PAGES /\ disk \in Heap(n)
                         /\ phase # "closed" => mem \in Heap(n)
    BY DEF Typed, HeapsTyped
  <1>3. LogTyped /\ LogTyped'
    BY DEF Typed
  <1>4. PICK w \in Nat, c \in Nat, a \in Nat :
           /\ w = Len(wal) /\ c = covered /\ a = AppliedTo /\ c <= a /\ a <= w
           /\ phase # "replay" => a = w
           /\ phase = "persisted" => c = w
    <2>1. /\ Len(wal) \in Nat /\ covered \in Nat /\ AppliedTo \in Nat
          /\ covered <= AppliedTo /\ AppliedTo <= Len(wal)
          /\ phase # "replay" => AppliedTo = Len(wal)
          /\ phase = "persisted" => covered = Len(wal)
      BY <1>3, AppliedBounds DEF LogTyped
    <2> QED BY <2>1
  <1>5. ASSUME NEW d \in Tables
        PROVE  /\ phase = "closed" => ChainFits(disk, d, c)
               /\ phase # "closed" => ChainFits(mem, d, a)
               /\ phase # "closed" => ChainFits(mem, d, c)
               /\ phase # "closed" /\ setup.free = <<>> =>
                     /\ Within(disk, On(mem, d), Allowed(d, c))
                     /\ Has(disk, On(disk, d), Wanted(d, c))
                     /\ Mirrors(disk, mem, On(mem, d), Wanted(d, c))
    <2>1. FitsAt(d, c) /\ FitsAt(d, a)
      BY DEF ContentsFit
    <2>2. /\ phase = "closed" => ChainFits(disk, d, c)
          /\ phase # "closed" => ChainFits(mem, d, a)
          /\ phase # "closed" /\ setup.free = <<>> => FileFits(d, c)
      BY <1>4, <2>1 DEF FitsAt
    <2>3. Allowed(d, a) \subseteq Allowed(d, c) /\ Wanted(d, c) \subseteq Wanted(d, a)
      BY <1>3, <1>4, Earlier
    <2>4. phase # "closed" => ChainFits(mem, d, c)
      BY <2>2, <2>3, Weaker DEF ChainFits
    <2> QED BY <2>2, <2>4 DEF FileFits
  <1>6. CASE UNCHANGED <<wal, said, covered, disk, mem, phase, replayed>>
    <2>1. AppliedTo' = a
      BY <1>4, <1>6 DEF AppliedTo
    <2>2. ASSUME NEW d \in Tables
          PROVE  \A j \in Nat : FitsAt(d, j)'
      BY <1>1, <1>4, <1>5, <1>6, <2>1, FitsAfter
    <2> QED BY <2>2 DEF ContentsFit
  <1>7. CASE /\ phase = "closed" /\ phase' = "replay" /\ mem' = disk
             /\ UNCHANGED <<disk, wal, said, covered, replayed>>
    <2>1. AppliedTo' = c
      <3>1. replayed' = 0
        BY <1>3, <1>7 DEF LogTyped
      <3> QED BY <1>4, <1>7, <3>1 DEF AppliedTo
    <2>2. ASSUME NEW d \in Tables
          PROVE  \A j \in Nat : FitsAt(d, j)'
      <3>1. ChainFits(mem', d, c)
        BY <1>5, <1>7
      <3>2. /\ Within(disk', On(mem', d), Allowed(d, c))
            /\ Has(disk', On(disk', d), Wanted(d, c))
            /\ Mirrors(disk', mem', On(mem', d), Wanted(d, c))
        BY <1>7, <3>1, OwnMirror
      <3> QED BY <1>1, <1>4, <1>7, <2>1, <3>1, <3>2, FitsAfter
    <2> QED BY <2>2 DEF ContentsFit
  <1>8. CASE /\ phase = "replay" /\ phase' = "open" /\ replayed = Len(wal)
             /\ UNCHANGED <<disk, wal, said, covered, mem>>
    <2>1. AppliedTo' = a
      BY <1>3, <1>4, <1>8 DEF AppliedTo, LogTyped
    <2>2. ASSUME NEW d \in Tables
          PROVE  \A j \in Nat : FitsAt(d, j)'
      BY <1>1, <1>4, <1>5, <1>8, <2>1, FitsAfter
    <2> QED BY <2>2 DEF ContentsFit
  <1>9. CASE /\ phase \in {"replay", "open"} /\ DOMAIN disk' = DOMAIN disk
             /\ \A p \in DOMAIN disk : disk'[p] \in {disk[p], mem[p]}
             /\ UNCHANGED <<wal, said, covered, mem, phase, replayed>>
    <2>1. AppliedTo' = a
      BY <1>4, <1>9 DEF AppliedTo
    <2>2. disk' \in Heap(n) /\ DOMAIN disk = 0 .. n - 1
      <3>1. DOMAIN disk = 0 .. n - 1
        BY <1>2, HeapLinked
      <3>2. PICK n2 \in Nat : n2 >= ROOT_PAGES /\ disk' \in Heap(n2) /\ mem' \in Heap(n2)
        BY <1>9 DEF Typed, HeapsTyped
      <3>3. DOMAIN disk' = 0 .. n2 - 1
        BY <3>2, HeapLinked
      <3>4. n2 = n
        <4>1. SizePages(disk) = n
          BY <1>2, <3>1, SizeOf
        <4>2. SizePages(disk) = n2
          BY <1>9, <3>2, <3>3, SizeOf
        <4> QED BY <4>1, <4>2
      <3> QED BY <3>1, <3>2, <3>4
    <2>3. ASSUME NEW d \in Tables
          PROVE  \A j \in Nat : FitsAt(d, j)'
      <3>1. ASSUME setup.free = <<>>
            PROVE  /\ Within(disk', On(mem, d), Allowed(d, c))
                   /\ Has(disk', On(disk', d), Wanted(d, c))
                   /\ Mirrors(disk', mem, On(mem, d), Wanted(d, c))
        <4>1. Behind(disk, mem) /\ mem \in Heap(n)
          BY <1>2, <1>9, <3>1 DEF ChainsSound
        <4>2. /\ Within(mem, On(mem, d), Allowed(d, c))
              /\ Within(disk, On(mem, d), Allowed(d, c))
              /\ Has(disk, On(disk, d), Wanted(d, c))
              /\ Mirrors(disk, mem, On(mem, d), Wanted(d, c))
          BY <1>5, <1>9, <3>1 DEF ChainFits
        <4>3. \A p \in 0 .. n - 1 : disk'[p] \in {disk[p], mem[p]}
          BY <1>9, <2>2
        <4> QED BY <1>2, <2>2, <4>1, <4>2, <4>3, EvictContents
      <3> QED BY <1>1, <1>4, <1>5, <1>9, <2>1, <3>1, FitsAfter
    <2> QED BY <2>3 DEF ContentsFit
  <1>10. CASE /\ phase = "open" /\ phase' = "persisted" /\ disk' = mem /\ covered' = Len(wal)
              /\ UNCHANGED <<wal, said, mem>>
    <2>1. AppliedTo' = w /\ a = w /\ covered' = w
      BY <1>4, <1>10 DEF AppliedTo
    <2>2. ASSUME NEW d \in Tables
          PROVE  \A j \in Nat : FitsAt(d, j)'
      <3>1. ChainFits(mem', d, w)
        BY <1>5, <1>10, <2>1
      <3>2. /\ Within(disk', On(mem', d), Allowed(d, w))
            /\ Has(disk', On(disk', d), Wanted(d, w))
            /\ Mirrors(disk', mem', On(mem', d), Wanted(d, w))
        BY <1>10, <3>1, OwnMirror
      <3> QED BY <1>1, <1>4, <1>10, <2>1, <3>1, <3>2, FitsAfter
    <2> QED BY <2>2 DEF ContentsFit
  <1>11. CASE /\ phase = "persisted" /\ wal' = <<>> /\ covered' = 0 /\ UNCHANGED <<disk, said>>
              /\ \/ phase' = "closed"
                 \/ phase' = "open" /\ mem' = mem
    <2>1. a = w /\ disk = mem /\ (phase' = "open" => AppliedTo' = 0)
      <3>1. Len(wal') = 0
        BY <1>11
      <3> QED BY <1>4, <1>11, <3>1 DEF AppliedTo, ChainsSound
    <2>2. ASSUME NEW d \in Tables, NEW j \in Nat
          PROVE  FitsAt(d, j)'
      <3>1. Allowed(d, w) \subseteq Allowed(d, 0)' /\ Wanted(d, 0)' \subseteq Wanted(d, w)
        BY <1>3, <1>4, <1>11, Rotated
      <3>2. Within(mem, On(mem, d), Allowed(d, w)) /\ Has(mem, On(mem, d), Wanted(d, w))
        BY <1>5, <1>11, <2>1 DEF ChainFits
      <3>3. /\ Within(disk, On(disk, d), Allowed(d, 0)') /\ Has(disk, On(disk, d), Wanted(d, 0)')
            /\ Mirrors(disk, disk, On(disk, d), Wanted(d, 0)')
        BY <2>1, <3>1, <3>2 DEF Within, Has, Mirrors
      <3>4. phase' # "closed" => mem' = disk /\ AppliedTo' = 0
        BY <1>11, <2>1
      <3> QED BY <1>11, <3>3, <3>4 DEF FitsAt, ChainFits, FileFits
    <2> QED BY <2>2 DEF ContentsFit
  <1>12. CASE /\ phase = "open" /\ phase' = "closed" /\ disk' = mem
              /\ UNCHANGED <<wal, said, covered>>
    <2>1. ASSUME NEW d \in Tables
          PROVE  \A j \in Nat : FitsAt(d, j)'
      BY <1>1, <1>4, <1>5, <1>12, FitsAfter
    <2> QED BY <2>1 DEF ContentsFit
  <1>13. CASE /\ phase # "closed" /\ phase' = "closed" /\ setup.deaths # 0
              /\ UNCHANGED <<disk, wal, said, covered>>
    <2>1. setup.free = <<>>
      BY <1>13 DEF FreelistOutlived, Typed, RestTyped
    <2>2. Behind(disk, mem) /\ mem \in Heap(n)
      BY <1>2, <1>13, <2>1 DEF ChainsSound
    <2>3. ASSUME NEW d \in Tables
          PROVE  \A j \in Nat : FitsAt(d, j)'
      <3>1. d \in Domain
        BY DEF Tables, Domain
      <3>2. On(disk, d) \subseteq On(mem, d)
        BY <1>2, <2>2, <3>1, FileShorter
      <3>3. ChainFits(disk, d, c)
        BY <1>5, <1>13, <2>1, <3>2 DEF ChainFits, Within
      <3> QED BY <1>1, <1>4, <1>13, <3>3, FitsAfter
    <2> QED BY <2>3 DEF ContentsFit
  <1>14. CASE /\ phase = "replay" /\ phase' = "replay" /\ Skipped /\ replayed' = replayed + 1
              /\ UNCHANGED <<disk, mem, wal, said, covered>>
    <2>1. AppliedTo' = a
      <3>1. replayed \in Nat /\ covered \in Nat /\ replayed < covered
        BY <1>3, <1>14 DEF LogTyped, Skipped
      <3> QED BY <1>4, <1>14, <3>1 DEF AppliedTo
    <2>2. ASSUME NEW d \in Tables
          PROVE  \A j \in Nat : FitsAt(d, j)'
      BY <1>1, <1>4, <1>5, <1>14, <2>1, FitsAfter
    <2> QED BY <2>2 DEF ContentsFit
  <1> QED BY <1>6, <1>7, <1>8, <1>9, <1>10, <1>11, <1>12, <1>13, <1>14 DEF ChainRest

-----------------------------------------------------------------------------
(* The lists that clients read. *)

LEMMA ToSetConcat ==
    ASSUME NEW T, NEW s \in Seq(T), NEW t \in Seq(T)
    PROVE  s \o t \in Seq(T) /\ ToSet(s \o t) = ToSet(s) \cup ToSet(t)
  <1> DEFINE u == s \o t
  <1>1. /\ u \in Seq(T) /\ Len(s) \in Nat /\ Len(t) \in Nat
        /\ DOMAIN u = 1 .. Len(s) + Len(t) /\ DOMAIN s = 1 .. Len(s) /\ DOMAIN t = 1 .. Len(t)
        /\ \A i \in 1 .. Len(s) : u[i] = s[i]
        /\ \A i \in 1 .. Len(t) : u[Len(s) + i] = t[i]
    OBVIOUS
  <1> HIDE DEF u
  <1>2. ASSUME NEW i \in DOMAIN u
        PROVE  u[i] \in ToSet(s) \cup ToSet(t)
    <2>1. CASE i \in 1 .. Len(s)
      BY <1>1, <2>1 DEF ToSet
    <2>2. CASE i \notin 1 .. Len(s)
      <3>1. i - Len(s) \in 1 .. Len(t) /\ Len(s) + (i - Len(s)) = i
        BY <1>1, <2>2
      <3>2. u[i] = t[i - Len(s)]
        BY <1>1, <3>1
      <3> QED BY <1>1, <3>1, <3>2 DEF ToSet
    <2> QED BY <2>1, <2>2
  <1>3. ASSUME NEW i \in DOMAIN s
        PROVE  s[i] \in ToSet(u)
    <2>1. i \in DOMAIN u /\ u[i] = s[i]
      BY <1>1
    <2> QED BY <2>1 DEF ToSet
  <1>4. ASSUME NEW i \in DOMAIN t
        PROVE  t[i] \in ToSet(u)
    <2>1. Len(s) + i \in DOMAIN u /\ u[Len(s) + i] = t[i]
      BY <1>1
    <2> QED BY <2>1 DEF ToSet
  <1>5. ToSet(u) = ToSet(s) \cup ToSet(t)
    BY <1>2, <1>3, <1>4 DEF ToSet
  <1> QED BY <1>1, <1>5 DEF u

\* Sequences without a repetition, and nothing in common
Scattered(part, len) ==
    /\ \A k \in 1 .. len : Apart(part[k])
    /\ \A j, k \in 1 .. len : j # k => ToSet(part[j]) \cap ToSet(part[k]) = {}

\* FlattenSeq takes the parts from the left.
Joins(part, len, T, f) ==
    /\ f \in [0 .. len -> Seq(T)] /\ f[0] = <<>>
    /\ \A i \in 1 .. len : f[i] = f[i - 1] \o part[i]

\* A function of SequencesExt, defined by recursion from the first part
LEMMA FlattenSteps ==
    ASSUME NEW T, NEW len, len \in Nat \ {0}, NEW part, part \in [1 .. len -> Seq(T)]
    PROVE  \E f : Joins(part, len, T, f) /\ FlattenSeq(part) = f[len]
  <1> DEFINE V == Seq(T)
             Step(f, i) == IF i = 1 THEN part[i] ELSE f[i - 1] \o part[i]
             flat == CHOOSE f : f = [i \in 1 .. len |-> Step(f, i)]
             step == [i \in 1 .. len |-> [s \in V |-> s \o part[i]]]
  <1>1. \A i \in 1 .. len : part[i] \in V
    OBVIOUS
  <1>2. PICK g \in [0 .. len -> V] :
           /\ g[0] = <<>>
           /\ \A i \in 1 .. len : g[i] = step[i][g[i - 1]]
    <2> DEFINE nil == <<>>
    <2>1. len \in Nat /\ nil \in V /\ step \in [1 .. len -> [V -> V]]
      BY <1>1
    <2> HIDE DEF step, V, nil
    <2>2. \E f \in [0 .. len -> V] :
              /\ f[0] = nil
              /\ \A i \in 1 .. len : f[i] = step[i][f[i - 1]]
      BY ONLY <2>1, Recursion
    <2> QED BY <2>2 DEF nil
  <1>3. Joins(part, len, T, g)
    <2>1. ASSUME NEW i \in 1 .. len
          PROVE  g[i] = g[i - 1] \o part[i]
      <3>1. i - 1 \in 0 .. len
        OBVIOUS
      <3>2. g[i - 1] \in V /\ g[i] = step[i][g[i - 1]]
        BY <1>2, <3>1
      <3> HIDE DEF V
      <3> QED BY <3>2
    <2> HIDE DEF step
    <2> QED BY <1>2, <2>1 DEF Joins
  <1> DEFINE f == [i \in 1 .. len |-> g[i]]
  <1>4. ASSUME NEW i \in 1 .. len
        PROVE  f[i] = Step(f, i)
    <2>1. CASE i = 1
      <3>1. 1 \in 1 .. len /\ 1 - 1 = 0
        BY <2>1
      <3>2. part[1] \in Seq(T) /\ g[1] = <<>> \o part[1]
        BY <1>1, <1>3, <3>1 DEF Joins
      <3>3. <<>> \o part[1] = part[1]
        BY <3>2
      <3> QED BY <2>1, <3>2, <3>3
    <2>2. CASE i # 1
      <3>1. i - 1 \in 1 .. len
        BY <2>2
      <3> QED BY <1>3, <2>2, <3>1 DEF Joins
    <2> QED BY <2>1, <2>2
  <1>5. f = [i \in 1 .. len |-> f[i]]
    OBVIOUS
  <1>6. f = [i \in 1 .. len |-> Step(f, i)]
    <2> HIDE DEF Step, f
    <2> QED BY <1>4, <1>5
  <1>7. flat = [i \in 1 .. len |-> Step(flat, i)]
    <2> HIDE DEF f, Step
    <2> QED BY <1>6, Zenon
  <1>8. Len(part) = len
    <2>1. part \in Seq(V)
      BY <1>1
    <2>2. DOMAIN part = 1 .. len /\ DOMAIN part = 1 .. Len(part) /\ Len(part) \in Nat
      BY <2>1
    <2> QED BY <2>2
  <1>9. FlattenSeq(part) = flat[len]
    BY <1>8 DEF FlattenSeq
  <1> HIDE DEF flat, f
  <1>10. \A i \in 1 .. len : flat[i] = Step(flat, i)
    <2> HIDE DEF Step
    <2> QED BY <1>7
  <1> DEFINE Good == {n \in Nat : n + 1 <= len => flat[n + 1] = g[n + 1]}
  <1>11. 0 \in Good
    <2>1. 1 \in 1 .. len /\ 1 - 1 = 0 /\ 0 + 1 = 1
      OBVIOUS
    <2>2. part[1] \in Seq(T) /\ g[1] = <<>> \o part[1] /\ flat[1] = part[1]
      BY <1>1, <1>3, <1>10, <2>1 DEF Joins
    <2>3. <<>> \o part[1] = part[1]
      BY <2>2
    <2> QED BY <2>1, <2>2, <2>3
  <1>12. \A n \in Nat : n \in Good => n + 1 \in Good
    <2> SUFFICES ASSUME NEW n \in Nat, n \in Good, (n + 1) + 1 <= len
                 PROVE  flat[(n + 1) + 1] = g[(n + 1) + 1]
      OBVIOUS
    <2>1. (n + 1) + 1 \in 1 .. len /\ ((n + 1) + 1) - 1 = n + 1 /\ n + 1 <= len /\ (n + 1) + 1 # 1
      OBVIOUS
    <2>2. flat[n + 1] = g[n + 1]
      BY <2>1
    <2>3. flat[(n + 1) + 1] = flat[n + 1] \o part[(n + 1) + 1]
      BY <1>10, <2>1
    <2>4. g[(n + 1) + 1] = g[n + 1] \o part[(n + 1) + 1]
      BY <1>3, <2>1 DEF Joins
    <2> QED BY <2>2, <2>3, <2>4
  <1>13. len - 1 \in Nat /\ (len - 1) + 1 = len
    OBVIOUS
  <1>14. len - 1 \in Good
    <2> HIDE DEF Good
    <2> QED BY <1>11, <1>12, <1>13, NatSetInduction
  <1>15. flat[len] = g[len]
    BY <1>13, <1>14
  <1> QED BY <1>3, <1>9, <1>15

\* What the parts have, their concatenation has.
LEMMA FlattenFacts ==
    ASSUME NEW T, NEW len, len \in Nat \ {0}, NEW part, part \in [1 .. len -> Seq(T)]
    PROVE  /\ FlattenSeq(part) \in Seq(T)
           /\ ToSet(FlattenSeq(part)) = UNION {ToSet(part[k]) : k \in 1 .. len}
           /\ Scattered(part, len) => Apart(FlattenSeq(part))
  <1>1. PICK f : Joins(part, len, T, f) /\ FlattenSeq(part) = f[len]
    BY FlattenSteps
  <1>2. /\ \A i \in 0 .. len : f[i] \in Seq(T)
        /\ f[0] = <<>> /\ \A i \in 1 .. len : f[i] = f[i - 1] \o part[i] /\ part[i] \in Seq(T)
    BY <1>1 DEF Joins
  <1> DEFINE Upto(n) == UNION {ToSet(part[k]) : k \in 1 .. n}
             Fact(n) == ToSet(f[n]) = Upto(n) /\ (Scattered(part, len) => Apart(f[n]))
             Good == {n \in Nat : n <= len => Fact(n)}
  <1>3. 0 \in Good
    <2>1. ToSet(<<>>) = {} /\ Apart(<<>>) /\ Upto(0) = {}
      BY DEF ToSet, Apart
    <2> HIDE DEF Upto
    <2> QED BY <1>2, <2>1
  <1>4. \A n \in Nat : n \in Good => n + 1 \in Good
    <2> SUFFICES ASSUME NEW n \in Nat, n \in Good, n + 1 <= len
                 PROVE  Fact(n + 1)
      <3> HIDE DEF Fact
      <3> QED OBVIOUS
    <2> DEFINE i == n + 1
    <2>1. i \in 1 .. len /\ i - 1 = n /\ n <= len /\ n \in 0 .. len
      OBVIOUS
    <2>2. ToSet(f[n]) = Upto(n) /\ (Scattered(part, len) => Apart(f[n]))
      BY <2>1
    <2>3. Upto(i) = Upto(n) \cup ToSet(part[i])
      <3>1. \A k \in 1 .. i : k \in 1 .. n \/ k = i
        OBVIOUS
      <3>2. i \in 1 .. i /\ \A k \in 1 .. n : k \in 1 .. i
        OBVIOUS
      <3> HIDE DEF i
      <3> QED BY <3>1, <3>2
    <2>4. Scattered(part, len) => Apart(part[i]) /\ Upto(n) \cap ToSet(part[i]) = {}
      <3>1. \A k \in 1 .. n : k \in 1 .. len /\ k # i
        BY <2>1
      <3> HIDE DEF i
      <3> QED BY <2>1, <3>1 DEF Scattered
    <2> HIDE DEF i, Upto
    <2>5. f[i] = f[n] \o part[i] /\ f[n] \in Seq(T) /\ part[i] \in Seq(T)
      BY <1>2, <2>1
    <2>6. ToSet(f[i]) = ToSet(f[n]) \cup ToSet(part[i])
      BY <2>5, ToSetConcat
    <2>7. Scattered(part, len) => Apart(f[i])
      BY <2>2, <2>4, <2>5, ApartConcat
    <2> QED BY <2>2, <2>3, <2>6, <2>7 DEF i
  <1>5. len \in Good
    <2> HIDE DEF Good
    <2> QED BY <1>3, <1>4, NatSetInduction
  <1>6. Fact(len) /\ f[len] \in Seq(T)
    <2>1. len <= len /\ len \in 0 .. len
      OBVIOUS
    <2> HIDE DEF Fact
    <2> QED BY <1>2, <1>5, <2>1
  <1> QED BY <1>1, <1>6

\* What is listed is what is on the chain's pages.
LEMMA Listed ==
    ASSUME NEW n \in Nat, n >= ROOT_PAGES, NEW heap \in Heap(n), NEW d \in Domain
    PROVE  ToSet(RowsOf(heap, d)) = UNION {ToSet(heap[p].rows) : p \in On(heap, d)}
  <1> DEFINE c == Chain(heap, Root[d])
             part == [k \in DOMAIN c |-> heap[c[k]].rows]
             len == Len(c)
  <1>1. Root[d] \in (0 .. n - 1) \ {0}
    BY RootFacts DEF ROOT_PAGES
  <1>2. Linked(heap) /\ DOMAIN heap = 0 .. n - 1 /\ \A p \in 0 .. n - 1 : heap[p] \in PageSet(n)
    BY HeapLinked
  <1>3. WalkFrom(heap, Root[d], c)
    BY <1>1, <1>2, ChainFacts
  <1>4. RowsOf(heap, d) = FlattenSeq(part)
    BY DEF RowsOf
  <1>5. On(heap, d) = ToSet(c)
    BY DEF On
  <1> HIDE DEF c
  <1>6. c \in Seq(0 .. n - 1) /\ c # <<>>
    BY <1>2, <1>3 DEF WalkFrom, Walks
  <1>7. len \in Nat \ {0} /\ DOMAIN c = 1 .. len /\ \A k \in 1 .. len : c[k] \in 0 .. n - 1
    BY <1>6
  <1>8. \A k \in 1 .. len : heap[c[k]].rows \in Seq(Row)
    BY <1>2, <1>7 DEF PageSet
  <1> HIDE DEF len
  <1>9. part \in [1 .. len -> Seq(Row)] /\ \A k \in 1 .. len : part[k] = heap[c[k]].rows
    BY <1>7, <1>8
  <1>10. On(heap, d) = {c[k] : k \in 1 .. len}
    BY <1>5, <1>7 DEF ToSet
  <1> HIDE DEF part
  <1>11. ToSet(FlattenSeq(part)) = UNION {ToSet(part[k]) : k \in 1 .. len}
    BY <1>7, <1>9, FlattenFacts
  <1> QED BY <1>4, <1>9, <1>10, <1>11

-----------------------------------------------------------------------------
(* Jobs and bonds. *)

Kept == Typed /\ ChainsSound /\ BondsFit /\ RecordsFit /\ ContentsFit

LEMMA InitKept == Init => Kept
  <1> SUFFICES ASSUME Init
               PROVE  Kept
    OBVIOUS
  <1>1. Typed /\ ChainsSound
    BY InitTyped, InitChains
  <1>2. /\ setup \in Setups /\ disk = HeapWith(setup.free) /\ phase = "closed" /\ wal = <<>>
        /\ said.jobs = {} /\ said.bonds = <<>>
    BY DEF Init
  <1>3. BondsFit /\ RecordsFit
    <2>1. DOMAIN said.bonds = {} /\ Len(wal) = 0
      BY <1>2
    <2> QED BY <2>1 DEF BondsFit, RecordsFit
  <1>4. ASSUME NEW d \in Tables, NEW j \in Nat
        PROVE  FitsAt(d, j)
    <2>1. PICK n \in Nat : /\ n >= ROOT_PAGES /\ disk \in Heap(n)
                           /\ \A p \in 0 .. n - 1 : disk[p].rows = <<>>
      BY <1>2, InitHeap
    <2>2. d \in Domain
      BY DEF Tables, Domain
    <2>3. On(disk, d) \subseteq 0 .. n - 1
      BY <2>1, <2>2, OnFacts
    <2>4. \A p \in On(disk, d) : ToSet(disk[p].rows) = {}
      BY <2>1, <2>3 DEF ToSet
    <2>5. Wanted(d, j) = {}
      BY <1>2 DEF Wanted, Promised
    <2> QED BY <1>2, <2>4, <2>5 DEF FitsAt, ChainFits, Within, Has
  <1> QED BY <1>1, <1>3, <1>4 DEF Kept, ContentsFit

\* Steps other than calls keep the promises, and the log or none of it.
LEMMA RestRecords ==
    ASSUME BondsFit, RecordsFit, said' = said, calls' = calls, wal' = wal \/ wal' = <<>>
    PROVE  BondsFit' /\ RecordsFit'
  <1>1. BondsFit'
    BY DEF BondsFit
  <1>2. CASE wal' = wal
    <2>1. \A d, j : Allowed(d, j)' = Allowed(d, j)
      BY <1>2, SameLog
    <2>2. \A d, row, j : Inserts(d, row, j)' <=> Inserts(d, row, j)
      BY <1>2 DEF Inserts
    <2> QED BY <1>1, <1>2, <2>1, <2>2 DEF RecordsFit
  <1>3. CASE wal' = <<>>
    <2>1. Len(wal') = 0
      BY <1>3
    <2> QED BY <1>1, <2>1 DEF RecordsFit
  <1> QED BY <1>2, <1>3

LEMMA KeptStep ==
    ASSUME FreelistOutlived, Kept, [Next]_vars
    PROVE  Kept'
  <1> USE DEF Kept
  <1>1. Typed' /\ ChainsSound'
    BY TypedStep, SoundStep
  <1>2. ASSUME NEW r \in Logged, Logs(r)
        PROVE  BondsFit' /\ RecordsFit' /\ ContentsFit'
    BY <1>2, BondsSaid, CallRecords, CallContents
  <1>3. ASSUME NEW r \in Logged, ReplayOne(r)
        PROVE  BondsFit' /\ RecordsFit' /\ ContentsFit'
    <2>1. said' = said /\ calls' = calls /\ wal' = wal
      BY <1>3 DEF ReplayOne
    <2> QED BY <1>3, <2>1, RestRecords, ReplayContents
  <1>4. ASSUME ChainRest, calls' = calls
        PROVE  BondsFit' /\ RecordsFit' /\ ContentsFit'
    <2>1. said' = said /\ (wal' = wal \/ wal' = <<>>)
      BY <1>4 DEF ChainRest
    <2> QED BY <1>1, <1>4, <2>1, RestRecords, RestContents
  <1> QED BY <1>1, <1>2, <1>3, <1>4, ChainSteps

\* What an engine that answers lists is all that was promised, and nothing more than may be.
LEMMA ListedFits ==
    ASSUME Kept, Serving, NEW d \in Tables
    PROVE  /\ Promised(d) \subseteq ToSet(RowsOf(mem, d))
           /\ ToSet(RowsOf(mem, d)) \subseteq Allowed(d, Len(wal))
           /\ \A id : ~Acks(id, Len(wal))
  <1>1. LogTyped /\ phase # "closed" /\ phase # "replay" /\ d \in Domain
    BY DEF Kept, Typed, Serving, Tables, Domain
  <1>2. PICK n \in Nat : n >= ROOT_PAGES /\ mem \in Heap(n)
    BY <1>1 DEF Kept, Typed, HeapsTyped
  <1>3. ToSet(RowsOf(mem, d)) = UNION {ToSet(mem[p].rows) : p \in On(mem, d)}
    BY <1>1, <1>2, Listed
  <1>4. PICK w \in Nat : w = Len(wal)
    BY <1>1, AppliedBounds
  <1>5. AppliedTo = w
    BY <1>1, <1>4, AppliedBounds
  <1>6. FitsAt(d, w)
    BY DEF Kept, ContentsFit
  <1>7. Within(mem, On(mem, d), Allowed(d, w)) /\ Has(mem, On(mem, d), Wanted(d, w))
    BY <1>1, <1>5, <1>6 DEF FitsAt, ChainFits
  <1>8. Wanted(d, w) = Promised(d) /\ \A id : ~Acks(id, w)
    BY <1>1, <1>4, AtEnd DEF Wanted
  <1>9. ToSet(RowsOf(mem, d)) \subseteq Allowed(d, w)
    BY <1>3, <1>7 DEF Within
  <1>10. Promised(d) \subseteq ToSet(RowsOf(mem, d))
    BY <1>3, <1>7, <1>8 DEF Has
  <1> QED BY <1>4, <1>8, <1>9, <1>10

LEMMA KeptImplies == Kept => JobsAreKept /\ BondsAreListed
  <1>1. ASSUME Kept, Serving
        PROVE  JobsIn(mem) = said.jobs
    <2>1. "impulse" \in Tables /\ Promised("impulse") = said.jobs
      BY DEF Tables, Promised
    <2>2. /\ said.jobs \subseteq JobsIn(mem)
          /\ JobsIn(mem) \subseteq Allowed("impulse", Len(wal))
          /\ \A id : ~Acks(id, Len(wal))
      BY <1>1, <2>1, ListedFits DEF JobsIn
    <2>3. Allowed("impulse", Len(wal)) \subseteq said.jobs
      BY <2>2 DEF Allowed
    <2> QED BY <2>2, <2>3
  <1>2. ASSUME Kept, Serving
        PROVE  LET listed == ToSet(RowsOf(mem, "bond"))
               IN  /\ \A key \in DOMAIN said.bonds : said.bonds[key] \in listed
                   /\ \A row \in listed : row.v <= said.bonds[row.key].v
    <2>1. "bond" \in Tables /\ Promised("bond") = {said.bonds[k] : k \in DOMAIN said.bonds}
      BY DEF Tables, Promised
    <2>2. /\ Promised("bond") \subseteq ToSet(RowsOf(mem, "bond"))
          /\ ToSet(RowsOf(mem, "bond")) \subseteq Allowed("bond", Len(wal))
      BY <1>2, <2>1, ListedFits
    <2>3. \A row \in Allowed("bond", Len(wal)) : row.v <= said.bonds[row.key].v
      BY DEF Allowed
    <2> QED BY <2>1, <2>2, <2>3
  <1> QED BY <1>1, <1>2 DEF JobsAreKept, BondsAreListed

\* A job that was scheduled is on the impulse pages until it is acknowledged, and an
\* acknowledged one never comes back, whatever evictions wrote before the process died and
\* however often replay starts again: a page of the file may lack what the log repeats,
\* and may have more only while the log has the acknowledgement.
THEOREM JobsStayUntilAcked ==
    ASSUME FreelistOutlived
    PROVE  Spec => []JobsAreKept
  <1>1. Kept /\ [Next]_vars => Kept'
    BY KeptStep
  <1>2. Kept => JobsAreKept
    BY KeptImplies
  <1> QED BY <1>1, <1>2, InitKept, PTL DEF Spec

\* The last tuple of every bond is among those that bond_list lists, and it lists none
\* newer than that: older tuples stay, so that readers take the last.
THEOREM LastBondsListed ==
    ASSUME FreelistOutlived
    PROVE  Spec => []BondsAreListed
  <1>1. Kept /\ [Next]_vars => Kept'
    BY KeptStep
  <1>2. Kept => BondsAreListed
    BY KeptImplies
  <1> QED BY <1>1, <1>2, InitKept, PTL DEF Spec

-----------------------------------------------------------------------------
(* Jobs that redo does not repeat, while pages are written by checkpoints only. *)

JobsOn(h) == UNION {ToSet(h[p].rows) : p \in On(h, "impulse")}

Single(h) ==
    /\ \A p \in On(h, "impulse") : Apart(h[p].rows)
    /\ \A p, q \in On(h, "impulse") : p # q => ToSet(h[p].rows) \cap ToSet(h[q].rows) = {}

\* No job is on the chain twice, and none that a record behind the j-th brings.
Once(h, j) ==
    /\ Single(h)
    /\ \A x \in JobsOn(h) : x.v \in 0 .. calls /\ ~Inserts("impulse", x, j)

\* No two records bring the same job.
LoggedOnce ==
    \A i \in 1 .. Len(wal) : wal[i].op = "EnqueueImpulse" =>
        wal[i].row.v \in 0 .. calls /\ ~Inserts("impulse", wal[i].row, i)

\* Of a file with a freelist nothing need hold but when the process is gone: it does not die.
JobsOnce ==
    /\ flushes \in Nat /\ LoggedOnce
    /\ flushes = 0 =>
          /\ phase # "closed" => Once(mem, AppliedTo)
          /\ phase = "closed" \/ setup.free = <<>> => Once(disk, covered)

\* A record that brings nothing which is there brings no repetition.
LEMMA AppliedSingle ==
    ASSUME NEW n \in Nat, n >= ROOT_PAGES, NEW h \in Heap(n), NEW g, NEW r \in Logged,
           Single(h), RowsApplied("impulse", h, g, r),
           r.op = "EnqueueImpulse" => r.row \notin JobsOn(h)
    PROVE  /\ Single(g)
           /\ \A x \in JobsOn(g) : x \in JobsOn(h) \/ (r.op = "EnqueueImpulse" /\ x = r.row)
  <1>0. "impulse" \in Domain /\ InsertOp["impulse"] = "EnqueueImpulse"
    BY DEF Domain, InsertOp
  <1> DEFINE C == On(h, "impulse")
             D == On(g, "impulse")
  <1>1. \A p \in C : h[p].rows \in Seq(Row)
    <2>1. C \subseteq 0 .. n - 1
      BY <1>0, OnFacts
    <2>2. \A p \in 0 .. n - 1 : h[p] \in PageSet(n)
      BY HeapLinked
    <2> HIDE DEF C
    <2> QED BY <2>1, <2>2 DEF PageSet
  <1>2. /\ \A p \in C : Apart(h[p].rows)
        /\ \A p, q \in C : p # q => ToSet(h[p].rows) \cap ToSet(h[q].rows) = {}
    BY DEF Single
  <1>3. JobsOn(h) = UNION {ToSet(h[p].rows) : p \in C} /\ JobsOn(g) = UNION {ToSet(g[p].rows) : p \in D}
    BY DEF JobsOn
  <1>4. CASE r.op = "EnqueueImpulse"
    <2>1. PICK a \in D : AddedTo(h, g, "impulse", r.row, a)
      BY <1>0, <1>4 DEF RowsApplied, Added
    <2> DEFINE old == IF a \in C THEN h[a].rows ELSE <<>>
    <2>2. /\ D \subseteq C \cup {a} /\ g[a].rows = Append(old, r.row)
          /\ \A p \in C : p # a => g[p].rows = h[p].rows
      BY <2>1 DEF AddedTo
    <2>3. old \in Seq(Row) /\ Apart(old) /\ ToSet(old) \subseteq JobsOn(h)
      <3>1. CASE a \in C
        BY <1>1, <1>2, <1>3, <3>1
      <3>2. CASE a \notin C
        <4>1. old = <<>> /\ ToSet(<<>>) = {} /\ <<>> \in Seq(Row) /\ Apart(<<>>)
          BY <3>2 DEF ToSet, Apart
        <4> HIDE DEF old
        <4> QED BY <4>1
      <3> QED BY <3>1, <3>2
    <2>4. \A p \in C : p # a => ToSet(h[p].rows) \cap ToSet(old) = {}
      <3>1. CASE a \in C
        BY <1>2, <3>1
      <3>2. CASE a \notin C
        BY <3>2 DEF ToSet
      <3> QED BY <3>1, <3>2
    <2> HIDE DEF old, C, D
    <2>5. r.row \notin JobsOn(h)
      BY <1>4
    <2>6. Apart(g[a].rows) /\ ToSet(g[a].rows) = ToSet(old) \cup {r.row}
      <3>1. r.row \notin ToSet(old)
        BY <2>3, <2>5
      <3> QED BY <2>2, <2>3, <3>1, ApartAppend, ToSetAppend
    <2>7. \A p \in D : p # a => p \in C /\ g[p].rows = h[p].rows
      BY <2>2
    <2>8. \A p \in C : r.row \notin ToSet(h[p].rows)
      BY <1>3, <2>5
    <2>9. \A p \in D : Apart(g[p].rows)
      BY <1>2, <2>6, <2>7
    <2>10. ASSUME NEW p \in D, NEW q \in D, p # q
           PROVE  ToSet(g[p].rows) \cap ToSet(g[q].rows) = {}
      <3>1. CASE p # a /\ q # a
        BY <1>2, <2>7, <2>10, <3>1
      <3>2. CASE p = a
        <4>1. q # a /\ q \in C /\ g[q].rows = h[q].rows
          BY <2>7, <2>10, <3>2
        <4> QED BY <2>4, <2>6, <2>8, <3>2, <4>1
      <3>3. CASE q = a
        <4>1. p # a /\ p \in C /\ g[p].rows = h[p].rows
          BY <2>7, <2>10, <3>3
        <4> QED BY <2>4, <2>6, <2>8, <3>3, <4>1
      <3> QED BY <3>1, <3>2, <3>3
    <2>11. \A p \in D : ToSet(g[p].rows) \subseteq JobsOn(h) \cup {r.row}
      <3> TAKE p \in D
      <3>1. CASE p = a
        BY <2>3, <2>6, <3>1
      <3>2. CASE p # a
        BY <1>3, <2>7, <3>2
      <3> QED BY <3>1, <3>2
    <2>12. Single(g)
      BY <2>9, <2>10 DEF Single, D
    <2> QED BY <1>3, <1>4, <2>11, <2>12
  <1>5. CASE r.op = "AckImpulse"
    <2>1. D = C /\ \A p \in C : g[p].rows = Others(h[p].rows, "id", r.row.id)
      BY <1>5 DEF RowsApplied, Removed
    <2> HIDE DEF C, D
    <2>2. ASSUME NEW p \in C
          PROVE  Apart(g[p].rows) /\ ToSet(g[p].rows) \subseteq ToSet(h[p].rows)
      BY <1>1, <1>2, <2>1, OthersFacts
    <2>3. \A p, q \in C : p # q => ToSet(g[p].rows) \cap ToSet(g[q].rows) = {}
      BY <1>2, <2>2
    <2>4. Single(g)
      BY <2>1, <2>2, <2>3 DEF Single, D
    <2>5. \A x \in JobsOn(g) : x \in JobsOn(h)
      BY <1>3, <2>1, <2>2
    <2> QED BY <2>4, <2>5
  <1>6. CASE r.op \notin {"EnqueueImpulse", "AckImpulse"}
    <2>1. D = C /\ \A p \in C : g[p].rows = h[p].rows
      BY <1>0, <1>6 DEF RowsApplied, Untouched
    <2> HIDE DEF C, D
    <2>2. \A p \in C : Apart(g[p].rows) /\ ToSet(g[p].rows) = ToSet(h[p].rows)
      BY <1>2, <2>1
    <2>3. \A p, q \in C : p # q => ToSet(g[p].rows) \cap ToSet(g[q].rows) = {}
      BY <1>2, <2>2
    <2>4. Single(g)
      BY <2>1, <2>2, <2>3 DEF Single, D
    <2>5. \A x \in JobsOn(g) : x \in JobsOn(h)
      BY <1>3, <2>1, <2>2
    <2> QED BY <2>4, <2>5
  <1> QED BY <1>4, <1>5, <1>6

\* The chain in the file does not change when pages are only added to it.
LEMMA FileSingle ==
    ASSUME NEW n \in Nat, n >= ROOT_PAGES, NEW n2 \in {n, n + 1}, NEW h \in Heap(n), NEW g \in Heap(n2),
           \A p \in 0 .. n - 1 : g[p] = h[p], Single(h)
    PROVE  Single(g) /\ JobsOn(g) \subseteq JobsOn(h)
  <1>0. "impulse" \in Domain /\ n2 \in Nat /\ n2 >= ROOT_PAGES
    BY DEF Domain, ROOT_PAGES
  <1> DEFINE C == On(h, "impulse")
             D == On(g, "impulse")
  <1>1. /\ Root["impulse"] \in C /\ C \subseteq 0 .. n - 1
        /\ \A p \in C : h[p].next \in C \cup {0}
    BY <1>0, OnFacts
  <1>2. \A p \in C : g[p] = h[p]
    BY <1>1
  <1> HIDE DEF C
  <1>3. D \subseteq C
    <2>1. \A p \in C : g[p].next \in C \cup {0}
      BY <1>1, <1>2
    <2> QED BY <1>0, <1>1, <2>1, OnLeast
  <1> HIDE DEF D
  <1>4. \A p \in D : p \in C /\ g[p].rows = h[p].rows
    BY <1>2, <1>3
  <1>5. /\ \A p \in C : Apart(h[p].rows)
        /\ \A p, q \in C : p # q => ToSet(h[p].rows) \cap ToSet(h[q].rows) = {}
    BY DEF Single, C
  <1>6. Single(g)
    BY <1>4, <1>5 DEF Single, D
  <1>7. JobsOn(g) \subseteq JobsOn(h)
    BY <1>4 DEF JobsOn, C, D
  <1> QED BY <1>6, <1>7

\* What a call adds to what the log brings is its own row.
LEMMA CallInserts ==
    ASSUME Typed, NEW r \in Logged, Logs(r), NEW row, NEW j \in Nat
    PROVE  Inserts("impulse", row, j)' =>
              Inserts("impulse", row, j) \/ (r.op = "EnqueueImpulse" /\ row = r.row)
  <1>1. PICK m \in Nat : m = Len(wal)
    BY DEF Typed, LogTyped
  <1>2. Len(wal') = m + 1 /\ (\A i \in 1 .. m : wal'[i] = wal[i]) /\ wal'[m + 1] = r
    BY <1>1, LogGrows DEF Typed, LogTyped, Logs
  <1>3. InsertOp["impulse"] = "EnqueueImpulse"
    BY DEF InsertOp
  <1>4. ASSUME NEW i \in j + 1 .. m + 1, wal'[i].op = "EnqueueImpulse", wal'[i].row = row
        PROVE  Inserts("impulse", row, j) \/ (r.op = "EnqueueImpulse" /\ row = r.row)
    <2>1. CASE i = m + 1
      BY <1>2, <1>4, <2>1
    <2>2. CASE i # m + 1
      <3>1. i \in j + 1 .. Len(wal) /\ i \in 1 .. m
        BY <1>1, <2>2
      <3> QED BY <1>2, <1>3, <1>4, <3>1 DEF Inserts
    <2> QED BY <2>1, <2>2
  <1> QED BY <1>2, <1>3, <1>4 DEF Inserts

-----------------------------------------------------------------------------
\* A call brings a value that no job has, in memory, in the file or in the log.
LEMMA CallOnce ==
    ASSUME Typed, Typed', ChainsSound, JobsOnce, NEW r \in Logged, Logs(r)
    PROVE  JobsOnce'
  <1>1. PICK m \in Nat : m = Len(wal)
    BY DEF Typed, LogTyped
  <1>2. PICK c \in Nat : c = covered /\ c <= m
    BY <1>1 DEF Typed, LogTyped
  <1>3. /\ Len(wal') = m + 1 /\ (\A i \in 1 .. m : wal'[i] = wal[i]) /\ wal'[m + 1] = r
        /\ phase = "open" /\ phase' = "open" /\ covered' = covered /\ setup' = setup
        /\ calls' = calls + 1 /\ calls \in Nat /\ flushes' = flushes /\ flushes \in Nat
        /\ r.op = "EnqueueImpulse" => r.row.v = calls + 1
    BY <1>1, LogGrows DEF Typed, LogTyped, RestTyped, Logs, JobsOnce, Value
  <1>4. AppliedTo = m /\ AppliedTo' = m + 1
    BY <1>1, <1>3 DEF AppliedTo
  <1>5. \A v \in 0 .. calls : v \in 0 .. calls' /\ v # calls + 1
    BY <1>3
  <1>6. ASSUME NEW x, x.v \in 0 .. calls, NEW j \in Nat, Inserts("impulse", x, j)'
        PROVE  Inserts("impulse", x, j)
    BY <1>3, <1>5, <1>6, CallInserts
  <1>7. LoggedOnce'
    <2>1. ASSUME NEW i \in 1 .. m + 1, NEW x, wal'[i].op = "EnqueueImpulse", x = wal'[i].row
          PROVE  x.v \in 0 .. calls' /\ ~Inserts("impulse", x, i)'
      <3>1. CASE i = m + 1
        <4>1. i + 1 .. Len(wal') = {}
          BY <1>3, <3>1
        <4>2. calls + 1 \in 0 .. calls'
          BY <1>3
        <4> QED BY <1>3, <2>1, <3>1, <4>1, <4>2 DEF Inserts
      <3>2. CASE i # m + 1
        <4>1. i \in 1 .. Len(wal) /\ wal'[i] = wal[i] /\ i \in Nat
          BY <1>1, <1>3, <3>2
        <4>2. wal[i].row.v \in 0 .. calls /\ ~Inserts("impulse", wal[i].row, i)
          BY <2>1, <4>1 DEF JobsOnce, LoggedOnce
        <4> QED BY <1>5, <1>6, <2>1, <4>1, <4>2
      <3> QED BY <3>1, <3>2
    <2>2. ASSUME NEW i \in 1 .. m + 1, wal'[i].op = "EnqueueImpulse"
          PROVE  wal'[i].row.v \in 0 .. calls' /\ ~Inserts("impulse", wal[i].row, i)'
      <3>1. PICK x : x = wal'[i].row
        OBVIOUS
      <3>2. x.v \in 0 .. calls' /\ ~Inserts("impulse", x, i)'
        BY <2>1, <2>2, <3>1
      <3> QED BY <3>1, <3>2 DEF Inserts
    <2> QED BY <1>3, <2>2 DEF LoggedOnce
  <1>12. PICK n \in Nat : n >= ROOT_PAGES /\ \E n2 \in {n, n + 1} : AfterRecord(n, n2, r)
    BY RecordStep
  <1>8. PICK n2 \in {n, n + 1} : AfterRecord(n, n2, r)
    BY <1>12
  <1>9. /\ mem \in Heap(n) /\ disk \in Heap(n) /\ disk' \in Heap(n2)
        /\ \A p \in 0 .. n - 1 : disk'[p] = disk[p]
        /\ RowsApplied("impulse", mem, mem', r)
    BY <1>8 DEF AfterRecord, Tables
  <1>10. ASSUME flushes = 0
         PROVE  Once(mem, AppliedTo)'
    <2>1. Once(mem, AppliedTo)
      BY <1>3, <1>10 DEF JobsOnce
    <2>2. Single(mem) /\ \A x \in JobsOn(mem) : x.v \in 0 .. calls
      BY <2>1 DEF Once
    <2>3. r.op = "EnqueueImpulse" => r.row \notin JobsOn(mem)
      BY <1>3, <1>5, <2>2
    <2>4. Single(mem') /\ \A x \in JobsOn(mem') :
                              x \in JobsOn(mem) \/ (r.op = "EnqueueImpulse" /\ x = r.row)
      BY <1>8, <1>9, <1>12, <2>2, <2>3, AppliedSingle
    <2>5. \A x \in JobsOn(mem') : x.v \in 0 .. calls'
      <3>1. calls + 1 \in 0 .. calls'
        BY <1>3
      <3> QED BY <1>3, <1>5, <2>2, <2>4, <3>1
    <2>6. AppliedTo' + 1 .. Len(wal') = {}
      BY <1>3, <1>4
    <2> QED BY <2>4, <2>5, <2>6 DEF Once, Inserts
  <1>11. ASSUME flushes = 0, setup.free = <<>>
         PROVE  Once(disk, covered)'
    <2>1. Once(disk, covered)
      BY <1>3, <1>11 DEF JobsOnce
    <2>2. Single(disk) /\ \A x \in JobsOn(disk) : x.v \in 0 .. calls /\ ~Inserts("impulse", x, c)
      BY <1>2, <2>1 DEF Once
    <2>3. Single(disk') /\ JobsOn(disk') \subseteq JobsOn(disk)
      BY <1>8, <1>9, <1>12, <2>2, FileSingle
    <2>4. \A x \in JobsOn(disk') : x.v \in 0 .. calls' /\ ~Inserts("impulse", x, c)'
      BY <1>5, <1>6, <2>2, <2>3
    <2> QED BY <1>2, <1>3, <2>3, <2>4 DEF Once, Inserts
  <1> QED BY <1>3, <1>7, <1>10, <1>11 DEF JobsOnce

\* Replay brings the next record's job, and no page has seen that record.
LEMMA ReplayOnce ==
    ASSUME Typed, ChainsSound, JobsOnce, NEW r \in Logged, ReplayOne(r), flushes' = flushes
    PROVE  JobsOnce'
  <1>1. PICK m \in Nat : m = replayed
    BY DEF Typed, LogTyped
  <1>2. PICK c \in Nat : c = covered /\ c <= m
    BY <1>1 DEF Typed, LogTyped, ReplayOne, Skipped
  <1>3. /\ phase = "replay" /\ phase' = "replay" /\ covered' = covered /\ setup' = setup
        /\ wal' = wal /\ calls' = calls /\ replayed' = m + 1
        /\ m + 1 \in 1 .. Len(wal) /\ r = wal[m + 1] /\ Len(wal) \in Nat
    BY <1>1 DEF ReplayOne, Typed, LogTyped
  <1>4. AppliedTo = m /\ AppliedTo' = m + 1
    BY <1>1, <1>2, <1>3 DEF AppliedTo
  <1>5. flushes' \in Nat /\ LoggedOnce'
    BY <1>3 DEF JobsOnce, LoggedOnce, Inserts
  <1>12. PICK n \in Nat : n >= ROOT_PAGES /\ \E n2 \in {n, n + 1} : AfterRecord(n, n2, r)
    BY RecordStep
  <1>6. PICK n2 \in {n, n + 1} : AfterRecord(n, n2, r)
    BY <1>12
  <1>7. /\ mem \in Heap(n) /\ disk \in Heap(n) /\ disk' \in Heap(n2)
        /\ \A p \in 0 .. n - 1 : disk'[p] = disk[p]
        /\ RowsApplied("impulse", mem, mem', r)
    BY <1>6 DEF AfterRecord, Tables
  <1>8. ASSUME flushes = 0
        PROVE  Once(mem, AppliedTo)'
    <2>1. Once(mem, AppliedTo)
      BY <1>3, <1>8 DEF JobsOnce
    <2>2. Single(mem) /\ \A x \in JobsOn(mem) : x.v \in 0 .. calls /\ ~Inserts("impulse", x, m)
      BY <1>4, <2>1 DEF Once
    <2>3. r.op = "EnqueueImpulse" => Inserts("impulse", r.row, m)
      BY <1>3 DEF Inserts, InsertOp
    <2>4. Single(mem') /\ \A x \in JobsOn(mem') :
                              x \in JobsOn(mem) \/ (r.op = "EnqueueImpulse" /\ x = r.row)
      BY <1>6, <1>7, <1>12, <2>2, <2>3, AppliedSingle
    <2>5. r.op = "EnqueueImpulse" => r.row.v \in 0 .. calls /\ ~Inserts("impulse", r.row, m + 1)
      BY <1>3 DEF JobsOnce, LoggedOnce
    <2>6. \A x : Inserts("impulse", x, m + 1) => Inserts("impulse", x, m)
      <3>1. \A i \in (m + 1) + 1 .. Len(wal) : i \in m + 1 .. Len(wal)
        BY <1>3
      <3> QED BY <3>1 DEF Inserts
    <2>7. \A x \in JobsOn(mem') : x.v \in 0 .. calls /\ ~Inserts("impulse", x, m + 1)
      BY <2>2, <2>4, <2>5, <2>6
    <2> QED BY <1>3, <1>4, <2>4, <2>7 DEF Once, Inserts
  <1>9. ASSUME flushes = 0, setup.free = <<>>
        PROVE  Once(disk, covered)'
    <2>1. Once(disk, covered)
      BY <1>3, <1>9 DEF JobsOnce
    <2>2. Single(disk) /\ \A x \in JobsOn(disk) : x.v \in 0 .. calls /\ ~Inserts("impulse", x, c)
      BY <1>2, <2>1 DEF Once
    <2>3. Single(disk') /\ JobsOn(disk') \subseteq JobsOn(disk)
      BY <1>6, <1>7, <1>12, <2>2, FileSingle
    <2>4. \A x \in JobsOn(disk') : x.v \in 0 .. calls /\ ~Inserts("impulse", x, c)
      BY <2>2, <2>3
    <2> QED BY <1>2, <1>3, <2>3, <2>4 DEF Once, Inserts
  <1> QED BY <1>3, <1>5, <1>8, <1>9 DEF JobsOnce

\* The steps that apply no record and write no page but in a checkpoint
Quiet ==
    /\ UNCHANGED <<setup, calls, flushes>>
    /\ \/ UNCHANGED <<wal, covered, disk, mem, phase, replayed>>
       \/ /\ phase = "closed" /\ phase' = "replay" /\ mem' = disk
          /\ UNCHANGED <<disk, wal, covered, replayed>>
       \/ /\ phase = "replay" /\ phase' = "open" /\ replayed = Len(wal)
          /\ UNCHANGED <<disk, wal, covered, mem>>
       \/ /\ phase = "open" /\ phase' = "persisted" /\ disk' = mem /\ covered' = Len(wal)
          /\ UNCHANGED <<wal, mem>>
       \/ /\ phase = "persisted" /\ wal' = <<>> /\ covered' = 0 /\ disk' = disk
          /\ \/ phase' = "closed"
             \/ phase' = "open" /\ mem' = mem
       \/ /\ phase # "closed" /\ phase' = "closed" /\ setup.deaths # 0
          /\ UNCHANGED <<disk, wal, covered>>
       \/ /\ phase = "replay" /\ phase' = "replay" /\ Skipped /\ replayed' = replayed + 1
          /\ UNCHANGED <<disk, mem, wal, covered>>

\* The steps that write pages
Writes == flushes' = flushes + 1 /\ UNCHANGED <<wal, calls>>

\* Every step is one of these kinds.
LEMMA QuietSteps ==
    ASSUME Typed, [Next]_vars
    PROVE  \/ \E r \in Logged : Logs(r) \/ (ReplayOne(r) /\ flushes' = flushes)
           \/ Quiet \/ Writes
  <1>1. RestTyped
    BY DEF Typed
  <1>2. Tick \/ UNCHANGED vars => Quiet
    BY DEF Quiet, Tick, vars
  <1>3. Open => Quiet
    BY DEF Quiet, Open
  <1>4. Opened => Quiet
    BY DEF Quiet, Opened
  <1>5. ASSUME NEW id \in DOMAIN mem, Evict(id)
        PROVE  Writes
    BY <1>5 DEF Writes, Evict
  <1>6. CkptPersist => Quiet
    BY DEF Quiet, CkptPersist
  <1>7. CkptRotate => Quiet
    BY DEF Quiet, CkptRotate, Gone
  <1>8. CloseSkipped => Writes
    BY DEF Writes, CloseSkipped, Gone
  <1>9. Crash => Quiet
    <2>1. Crash => setup.deaths # 0
      <3> SUFFICES ASSUME crashes < setup.deaths
                   PROVE  setup.deaths # 0
        BY DEF Crash
      <3>1. crashes \in Nat /\ setup.deaths \in Nat
        BY DomainsAssumption DEF Typed, RestTyped
      <3> QED BY <3>1
    <2> QED BY <2>1 DEF Quiet, Crash, Gone
  <1>10. ASSUME Replay
         PROVE  (\E r \in Logged : ReplayOne(r) /\ flushes' = flushes) \/ Quiet
    <2>1. replayed + 1 \in 1 .. Len(wal) /\ wal[replayed + 1] \in Logged /\ flushes' = flushes
      BY <1>10, ReplayTyped DEF Replay
    <2>2. CASE Skipped
      BY <1>10, <2>2 DEF Replay, Quiet, Becomes, E
    <2>3. CASE ~Skipped
      <3>1. ReplayOne(wal[replayed + 1])
        BY <1>10, <2>1, <2>3 DEF Replay, ReplayOne
      <3> QED BY <2>1, <3>1
    <2> QED BY <2>2, <2>3
  <1> QED BY <1>1, <1>2, <1>3, <1>4, <1>5, <1>6, <1>7, <1>8, <1>9, <1>10, EveryStep

\* The other steps move at most the place from which the log would be replayed, past
\* records the pages have seen, or lose the process and with it what the file lacks.
LEMMA QuietOnce ==
    ASSUME FreelistOutlived, Typed, ChainsSound, JobsOnce, Quiet
    PROVE  JobsOnce'
  <1>1. /\ setup' = setup /\ calls' = calls /\ flushes' = flushes
        /\ Len(wal) \in Nat /\ covered \in Nat /\ covered <= Len(wal)
        /\ replayed \in Nat /\ (phase # "replay" => replayed = 0) /\ setup \in Setups
        /\ flushes \in Nat /\ LoggedOnce
    BY DEF Quiet, Typed, LogTyped, RestTyped, JobsOnce
  <1>2. LoggedOnce'
    <2>1. wal' = wal \/ wal' = <<>>
      BY DEF Quiet
    <2>2. CASE wal' = wal
      BY <1>1, <2>2 DEF LoggedOnce, Inserts
    <2>3. CASE wal' = <<>>
      <3>1. Len(wal') = 0
        BY <2>3
      <3> QED BY <3>1 DEF LoggedOnce
    <2> QED BY <2>1, <2>2, <2>3
  <1>3. ASSUME flushes = 0
        PROVE  /\ phase' # "closed" => Once(mem, AppliedTo)'
               /\ phase' = "closed" \/ setup'.free = <<>> => Once(disk, covered)'
    <2>1. /\ phase # "closed" => Once(mem, AppliedTo)
          /\ phase = "closed" \/ setup.free = <<>> => Once(disk, covered)
      BY <1>3 DEF JobsOnce
    <2>2. CASE UNCHANGED <<wal, covered, disk, mem, phase, replayed>>
      BY <1>1, <2>1, <2>2 DEF Once, Inserts, AppliedTo
    <2>3. CASE /\ phase = "closed" /\ phase' = "replay" /\ mem' = disk
               /\ UNCHANGED <<disk, wal, covered, replayed>>
      <3>1. AppliedTo' = covered
        BY <1>1, <2>3 DEF AppliedTo
      <3> QED BY <1>1, <2>1, <2>3, <3>1 DEF Once, Inserts
    <2>4. CASE /\ phase = "replay" /\ phase' = "open" /\ replayed = Len(wal)
               /\ UNCHANGED <<disk, wal, covered, mem>>
      <3>1. AppliedTo' = AppliedTo
        BY <1>1, <2>4 DEF AppliedTo
      <3> QED BY <1>1, <2>1, <2>4, <3>1 DEF Once, Inserts
    <2>5. CASE /\ phase = "open" /\ phase' = "persisted" /\ disk' = mem /\ covered' = Len(wal)
               /\ UNCHANGED <<wal, mem>>
      <3>1. AppliedTo' = AppliedTo /\ covered' = AppliedTo
        BY <2>5 DEF AppliedTo
      <3> QED BY <1>1, <2>1, <2>5, <3>1 DEF Once, Inserts
    <2>6. CASE /\ phase = "persisted" /\ wal' = <<>> /\ covered' = 0 /\ disk' = disk
               /\ \/ phase' = "closed"
                  \/ phase' = "open" /\ mem' = mem
      <3>1. disk = mem /\ Once(mem, AppliedTo)
        BY <2>1, <2>6 DEF ChainsSound
      <3>2. Single(mem) /\ \A x \in JobsOn(mem) : x.v \in 0 .. calls
        BY <3>1 DEF Once
      <3>3. \A x, j : j \in Nat => ~Inserts("impulse", x, j)'
        <4>1. Len(wal') = 0
          BY <2>6
        <4>2. \A j \in Nat : j + 1 .. 0 = {}
          OBVIOUS
        <4> QED BY <4>1, <4>2 DEF Inserts
      <3>4. phase' # "closed" => AppliedTo' = 0
        BY <2>6 DEF AppliedTo
      <3> QED BY <1>1, <2>6, <3>1, <3>2, <3>3, <3>4 DEF Once, Inserts
    <2>7. CASE /\ phase # "closed" /\ phase' = "closed" /\ setup.deaths # 0
               /\ UNCHANGED <<disk, wal, covered>>
      <3>1. setup.free = <<>>
        BY <1>1, <2>7 DEF FreelistOutlived
      <3> QED BY <1>1, <2>1, <2>7, <3>1 DEF Once, Inserts
    <2>8. CASE /\ phase = "replay" /\ phase' = "replay" /\ Skipped /\ replayed' = replayed + 1
               /\ UNCHANGED <<disk, mem, wal, covered>>
      <3>1. AppliedTo = covered /\ AppliedTo' = covered
        <4>1. replayed < covered /\ (replayed + 1 < covered \/ replayed + 1 = covered)
          BY <1>1, <2>8 DEF Skipped
        <4> QED BY <2>8, <4>1 DEF AppliedTo
      <3> QED BY <1>1, <2>1, <2>8, <3>1 DEF Once, Inserts
    <2> QED BY <2>2, <2>3, <2>4, <2>5, <2>6, <2>7, <2>8 DEF Quiet
  <1> QED BY <1>1, <1>2, <1>3 DEF JobsOnce

\* After a write-back outside a checkpoint nothing is claimed any more.
LEMMA OnceStep ==
    ASSUME FreelistOutlived, Typed, ChainsSound, JobsOnce, [Next]_vars
    PROVE  JobsOnce'
  <1>1. Typed'
    BY TypedStep
  <1>2. ASSUME Writes
        PROVE  JobsOnce'
    <2>1. flushes' \in Nat /\ flushes' # 0
      BY <1>2 DEF Writes, JobsOnce
    <2>2. LoggedOnce'
      BY <1>2 DEF Writes, JobsOnce, LoggedOnce, Inserts
    <2> QED BY <2>1, <2>2 DEF JobsOnce
  <1> QED BY <1>1, <1>2, QuietSteps, CallOnce, ReplayOnce, QuietOnce

\* No job is on the pages of a new directory.
LEMMA InitOnce == Init => JobsOnce
  <1> SUFFICES ASSUME Init
               PROVE  JobsOnce
    OBVIOUS
  <1>1. /\ setup \in Setups /\ disk = HeapWith(setup.free) /\ phase = "closed" /\ wal = <<>>
        /\ flushes = 0
    BY DEF Init
  <1>2. PICK n \in Nat : /\ n >= ROOT_PAGES /\ disk \in Heap(n)
                         /\ \A p \in 0 .. n - 1 : disk[p].rows = <<>>
    BY <1>1, InitHeap
  <1>3. On(disk, "impulse") \subseteq 0 .. n - 1
    BY <1>2, OnFacts DEF Domain
  <1>4. \A p \in On(disk, "impulse") : ToSet(disk[p].rows) = {} /\ Apart(disk[p].rows)
    BY <1>2, <1>3 DEF ToSet, Apart
  <1>5. JobsOn(disk) = {} /\ Single(disk)
    BY <1>4 DEF JobsOn, Single
  <1>6. LoggedOnce
    <2>1. Len(wal) = 0
      BY <1>1
    <2> QED BY <2>1 DEF LoggedOnce
  <1> QED BY <1>1, <1>5, <1>6 DEF JobsOnce, Once

\* A chain without a repetition lists none.
LEMMA ListedApart ==
    ASSUME NEW n \in Nat, n >= ROOT_PAGES, NEW heap \in Heap(n), Single(heap)
    PROVE  RowsOf(heap, "impulse") \in Seq(Row) /\ Apart(RowsOf(heap, "impulse"))
  <1> DEFINE c == Chain(heap, Root["impulse"])
             part == [k \in DOMAIN c |-> heap[c[k]].rows]
             len == Len(c)
  <1>0. "impulse" \in Domain
    BY DEF Domain
  <1>1. Root["impulse"] \in (0 .. n - 1) \ {0}
    BY <1>0, RootFacts DEF ROOT_PAGES
  <1>2. Linked(heap) /\ DOMAIN heap = 0 .. n - 1 /\ \A p \in 0 .. n - 1 : heap[p] \in PageSet(n)
    BY HeapLinked
  <1>3. WalkFrom(heap, Root["impulse"], c)
    BY <1>1, <1>2, ChainFacts
  <1>4. RowsOf(heap, "impulse") = FlattenSeq(part)
    BY DEF RowsOf
  <1>5. On(heap, "impulse") = ToSet(c)
    BY DEF On
  <1> HIDE DEF c
  <1>6. c \in Seq(0 .. n - 1) /\ c # <<>> /\ \A j, k \in DOMAIN c : c[j] = c[k] => j = k
    BY <1>2, <1>3 DEF WalkFrom, Walks
  <1>7. len \in Nat \ {0} /\ DOMAIN c = 1 .. len /\ \A k \in 1 .. len : c[k] \in 0 .. n - 1
    BY <1>6
  <1>8. \A k \in 1 .. len : heap[c[k]].rows \in Seq(Row)
    BY <1>2, <1>7 DEF PageSet
  <1> HIDE DEF len
  <1>9. part \in [1 .. len -> Seq(Row)] /\ \A k \in 1 .. len : part[k] = heap[c[k]].rows
    BY <1>7, <1>8
  <1>10. \A k \in 1 .. len : c[k] \in On(heap, "impulse")
    BY <1>5, <1>7 DEF ToSet
  <1> HIDE DEF part
  <1>11. Scattered(part, len)
    <2>1. \A k \in 1 .. len : Apart(part[k])
      BY <1>9, <1>10 DEF Single
    <2>2. ASSUME NEW j \in 1 .. len, NEW k \in 1 .. len, j # k
          PROVE  ToSet(part[j]) \cap ToSet(part[k]) = {}
      <3>1. c[j] # c[k]
        BY <1>6, <1>7, <2>2
      <3>2. ToSet(heap[c[j]].rows) \cap ToSet(heap[c[k]].rows) = {}
        BY <1>10, <3>1 DEF Single
      <3> QED BY <1>9, <3>2
    <2> QED BY <2>1, <2>2 DEF Scattered
  <1> QED BY <1>4, <1>7, <1>9, <1>11, FlattenFacts

\* Every job is listed (JobsAreKept), and once.
LEMMA OnceImplies == Kept /\ JobsOnce => JobsAreSingle
  <1> SUFFICES ASSUME Kept, JobsOnce, Serving, flushes = 0, NEW job \in said.jobs
               PROVE  TimesIn(RowsOf(mem, "impulse"), job) = 1
    BY DEF JobsAreSingle
  <1> DEFINE rows == RowsOf(mem, "impulse")
             at == {k \in DOMAIN rows : rows[k] = job}
  <1>1. phase # "closed" /\ Once(mem, AppliedTo)
    BY DEF Serving, JobsOnce
  <1>2. PICK n \in Nat : n >= ROOT_PAGES /\ mem \in Heap(n)
    BY <1>1 DEF Kept, Typed, HeapsTyped
  <1>3. rows \in Seq(Row) /\ Apart(rows)
    BY <1>1, <1>2, ListedApart DEF Once
  <1>4. job \in ToSet(rows)
    BY KeptImplies DEF JobsAreKept, JobsIn
  <1> HIDE DEF rows
  <1>5. PICK k \in DOMAIN rows : rows[k] = job
    BY <1>4 DEF ToSet
  <1>6. at = {k}
    BY <1>3, <1>5 DEF Apart
  <1> HIDE DEF at
  <1>7. Cardinality(at) = 1
    BY <1>6, FS_Singleton
  <1> QED BY <1>7 DEF TimesIn, rows, at

\* As long as pages are written by checkpoints only, a job is on the chain once, however
\* often the process dies and replay starts over, also between ENGINE.json and the rotation
\* of the log: replay starts behind the records that the pages in the file have seen, and
\* no two records bring the same job.
THEOREM JobsComeOnce ==
    ASSUME FreelistOutlived
    PROVE  Spec => []JobsAreSingle
  <1> DEFINE Inv == Kept /\ JobsOnce
  <1>1. Init => Inv
    BY InitKept, InitOnce
  <1>2. Inv /\ [Next]_vars => Inv'
    BY KeptStep, OnceStep DEF Kept
  <1>3. Inv => JobsAreSingle
    BY OnceImplies
  <1> HIDE DEF Inv
  <1> QED BY <1>1, <1>2, <1>3, PTL DEF Spec

-----------------------------------------------------------------------------
(* What impulse_due answers. *)

\* The jobs that are due, from the left
Dues(rows, t, T, f) ==
    /\ f \in [0 .. Len(rows) -> Seq(T)] /\ f[0] = <<>>
    /\ \A i \in 1 .. Len(rows) :
          f[i] = IF rows[i].at <= t THEN Append(f[i - 1], rows[i]) ELSE f[i - 1]

\* DueOn is the last of them.
LEMMA DueSteps ==
    ASSUME NEW T, NEW rows \in Seq(T), NEW t
    PROVE  \E f : Dues(rows, t, T, f) /\ DueOn(rows, t) = f[Len(rows)]
  <1> DEFINE len == Len(rows)
             Step(k, n) == IF n = 0 THEN <<>>
                           ELSE IF rows[n].at <= t THEN Append(k[n - 1], rows[n])
                           ELSE k[n - 1]
             V == Seq(T)
             step == [i \in 1 .. len |->
                         [k \in V |-> IF rows[i].at <= t THEN Append(k, rows[i]) ELSE k]]
             due == CHOOSE k : k = [n \in 0 .. len |-> Step(k, n)]
  <1>1. len \in Nat /\ \A i \in 1 .. len : rows[i] \in T
    OBVIOUS
  <1>2. PICK f \in [0 .. len -> V] :
           /\ f[0] = <<>>
           /\ \A i \in 1 .. len : f[i] = step[i][f[i - 1]]
    <2> DEFINE nil == <<>>
    <2>1. len \in Nat /\ nil \in V /\ step \in [1 .. len -> [V -> V]]
      BY <1>1
    <2> HIDE DEF step, V, len, nil
    <2>2. \E f \in [0 .. len -> V] :
              /\ f[0] = nil
              /\ \A i \in 1 .. len : f[i] = step[i][f[i - 1]]
      BY ONLY <2>1, Recursion
    <2> QED BY <2>2 DEF nil
  <1>3. \A i \in 1 .. len : f[i] = IF rows[i].at <= t THEN Append(f[i - 1], rows[i]) ELSE f[i - 1]
    <2> TAKE i \in 1 .. len
    <2>1. i - 1 \in 0 .. len
      BY <1>1
    <2>2. f[i - 1] \in V
      BY <1>2, <2>1
    <2> HIDE DEF V
    <2> QED BY <1>2, <2>2
  <1>4. \A n \in 0 .. len : f[n] = Step(f, n)
    <2> TAKE n \in 0 .. len
    <2>1. n = 0 \/ (n \in 1 .. len /\ n # 0)
      BY <1>1
    <2> HIDE DEF step, V
    <2> QED BY <1>2, <1>3, <2>1
  <1>5. f = [n \in 0 .. len |-> Step(f, n)]
    <2>1. f = [n \in 0 .. len |-> f[n]]
      BY <1>2
    <2> HIDE DEF Step
    <2> QED BY <1>4, <2>1
  <1>6. due = [n \in 0 .. len |-> Step(due, n)]
    <2> HIDE DEF Step
    <2> QED BY <1>5, Zenon
  <1>7. DueOn(rows, t) = due[len]
    BY DEF DueOn
  <1> HIDE DEF due
  <1>8. \A n \in 0 .. len : due[n] = Step(due, n)
    <2> HIDE DEF Step
    <2> QED BY <1>6
  <1> DEFINE Good == {n \in Nat : n <= len => due[n] = f[n]}
  <1>9. 0 \in Good
    <2>1. 0 \in 0 .. len
      BY <1>1
    <2> QED BY <1>4, <1>8, <2>1
  <1>10. \A n \in Nat : n \in Good => n + 1 \in Good
    <2> SUFFICES ASSUME NEW n \in Nat, n \in Good, n + 1 <= len
                 PROVE  due[n + 1] = f[n + 1]
      OBVIOUS
    <2>1. n + 1 \in 0 .. len /\ n + 1 # 0 /\ (n + 1) - 1 = n /\ n <= len
      BY <1>1
    <2>2. due[n] = f[n]
      BY <2>1
    <2>3. due[n + 1] = Step(due, n + 1) /\ f[n + 1] = Step(f, n + 1)
      <3> HIDE DEF Step
      <3> QED BY <1>4, <1>8, <2>1
    <2> QED BY <2>1, <2>2, <2>3
  <1>11. len \in Good
    <2> HIDE DEF Good, len
    <2> QED BY <1>1, <1>9, <1>10, NatSetInduction
  <1>12. due[len] = f[len]
    BY <1>1, <1>11
  <1>13. Dues(rows, t, T, f)
    <2> HIDE DEF step
    <2> QED BY <1>2, <1>3 DEF Dues
  <1> QED BY <1>7, <1>12, <1>13

\* Jobs that are due are jobs.
LEMMA DueTyped ==
    ASSUME NEW T, NEW rows \in Seq(T), NEW t
    PROVE  DueOn(rows, t) \in Seq(T) /\ Len(DueOn(rows, t)) \in Nat
  <1>1. PICK f : Dues(rows, t, T, f) /\ DueOn(rows, t) = f[Len(rows)]
    BY DueSteps
  <1>2. Len(rows) \in 0 .. Len(rows)
    OBVIOUS
  <1>3. DueOn(rows, t) \in Seq(T)
    BY <1>1, <1>2 DEF Dues
  <1> QED BY <1>3

\* Two sequences make up a third.
MadeOf(s, a, b) == s = a \o b

\* Appending to two sequences is appending to the second.
LEMMA AppendConcat ==
    ASSUME NEW T, NEW a \in Seq(T), NEW b \in Seq(T), NEW x \in T
    PROVE  MadeOf(Append(a \o b, x), a, Append(b, x))
  <1> DEFINE l == Append(a \o b, x)
             r == a \o Append(b, x)
             m == Len(a)
             n == Len(b)
  <1>0. m \in Nat /\ n \in Nat
    OBVIOUS
  <1>1. /\ a \o b \in Seq(T) /\ Len(a \o b) = m + n
        /\ \A i \in 1 .. m + n : (a \o b)[i] = IF i <= m THEN a[i] ELSE b[i - m]
    BY ConcatProperties
  <1>2. /\ l \in Seq(T) /\ Len(l) = m + n + 1 /\ l[m + n + 1] = x
        /\ \A i \in 1 .. m + n : l[i] = (a \o b)[i]
    BY <1>1
  <1>3. /\ Append(b, x) \in Seq(T) /\ Len(Append(b, x)) = n + 1 /\ Append(b, x)[n + 1] = x
        /\ \A i \in 1 .. n : Append(b, x)[i] = b[i]
    OBVIOUS
  <1>4. /\ r \in Seq(T) /\ Len(r) = m + (n + 1)
        /\ \A i \in 1 .. m + (n + 1) : r[i] = IF i <= m THEN a[i] ELSE Append(b, x)[i - m]
    BY <1>3, ConcatProperties
  <1> HIDE DEF l, r, m, n
  <1>5. ASSUME NEW i \in 1 .. Len(l)
        PROVE  l[i] = r[i]
    <2>1. CASE i = m + n + 1
      <3>1. ~(i <= m) /\ i - m = n + 1 /\ i \in 1 .. m + (n + 1)
        BY <1>0, <2>1
      <3> QED BY <1>2, <1>3, <1>4, <2>1, <3>1
    <2>2. CASE i # m + n + 1
      <3>1. i \in 1 .. m + n /\ i \in 1 .. m + (n + 1) /\ (~(i <= m) => i - m \in 1 .. n)
        BY <1>0, <1>2, <2>2
      <3> QED BY <1>1, <1>2, <1>3, <1>4, <3>1
    <2> QED BY <2>1, <2>2
  <1>6. Len(l) = Len(r)
    BY <1>0, <1>2, <1>4
  <1> QED BY <1>2, <1>4, <1>5, <1>6, SeqEqual DEF l, r, MadeOf

\* What is due of two pages
LEMMA DueConcat ==
    ASSUME NEW T, NEW r \in Seq(T), NEW s \in Seq(T), NEW t
    PROVE  MadeOf(DueOn(r \o s, t), DueOn(r, t), DueOn(s, t))
  <1> DEFINE u == r \o s
             m == Len(r)
             n == Len(s)
  <1>1. /\ u \in Seq(T) /\ Len(u) = m + n /\ m \in Nat /\ n \in Nat
        /\ \A i \in 1 .. m : u[i] = r[i]
        /\ \A i \in 1 .. n : u[m + i] = s[i] /\ s[i] \in T
    OBVIOUS
  <1>2. PICK f : Dues(u, t, T, f) /\ DueOn(u, t) = f[Len(u)]
    <2> HIDE DEF u
    <2> QED BY <1>1, DueSteps
  <1>3. PICK g : Dues(r, t, T, g) /\ DueOn(r, t) = g[m]
    BY DueSteps
  <1>4. PICK h : Dues(s, t, T, h) /\ DueOn(s, t) = h[n]
    BY DueSteps
  <1> HIDE DEF u, m, n
  <1>5. /\ f[0] = <<>> /\ g[0] = <<>> /\ h[0] = <<>>
        /\ \A i \in 1 .. m + n : f[i] = IF u[i].at <= t THEN Append(f[i - 1], u[i]) ELSE f[i - 1]
        /\ \A i \in 1 .. m : g[i] = IF r[i].at <= t THEN Append(g[i - 1], r[i]) ELSE g[i - 1]
        /\ \A i \in 1 .. n : h[i] = IF s[i].at <= t THEN Append(h[i - 1], s[i]) ELSE h[i - 1]
        /\ g[m] \in Seq(T) /\ \A i \in 0 .. n : h[i] \in Seq(T)
    <2>1. m \in 0 .. m
      BY <1>1
    <2> QED BY <1>1, <1>2, <1>3, <1>4, <2>1 DEF Dues, m, n
  <1> DEFINE Left == {i \in Nat : i <= m => f[i] = g[i]}
             Both(i) == f[m + i] = g[m] \o h[i]
             Right == {i \in Nat : i <= n => Both(i)}
  <1>6. 0 \in Left
    BY <1>5
  <1>7. \A i \in Nat : i \in Left => i + 1 \in Left
    <2> SUFFICES ASSUME NEW i \in Nat, i \in Left, i + 1 <= m
                 PROVE  f[i + 1] = g[i + 1]
      OBVIOUS
    <2>1. i + 1 \in 1 .. m /\ i + 1 \in 1 .. m + n /\ (i + 1) - 1 = i /\ i <= m
      BY <1>1
    <2>2. f[i] = g[i]
      BY <2>1
    <2>3. u[i + 1] = r[i + 1]
      BY <1>1, <2>1
    <2>4. f[i + 1] = IF r[i + 1].at <= t THEN Append(f[i], r[i + 1]) ELSE f[i]
      BY <1>5, <2>1, <2>3
    <2>5. g[i + 1] = IF r[i + 1].at <= t THEN Append(g[i], r[i + 1]) ELSE g[i]
      BY <1>5, <2>1
    <2> QED BY <2>2, <2>4, <2>5
  <1>8. m \in Left
    <2> HIDE DEF Left
    <2> QED BY <1>1, <1>6, <1>7, NatSetInduction
  <1>9. f[m] = g[m]
    BY <1>1, <1>8
  <1>10. 0 \in Right
    <2>1. m + 0 = m /\ g[m] \o <<>> = g[m]
      BY <1>1, <1>5, ConcatEmptySeq
    <2> QED BY <1>5, <1>9, <2>1
  <1>11. \A i \in Nat : i \in Right => i + 1 \in Right
    <2> SUFFICES ASSUME NEW i \in Nat, i \in Right, i + 1 <= n
                 PROVE  Both(i + 1)
      <3> HIDE DEF Both
      <3> QED OBVIOUS
    <2>1. /\ i + 1 \in 1 .. n /\ m + (i + 1) \in 1 .. m + n /\ (m + (i + 1)) - 1 = m + i
          /\ (i + 1) - 1 = i /\ i <= n /\ i \in 0 .. n
      BY <1>1
    <2>a. Both(i)
      <3> HIDE DEF Both
      <3> QED BY <2>1
    <2>2. f[m + i] = g[m] \o h[i] /\ u[m + (i + 1)] = s[i + 1] /\ s[i + 1] \in T
      BY <1>1, <2>1, <2>a
    <2>3. f[m + (i + 1)] = IF s[i + 1].at <= t THEN Append(f[m + i], s[i + 1]) ELSE f[m + i]
      BY <1>5, <2>1, <2>2
    <2>4. h[i + 1] = IF s[i + 1].at <= t THEN Append(h[i], s[i + 1]) ELSE h[i]
      BY <1>5, <2>1
    <2>5. g[m] \in Seq(T) /\ h[i] \in Seq(T) /\ s[i + 1] \in T
      BY <1>5, <2>1, <2>2
    <2>6. MadeOf(Append(g[m] \o h[i], s[i + 1]), g[m], Append(h[i], s[i + 1]))
      BY <2>5, AppendConcat
    <2>7. Append(f[m + i], s[i + 1]) = g[m] \o Append(h[i], s[i + 1])
      BY <2>2, <2>6 DEF MadeOf
    <2> QED BY <2>2, <2>3, <2>4, <2>7
  <1>12. n \in Right
    <2> HIDE DEF Right
    <2> QED BY <1>1, <1>10, <1>11, NatSetInduction
  <1>13. Both(n)
    <2> HIDE DEF Both
    <2> QED BY <1>1, <1>12
  <1> QED BY <1>1, <1>2, <1>3, <1>4, <1>13 DEF u, MadeOf

\* The walk of impulse_due
DueWalked(part, len, t, limit, T, f) ==
    /\ f \in [0 .. len -> Seq(T)] /\ f[0] = <<>>
    /\ \A k \in 1 .. len :
          f[k] = IF Len(f[k - 1]) < limit THEN f[k - 1] \o DueOn(part[k], t) ELSE f[k - 1]

\* DueFound is what the walk has at the end of the chain.
LEMMA WalkSteps ==
    ASSUME NEW T, NEW pages, NEW c, NEW len \in Nat, c = Chain(pages, Root.impulse), Len(c) = len,
           NEW part, part \in [1 .. len -> Seq(T)], \A k \in 1 .. len : part[k] = pages[c[k]].rows,
           NEW t, NEW limit
    PROVE  \E f : DueWalked(part, len, t, limit, T, f) /\ DueFound(pages, t, limit) = f[len]
  <1> DEFINE Due(k) == DueOn(pages[c[k]].rows, t)
             Step(f, k) == IF k = 0 THEN <<>>
                           ELSE IF Len(f[k - 1]) < limit THEN f[k - 1] \o Due(k)
                           ELSE f[k - 1]
             V == Seq(T)
             step == [k \in 1 .. len |->
                         [s \in V |-> IF Len(s) < limit THEN s \o Due(k) ELSE s]]
             found == CHOOSE f : f = [k \in 0 .. len |-> Step(f, k)]
  <1>1. \A k \in 1 .. len : Due(k) \in V /\ Due(k) = DueOn(part[k], t)
    <2> TAKE k \in 1 .. len
    <2>1. part[k] \in Seq(T) /\ part[k] = pages[c[k]].rows
      OBVIOUS
    <2> QED BY <2>1, DueTyped
  <1> HIDE DEF Due
  <1>2. PICK f \in [0 .. len -> V] :
           /\ f[0] = <<>>
           /\ \A i \in 1 .. len : f[i] = step[i][f[i - 1]]
    <2> DEFINE nil == <<>>
    <2>0. \A k \in 1 .. len : [s \in V |-> IF Len(s) < limit THEN s \o Due(k) ELSE s] \in [V -> V]
      <3> TAKE k \in 1 .. len
      <3>1. Due(k) \in V
        BY <1>1
      <3>2. \A s \in V : s \o Due(k) \in V
        BY <3>1, ConcatProperties
      <3> HIDE DEF V
      <3> QED BY <3>2
    <2>1. len \in Nat /\ nil \in V /\ step \in [1 .. len -> [V -> V]]
      BY <2>0
    <2> HIDE DEF step, V, nil
    <2>2. \E f \in [0 .. len -> V] :
              /\ f[0] = nil
              /\ \A i \in 1 .. len : f[i] = step[i][f[i - 1]]
      BY ONLY <2>1, Recursion
    <2> QED BY <2>2 DEF nil
  <1>3. \A i \in 1 .. len : f[i] = IF Len(f[i - 1]) < limit THEN f[i - 1] \o Due(i) ELSE f[i - 1]
    <2> TAKE i \in 1 .. len
    <2>1. i - 1 \in 0 .. len
      OBVIOUS
    <2>2. f[i - 1] \in V
      BY <1>2, <2>1
    <2> HIDE DEF V
    <2> QED BY <1>2, <2>2
  <1>4. \A k \in 0 .. len : f[k] = Step(f, k)
    <2> TAKE k \in 0 .. len
    <2>1. k = 0 \/ (k \in 1 .. len /\ k # 0)
      OBVIOUS
    <2> HIDE DEF step, V
    <2> QED BY <1>2, <1>3, <2>1
  <1>5. f = [k \in 0 .. len |-> Step(f, k)]
    <2>1. f = [k \in 0 .. len |-> f[k]]
      BY <1>2
    <2> HIDE DEF Step
    <2> QED BY <1>4, <2>1
  <1>6. found = [k \in 0 .. len |-> Step(found, k)]
    <2> HIDE DEF Step
    <2> QED BY <1>5, Zenon
  <1>7. DueFound(pages, t, limit) = found[len]
    BY DEF DueFound, Due
  <1> HIDE DEF found
  <1>8. \A k \in 0 .. len : found[k] = Step(found, k)
    <2> HIDE DEF Step
    <2> QED BY <1>6
  <1> DEFINE Good == {n \in Nat : n <= len => found[n] = f[n]}
  <1>9. 0 \in Good
    <2>1. 0 \in 0 .. len
      OBVIOUS
    <2> QED BY <1>4, <1>8, <2>1
  <1>10. \A n \in Nat : n \in Good => n + 1 \in Good
    <2> SUFFICES ASSUME NEW n \in Nat, n \in Good, n + 1 <= len
                 PROVE  found[n + 1] = f[n + 1]
      OBVIOUS
    <2>1. n + 1 \in 0 .. len /\ n + 1 # 0 /\ (n + 1) - 1 = n /\ n <= len
      OBVIOUS
    <2>2. found[n] = f[n]
      BY <2>1
    <2>3. found[n + 1] = Step(found, n + 1) /\ f[n + 1] = Step(f, n + 1)
      <3> HIDE DEF Step
      <3> QED BY <1>4, <1>8, <2>1
    <2> QED BY <2>1, <2>2, <2>3
  <1>11. len \in Good
    <2> HIDE DEF Good
    <2> QED BY <1>9, <1>10, NatSetInduction
  <1>12. found[len] = f[len]
    BY <1>11
  <1>13. DueWalked(part, len, t, limit, T, f)
    <2> HIDE DEF step
    <2> QED BY <1>1, <1>2, <1>3 DEF DueWalked
  <1> QED BY <1>7, <1>12, <1>13

\* One sequence begins another.
Begins(a, b) == Len(a) <= Len(b) /\ \A i \in 1 .. Len(a) : b[i] = a[i]

\* More at the end
LEMMA BeginsConcat ==
    ASSUME NEW T, NEW a \in Seq(T), NEW b \in Seq(T), NEW x \in Seq(T)
    PROVE  /\ Begins(b, b \o x)
           /\ Begins(a, b) => Begins(a, b \o x)
  <1>1. /\ Len(a) \in Nat /\ Len(b) \in Nat /\ Len(x) \in Nat
        /\ Len(b \o x) = Len(b) + Len(x)
        /\ \A i \in 1 .. Len(b) : (b \o x)[i] = b[i]
    OBVIOUS
  <1>2. Begins(b, b \o x)
    BY <1>1 DEF Begins
  <1>3. ASSUME Begins(a, b)
        PROVE  Begins(a, b \o x)
    BY <1>1, <1>3 DEF Begins
  <1> QED BY <1>2, <1>3

\* What the walk has found: all that is due, or as many as asked for of the first ones;
\* and all of the first page.
Found(found, all, first, limit) ==
    /\ Begins(found, all) /\ Begins(first, found)
    /\ found = all \/ Len(found) >= limit

\* The walk ends with Found.
LEMMA WalkFinds ==
    ASSUME NEW T, NEW len \in Nat \ {0}, NEW part, part \in [1 .. len -> Seq(T)],
           NEW t, NEW limit \in Nat \ {0}, NEW f, DueWalked(part, len, t, limit, T, f)
    PROVE  /\ f[len] \in Seq(T) /\ DueOn(FlattenSeq(part), t) \in Seq(T)
           /\ Found(f[len], DueOn(FlattenSeq(part), t), DueOn(part[1], t), limit)
  <1>1. PICK g : Joins(part, len, T, g) /\ FlattenSeq(part) = g[len]
    BY FlattenSteps
  <1> DEFINE due(k) == DueOn(part[k], t)
             all(k) == DueOn(g[k], t)
  <1>2. \A k \in 1 .. len : part[k] \in Seq(T) /\ due(k) \in Seq(T)
    BY DueTyped
  <1>3. \A k \in 0 .. len : g[k] \in Seq(T) /\ all(k) \in Seq(T) /\ f[k] \in Seq(T)
    <2>1. \A k \in 0 .. len : g[k] \in Seq(T) /\ f[k] \in Seq(T)
      BY <1>1 DEF Joins, DueWalked
    <2> QED BY <2>1, DueTyped
  <1>4. \A k \in 1 .. len : all(k) = all(k - 1) \o due(k)
    <2> TAKE k \in 1 .. len
    <2>1. k - 1 \in 0 .. len
      OBVIOUS
    <2>2. g[k] = g[k - 1] \o part[k] /\ g[k - 1] \in Seq(T) /\ part[k] \in Seq(T)
      BY <1>1, <1>2, <1>3, <2>1 DEF Joins
    <2>3. MadeOf(DueOn(g[k - 1] \o part[k], t), all(k - 1), due(k))
      BY <2>2, DueConcat
    <2> QED BY <2>2, <2>3 DEF MadeOf
  <1>5. all(0) = <<>> /\ f[0] = <<>> /\ g[0] = <<>>
    <2>1. g[0] = <<>> /\ f[0] = <<>>
      BY <1>1 DEF Joins, DueWalked
    <2>2. <<>> \in Seq(T) /\ Len(<<>>) = 0
      OBVIOUS
    <2>3. PICK h : Dues(<<>>, t, T, h) /\ DueOn(<<>>, t) = h[Len(<<>>)]
      BY <2>2, DueSteps
    <2> QED BY <2>1, <2>2, <2>3 DEF Dues
  <1>6. \A k \in 1 .. len : f[k] = IF Len(f[k - 1]) < limit THEN f[k - 1] \o due(k) ELSE f[k - 1]
    BY DEF DueWalked
  <1> HIDE DEF due, all
  <1> DEFINE Fact(k) == Found(f[k], all(k), due(1), limit)
             Good == {n \in Nat : n + 1 <= len => Fact(n + 1)}
  <1>7. 0 \in Good
    <2>1. 1 \in 1 .. len /\ 1 - 1 = 0 /\ 0 \in 0 .. len /\ Len(<<>>) = 0 /\ 0 < limit /\ 0 + 1 = 1
      OBVIOUS
    <2>2. f[1] = <<>> \o due(1) /\ all(1) = <<>> \o due(1) /\ due(1) \in Seq(T)
      BY <1>2, <1>4, <1>5, <1>6, <2>1
    <2>3. f[1] = due(1) /\ all(1) = due(1)
      BY <2>2, ConcatEmptySeq
    <2>4. Begins(due(1), due(1))
      BY <2>2 DEF Begins
    <2>5. Fact(1)
      BY <2>3, <2>4 DEF Found
    <2> HIDE DEF Fact
    <2> QED BY <2>1, <2>5
  <1>8. \A n \in Nat : n \in Good => n + 1 \in Good
    <2> SUFFICES ASSUME NEW n \in Nat, n \in Good, (n + 1) + 1 <= len
                 PROVE  Fact((n + 1) + 1)
      <3> HIDE DEF Fact
      <3> QED OBVIOUS
    <2>1. PICK k : k = n + 1
      OBVIOUS
    <2>2. k + 1 \in 1 .. len /\ (k + 1) - 1 = k /\ k \in 0 .. len /\ k + 1 \in 0 .. len /\ k \in Nat
      BY <2>1
    <2>3. Fact(k)
      <3> HIDE DEF Fact
      <3> QED BY <2>1, <2>2
    <2>4. /\ f[k] \in Seq(T) /\ all(k) \in Seq(T) /\ due(k + 1) \in Seq(T) /\ due(1) \in Seq(T)
          /\ all(k + 1) = all(k) \o due(k + 1)
      <3>1. 1 \in 1 .. len
        OBVIOUS
      <3> QED BY <1>2, <1>3, <1>4, <2>2, <3>1
    <2>5. Begins(f[k], all(k)) /\ Begins(due(1), f[k]) /\ (f[k] = all(k) \/ Len(f[k]) >= limit)
      BY <2>3 DEF Found
    <2>6. CASE Len(f[k]) < limit
      <3>1. f[k + 1] = f[k] \o due(k + 1)
        BY <1>6, <2>2, <2>6
      <3>2. f[k] = all(k)
        <4>1. Len(f[k]) \in Nat
          BY <2>4
        <4> QED BY <2>5, <2>6, <4>1
      <3>3. f[k + 1] = all(k + 1)
        BY <2>4, <3>1, <3>2
      <3>4. Begins(due(1), f[k + 1])
        BY <2>4, <2>5, <3>1, BeginsConcat
      <3>5. Begins(f[k + 1], all(k + 1))
        <4>1. all(k + 1) \in Seq(T)
          BY <1>3, <2>2
        <4>2. Len(all(k + 1)) \in Nat
          BY <4>1
        <4> QED BY <3>3, <4>2 DEF Begins
      <3> QED BY <2>1, <3>3, <3>4, <3>5 DEF Found
    <2>7. CASE ~(Len(f[k]) < limit)
      <3>1. f[k + 1] = f[k]
        BY <1>6, <2>2, <2>7
      <3>2. Begins(f[k], all(k + 1))
        BY <2>4, <2>5, BeginsConcat
      <3>3. Len(f[k]) >= limit
        <4>1. Len(f[k]) \in Nat
          BY <2>4
        <4> QED BY <2>7, <4>1
      <3> QED BY <2>1, <2>5, <3>1, <3>2, <3>3 DEF Found
    <2> QED BY <2>6, <2>7
  <1>9. len - 1 \in Nat /\ (len - 1) + 1 = len /\ len \in 0 .. len /\ 1 \in 1 .. len
    OBVIOUS
  <1>10. len - 1 \in Good
    <2> HIDE DEF Good
    <2> QED BY <1>7, <1>8, <1>9, NatSetInduction
  <1>11. Fact(len)
    <2> HIDE DEF Fact
    <2> QED BY <1>9, <1>10
  <1>12. f[len] \in Seq(T) /\ all(len) \in Seq(T) /\ all(len) = DueOn(FlattenSeq(part), t)
    BY <1>1, <1>3, <1>9 DEF all
  <1> QED BY <1>11, <1>12 DEF due

\* A rearrangement in the order of times; pi says where a place's job was.
Sorts(rows, sorted, pi) ==
    /\ Len(sorted) = Len(rows) /\ pi \in [1 .. Len(rows) -> 1 .. Len(rows)]
    /\ \A j, k \in 1 .. Len(rows) : pi[j] = pi[k] => j = k
    /\ \A i \in 1 .. Len(rows) : \E n \in 1 .. Len(rows) : pi[n] = i
    /\ \A n \in 1 .. Len(rows) : sorted[n] = rows[pi[n]]
    /\ \A j, k \in 1 .. Len(rows) : j < k => rows[pi[j]].at <= rows[pi[k]].at

\* The places are 1, 2 and so on: as many jobs come before a job or are it.
LEMMA SortedFacts ==
    ASSUME NEW T, NEW rows \in Seq(T), \A i \in 1 .. Len(rows) : rows[i].at \in Nat
    PROVE  Sorted(rows) \in Seq(T) /\ \E pi : Sorts(rows, Sorted(rows), pi)
  <1> DEFINE len == Len(rows)
             D == 1 .. len
             at(k) == rows[k].at
             before(j, k) == at(j) < at(k) \/ (at(j) = at(k) /\ j <= k)
             Bef(k) == {j \in D : before(j, k)}
             place(k) == Cardinality(Bef(k))
             pi == [n \in D |-> CHOOSE k \in D : place(k) = n]
             f == [k \in D |-> place(k)]
  <1>1. len \in Nat /\ DOMAIN rows = D /\ \A k \in D : rows[k] \in T
    OBVIOUS
  <1>2. \A k \in D : at(k) \in Nat /\ k \in Nat
    BY <1>1
  <1>3. Sorted(rows) = [n \in D |-> rows[CHOOSE k \in D : place(k) = n]]
    BY <1>1 DEF Sorted
  <1> HIDE DEF at
  <1>4. IsFiniteSet(D) /\ Cardinality(D) = len
    BY <1>1, FS_Interval
  <1>5. \A k \in D : IsFiniteSet(Bef(k)) /\ place(k) \in 1 .. len
    <2> TAKE k \in D
    <2>1. Bef(k) \subseteq D /\ k \in Bef(k)
      BY <1>2
    <2> HIDE DEF Bef, D
    <2>2. IsFiniteSet(Bef(k)) /\ Cardinality(Bef(k)) <= len
      BY <1>4, <2>1, FS_Subset
    <2>3. Cardinality(Bef(k)) \in Nat /\ Cardinality(Bef(k)) # 0
      BY <2>1, <2>2, FS_CardinalityType, FS_EmptySet
    <2> QED BY <1>1, <2>2, <2>3
  <1>6. ASSUME NEW j \in D, NEW k \in D, j # k, before(j, k)
        PROVE  place(j) < place(k)
    <2>1. Bef(j) \subseteq Bef(k)
      <3> SUFFICES ASSUME NEW i \in D, before(i, j)
                   PROVE  before(i, k)
        OBVIOUS
      <3>1. /\ at(i) \in Nat /\ at(j) \in Nat /\ at(k) \in Nat
            /\ i \in Nat /\ j \in Nat /\ k \in Nat
        BY <1>2
      <3> HIDE DEF D
      <3> QED BY <1>6, <3>1
    <2>2. k \in Bef(k) /\ k \notin Bef(j)
      <3>1. at(j) \in Nat /\ at(k) \in Nat /\ j \in Nat /\ k \in Nat
        BY <1>2
      <3> QED BY <1>6, <3>1
    <2> HIDE DEF Bef, before, D
    <2>3. /\ Cardinality(Bef(j)) <= Cardinality(Bef(k))
          /\ Cardinality(Bef(j)) # Cardinality(Bef(k))
      BY <1>5, <2>1, <2>2, FS_Subset
    <2>4. place(j) \in Nat /\ place(k) \in Nat
      BY <1>5
    <2> QED BY <2>3, <2>4
  <1>a. \A k \in D : place(k) \in Nat
    <2> HIDE DEF place, D
    <2>1. \A k \in D : place(k) \in 1 .. len
      BY <1>5
    <2> QED BY <1>1, <2>1
  <1>7. \A j, k \in D : j # k => before(j, k) \/ before(k, j)
    BY <1>2
  <1> HIDE DEF place, before
  <1>8. \A j, k \in D : place(j) = place(k) => j = k
    <2> SUFFICES ASSUME NEW j \in D, NEW k \in D, place(j) = place(k), j # k
                 PROVE  FALSE
      OBVIOUS
    <2>1. place(j) < place(k) \/ place(k) < place(j)
      BY <1>6, <1>7
    <2>2. place(j) \in Nat /\ place(k) \in Nat
      <3> HIDE DEF D
      <3> QED BY <1>a
    <2> QED BY <2>1, <2>2
  <1>9. f \in Injection(D, D)
    <2>1. f \in [D -> D]
      BY <1>5
    <2>2. \A j, k \in D : f[j] = f[k] => j = k
      BY <1>8
    <2> HIDE DEF f, D
    <2> QED BY <2>1, <2>2 DEF Injection, IsInjective
  <1>10. f \in Surjection(D, D)
    <2> HIDE DEF f, D
    <2> QED BY <1>4, <1>9, FS_Injection
  <1>11. \A n \in D : \E k \in D : place(k) = n
    <2>1. \A n \in D : \E k \in D : f[k] = n
      <3> HIDE DEF f, D
      <3> QED BY <1>10 DEF Surjection
    <2> QED BY <2>1
  <1>12. \A n \in D : pi[n] \in D /\ place(pi[n]) = n
    <2> HIDE DEF D
    <2> QED BY <1>11
  <1>13. pi \in [D -> D]
    <2>1. pi = [n \in D |-> pi[n]]
      OBVIOUS
    <2> HIDE DEF D, pi
    <2> QED BY <1>12, <2>1
  <1>14. \A n \in D : Sorted(rows)[n] = rows[pi[n]]
    BY <1>3
  <1>15. Sorted(rows) \in Seq(T) /\ Len(Sorted(rows)) = len
    <2>1. Sorted(rows) = [n \in D |-> rows[pi[n]]]
      BY <1>3
    <2> HIDE DEF pi
    <2>2. \A n \in D : rows[pi[n]] \in T
      BY <1>1, <1>12
    <2> QED BY <1>1, <2>1, <2>2
  <1> HIDE DEF pi
  <1>16. \A j, k \in D : pi[j] = pi[k] => j = k
    BY <1>12
  <1>17. \A i \in D : \E n \in D : pi[n] = i
    <2> TAKE i \in D
    <2>1. place(i) \in D
      BY <1>5
    <2>2. pi[place(i)] = i
      BY <1>8, <1>12, <2>1
    <2> QED BY <2>1, <2>2
  <1>18. ASSUME NEW j \in D, NEW k \in D, j < k
         PROVE  at(pi[j]) <= at(pi[k])
    <2>1. /\ pi[j] \in D /\ pi[k] \in D /\ pi[j] # pi[k]
          /\ place(pi[j]) = j /\ place(pi[k]) = k /\ j \in Nat /\ k \in Nat
      <3>1. j \in Nat /\ k \in Nat /\ j # k
        BY <1>18
      <3> QED BY <1>12, <1>16, <3>1
    <2>2. at(pi[j]) \in Nat /\ at(pi[k]) \in Nat
      BY <1>2, <2>1
    <2>3. before(pi[k], pi[j]) => FALSE
      <3> SUFFICES ASSUME before(pi[k], pi[j])
                   PROVE  FALSE
        OBVIOUS
      <3>1. place(pi[k]) < place(pi[j])
        BY <1>6, <2>1
      <3> QED BY <1>18, <2>1, <3>1
    <2> QED BY <2>2, <2>3 DEF before
  <1>19. Sorts(rows, Sorted(rows), pi)
    BY <1>13, <1>14, <1>15, <1>16, <1>17, <1>18 DEF Sorts, at
  <1> QED BY <1>15, <1>19

\* What impulse_due promises (DueAnswers)
Answer(due, all, first, limit) ==
    /\ Len(due) = Min({limit, Len(all)})
    /\ \A k \in DOMAIN due : TimesIn(due, due[k]) <= TimesIn(all, due[k])
    /\ \A j, k \in DOMAIN due : j < k => due[j].at <= due[k].at
    /\ \A job \in ToSet(first) \ ToSet(due) : \A k \in DOMAIN due : due[k].at <= job.at

\* Sorting and truncating what the walk has found keeps it.
LEMMA Answers ==
    ASSUME NEW T, NEW found \in Seq(T), NEW all \in Seq(T), NEW first \in Seq(T),
           NEW limit \in Nat \ {0}, Found(found, all, first, limit),
           \A i \in 1 .. Len(found) : found[i].at \in Nat
    PROVE  Answer(FirstOf(Sorted(found), limit), all, first, limit)
  <1> DEFINE n == Len(found)
             s == Sorted(found)
             l == Min({limit, Len(s)})
             due == FirstOf(s, limit)
  <1>1. PICK pi : Sorts(found, s, pi)
    BY SortedFacts
  <1>2. s \in Seq(T)
    BY SortedFacts
  <1> HIDE DEF s
  <1>3. /\ n \in Nat /\ Len(all) \in Nat /\ n <= Len(all) /\ Len(s) = n
        /\ \A i \in 1 .. n : all[i] = found[i]
        /\ found = all \/ n >= limit
    <2>1. Begins(found, all) /\ (found = all \/ n >= limit)
      BY DEF Found
    <2>2. n \in Nat /\ Len(all) \in Nat
      OBVIOUS
    <2>3. Len(s) = n
      BY <1>1 DEF Sorts
    <2> HIDE DEF n
    <2>4. n <= Len(all) /\ \A i \in 1 .. n : all[i] = found[i]
      BY <2>1 DEF Begins, n
    <2> QED BY <2>1, <2>2, <2>3, <2>4
  <1>4. l \in {limit, n} /\ l <= limit /\ l <= n /\ l \in Nat
    <2>1. {limit, n} \in SUBSET Nat /\ {limit, n} # {} /\ l = Min({limit, n})
      BY <1>3
    <2> HIDE DEF l, n
    <2> QED BY <1>3, <2>1, MinFacts
  <1>5. Len(due) = l /\ DOMAIN due = 1 .. l /\ \A k \in 1 .. l : due[k] = s[k]
    <2>1. due = SubSeq(s, 1, l)
      BY DEF FirstOf
    <2> HIDE DEF l
    <2>2. \A i \in 1 .. l : s[i] \in T
      BY <1>2, <1>3, <1>4
    <2>3. l \in Int /\ 1 \in Int /\ (1 <= l => l - 1 + 1 = l) /\ (~(1 <= l) => l = 0)
      BY <1>4
    <2>4. Len(due) = l /\ due \in Seq(T)
      BY <2>1, <2>2, <2>3, SubSeqProperties
    <2>5. DOMAIN due = 1 .. l
      BY <2>4
    <2>6. \A k \in 1 .. l : due[k] = s[k]
      BY <1>2, <1>3, <1>4, <2>1
    <2> QED BY <2>4, <2>5, <2>6
  <1> HIDE DEF due
  <1>6. l = Min({limit, Len(all)})
    <2>1. {limit, Len(all)} \in SUBSET Nat /\ {limit, Len(all)} # {}
      BY <1>3
    <2>2. PICK m : m = Min({limit, Len(all)}) /\ m \in {limit, Len(all)} /\ m <= limit /\ m <= Len(all)
      BY <2>1, MinFacts
    <2> HIDE DEF l
    <2> QED BY <1>3, <1>4, <2>2
  <1> HIDE DEF l, n
  <1>7. /\ pi \in [1 .. n -> 1 .. n]
        /\ \A j, k \in 1 .. n : pi[j] = pi[k] => j = k
        /\ \A i \in 1 .. n : \E m \in 1 .. n : pi[m] = i
        /\ \A m \in 1 .. n : s[m] = found[pi[m]]
        /\ \A j, k \in 1 .. n : j < k => found[pi[j]].at <= found[pi[k]].at
    BY <1>1 DEF Sorts, n
  <1>8. \A k \in 1 .. l : /\ k \in 1 .. n /\ k \in Nat /\ pi[k] \in 1 .. n
                          /\ due[k] = found[pi[k]] /\ due[k] = all[pi[k]]
    <2> TAKE k \in 1 .. l
    <2>1. k \in 1 .. n /\ k \in Nat
      BY <1>3, <1>4
    <2>2. pi[k] \in 1 .. n
      BY <1>7, <2>1
    <2> QED BY <1>3, <1>5, <1>7, <2>1, <2>2
  <1>9. ASSUME NEW k \in 1 .. l
        PROVE  TimesIn(due, due[k]) <= TimesIn(all, due[k])
    <2> DEFINE P == {i \in DOMAIN due : due[i] = due[k]}
               A == {i \in DOMAIN all : all[i] = due[k]}
               g == [i \in P |-> pi[i]]
    <2>1. DOMAIN all = 1 .. Len(all) /\ IsFiniteSet(DOMAIN all)
      BY <1>3, FS_Interval
    <2>2. IsFiniteSet(A)
      BY <2>1, FS_Subset
    <2>3. \A i \in P : g[i] \in A /\ i \in 1 .. n
      <3> TAKE i \in P
      <3>1. i \in 1 .. l /\ due[i] = due[k]
        BY <1>5
      <3>2. pi[i] \in 1 .. n /\ all[pi[i]] = due[k] /\ i \in 1 .. n
        BY <1>8, <3>1
      <3>3. pi[i] \in DOMAIN all
        BY <1>3, <2>1, <3>2
      <3> QED BY <3>2, <3>3
    <2>4. g \in [P -> A]
      <3> HIDE DEF A, P
      <3> QED BY <2>3
    <2>5. \A i, j \in P : g[i] = g[j] => i = j
      <3> HIDE DEF A, P
      <3> QED BY <1>7, <2>3
    <2>6. g \in Injection(P, A)
      <3> HIDE DEF g, P, A
      <3> QED BY <2>4, <2>5 DEF Injection, IsInjective
    <2>7. Cardinality(P) <= Cardinality(A)
      <3> HIDE DEF g, P, A
      <3> QED BY <2>2, <2>6, FS_Injection
    <2> QED BY <2>7 DEF TimesIn
  <1>10. ASSUME NEW j \in 1 .. l, NEW k \in 1 .. l, j < k
         PROVE  due[j].at <= due[k].at
    <2>1. j \in 1 .. n /\ k \in 1 .. n /\ due[j] = found[pi[j]] /\ due[k] = found[pi[k]]
      BY <1>8, <1>10
    <2>2. found[pi[j]].at <= found[pi[k]].at
      BY <1>7, <1>10, <2>1
    <2> QED BY <2>1, <2>2
  <1>11. ASSUME NEW job \in ToSet(first), job \notin ToSet(due), NEW k \in 1 .. l
         PROVE  due[k].at <= job.at
    <2>1. PICK i \in 1 .. Len(first) : job = first[i]
      BY DEF ToSet
    <2>2. i \in 1 .. n /\ found[i] = job
      <3>1. Len(first) \in Nat
        OBVIOUS
      <3> QED BY <1>3, <2>1, <3>1 DEF Found, Begins, n
    <2>3. PICK m \in 1 .. n : pi[m] = i
      BY <1>7, <2>2
    <2>4. m \notin 1 .. l
      <3> SUFFICES ASSUME m \in 1 .. l
                   PROVE  FALSE
        OBVIOUS
      <3>1. due[m] = job /\ m \in DOMAIN due
        BY <1>5, <1>8, <2>2, <2>3
      <3> QED BY <1>11, <3>1 DEF ToSet
    <2>5. k < m /\ k \in 1 .. n
      BY <1>3, <1>4, <1>8, <2>3, <2>4
    <2>6. found[pi[k]].at <= found[pi[m]].at
      BY <1>7, <2>5
    <2>7. due[k].at = found[pi[k]].at /\ found[pi[m]].at = job.at
      BY <1>8, <2>2, <2>3
    <2> QED BY <2>6, <2>7
  <1>12. Answer(due, all, first, limit)
    BY <1>5, <1>6, <1>9, <1>10, <1>11 DEF Answer
  <1> QED BY <1>12 DEF due, s

\* The pages of the chain of jobs, in its order
JobParts(c, len, part) ==
    /\ c = Chain(mem, Root.impulse) /\ Len(c) = len /\ len \in Nat \ {0}
    /\ part \in [1 .. len -> Seq(JobRow)]
    /\ \A k \in 1 .. len : part[k] = mem[c[k]].rows
    /\ RowsOf(mem, "impulse") = FlattenSeq(part) /\ part[1] = mem[Root.impulse].rows

\* They hold jobs, and make up what is listed.
LEMMA JobPages ==
    ASSUME Kept, Serving
    PROVE  \E c, len, part : JobParts(c, len, part)
  <1> DEFINE c == Chain(mem, Root["impulse"])
             part == [k \in DOMAIN c |-> mem[c[k]].rows]
             len == Len(c)
  <1>0. phase # "closed" /\ "impulse" \in Domain /\ "impulse" \in Tables
    BY DEF Serving, Domain, Tables
  <1>a. PICK n \in Nat : n >= ROOT_PAGES /\ mem \in Heap(n)
    BY <1>0 DEF Kept, Typed, HeapsTyped
  <1>1. Root["impulse"] \in (0 .. n - 1) \ {0}
    BY <1>0, <1>a, RootFacts DEF ROOT_PAGES
  <1>2. Linked(mem) /\ DOMAIN mem = 0 .. n - 1 /\ \A p \in 0 .. n - 1 : mem[p] \in PageSet(n)
    BY <1>a, HeapLinked
  <1>3. WalkFrom(mem, Root["impulse"], c)
    BY <1>1, <1>2, ChainFacts
  <1>4. RowsOf(mem, "impulse") = FlattenSeq(part)
    BY DEF RowsOf
  <1>5. On(mem, "impulse") = ToSet(c)
    BY DEF On
  <1>6. \A p \in On(mem, "impulse") : ToSet(mem[p].rows) \subseteq JobRow
    <2>1. ToSet(RowsOf(mem, "impulse")) \subseteq JobRow
      BY <1>0, ListedFits DEF Allowed, Rows
    <2>2. ToSet(RowsOf(mem, "impulse")) = UNION {ToSet(mem[p].rows) : p \in On(mem, "impulse")}
      BY <1>0, <1>a, Listed
    <2> QED BY <2>1, <2>2
  <1> HIDE DEF c
  <1>7. c \in Seq(0 .. n - 1) /\ c # <<>> /\ c[1] = Root["impulse"]
    BY <1>2, <1>3 DEF WalkFrom, Walks
  <1>8. len \in Nat \ {0} /\ DOMAIN c = 1 .. len /\ \A k \in 1 .. len : c[k] \in 0 .. n - 1
    BY <1>7
  <1>9. \A k \in 1 .. len : mem[c[k]].rows \in Seq(JobRow)
    <2> TAKE k \in 1 .. len
    <2>1. mem[c[k]].rows \in Seq(Row)
      BY <1>2, <1>8 DEF PageSet
    <2>2. c[k] \in On(mem, "impulse")
      BY <1>5, <1>8 DEF ToSet
    <2>3. ToSet(mem[c[k]].rows) \subseteq JobRow
      BY <1>6, <2>2
    <2>4. \A i \in 1 .. Len(mem[c[k]].rows) : mem[c[k]].rows[i] \in JobRow
      BY <2>1, <2>3 DEF ToSet
    <2> QED BY <2>1, <2>4
  <1> HIDE DEF len
  <1>10. part \in [1 .. len -> Seq(JobRow)] /\ \A k \in 1 .. len : part[k] = mem[c[k]].rows
    BY <1>8, <1>9
  <1> HIDE DEF part
  <1>11. part[1] = mem[Root["impulse"]].rows
    <2>1. 1 \in 1 .. len
      BY <1>8
    <2> QED BY <1>7, <1>10, <2>1
  <1>12. JobParts(c, len, part)
    BY <1>4, <1>8, <1>10, <1>11 DEF JobParts, c, len
  <1> QED BY <1>12

\* What a chain with jobs and nothing else answers is an Answer.
LEMMA DueFits == Kept => DueAnswers
  <1> SUFFICES ASSUME Kept, Serving, NEW t \in Times, NEW limit \in Limits
               PROVE  Answer(ImpulseDue(mem, t, limit), DueOn(RowsOf(mem, "impulse"), t),
                             DueOn(mem[Root.impulse].rows, t), limit)
    BY DEF DueAnswers, Answer
  <1> DEFINE all == DueOn(RowsOf(mem, "impulse"), t)
             found == DueFound(mem, t, limit)
             first == DueOn(mem[Root.impulse].rows, t)
  <1>1. limit \in Nat \ {0}
    BY DomainsAssumption DEF Limits
  <1>2. PICK c, len, part : JobParts(c, len, part)
    BY JobPages
  <1>a. /\ c = Chain(mem, Root.impulse) /\ Len(c) = len /\ len \in Nat \ {0}
        /\ part \in [1 .. len -> Seq(JobRow)]
        /\ \A k \in 1 .. len : part[k] = mem[c[k]].rows
        /\ RowsOf(mem, "impulse") = FlattenSeq(part) /\ part[1] = mem[Root.impulse].rows
    BY <1>2 DEF JobParts
  <1>3. PICK f : DueWalked(part, len, t, limit, JobRow, f) /\ found = f[len]
    BY <1>a, WalkSteps
  <1>4. found \in Seq(JobRow) /\ all \in Seq(JobRow) /\ Found(found, all, first, limit)
    <2>1. /\ f[len] \in Seq(JobRow) /\ DueOn(FlattenSeq(part), t) \in Seq(JobRow)
          /\ Found(f[len], DueOn(FlattenSeq(part), t), DueOn(part[1], t), limit)
      BY <1>1, <1>a, <1>3, WalkFinds
    <2> QED BY <1>a, <1>3, <2>1
  <1>5. first \in Seq(JobRow)
    <2>1. 1 \in 1 .. len
      BY <1>a
    <2>2. mem[Root.impulse].rows \in Seq(JobRow)
      BY <1>a, <2>1
    <2> QED BY <2>2, DueTyped
  <1>6. \A i \in 1 .. Len(found) : found[i].at \in Nat
    <2>1. \A job \in JobRow : job.at \in Nat
      BY DomainsAssumption DEF JobRow
    <2> HIDE DEF found
    <2> QED BY <1>4, <2>1
  <1>7. ImpulseDue(mem, t, limit) = FirstOf(Sorted(found), limit)
    BY DEF ImpulseDue
  <1> HIDE DEF all, found, first
  <1>8. Answer(FirstOf(Sorted(found), limit), all, first, limit)
    BY <1>1, <1>4, <1>5, <1>6, Answers
  <1> QED BY <1>7, <1>8 DEF all, first

\* impulse_due gives min(limit, number due) jobs, each as often as it is on the chain at
\* most, in the order of their times, and leaves out no earlier job of the first page,
\* for every length of the chain, wherever the walk stops: truncating comes after sorting.
THEOREM DueInOrder ==
    ASSUME FreelistOutlived
    PROVE  Spec => []DueAnswers
  <1>1. Kept /\ [Next]_vars => Kept'
    BY KeptStep
  <1> QED BY <1>1, InitKept, DueFits, PTL DEF Spec
=============================================================================
