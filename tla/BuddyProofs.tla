---------------------------- MODULE BuddyProofs ----------------------------
(***************************************************************************)
(* The free lists of the page allocator are sound, kalloc hands out no     *)
(* page twice and takes exactly one out of free memory, for any number of  *)
(* orders, of pages and of cores, when the first page behind the kernel is *)
(* odd.                                                                    *)
(***************************************************************************)
EXTENDS Buddy, FiniteSetTheorems, TLAPS

-----------------------------------------------------------------------------
(* Natural numbers: a set of them has a least element. *)

LEMMA Least ==
  ASSUME NEW T \in SUBSET Nat, T # {}
  PROVE  \E n \in T : \A m \in T : n <= m
<1> DEFINE Less == OpToRel(<, Nat)
<1>1. IsWellFoundedOn(Less, Nat)
  BY NatLessThanWellFounded
<1>2. \A m, n \in T : <<m, n>> \in Less <=> m < n
  BY DEF OpToRel
<1> HIDE DEF Less
<1>3. PICK n \in T : \A m \in T : ~ (<<m, n>> \in Less)
  BY <1>1, WFMin
<1>4. \A m \in T : ~ (m < n)
  BY <1>2, <1>3, Zenon
<1> QED
  BY <1>4

(* Induction over the natural numbers, for sets of them. *)
LEMMA Induction ==
  ASSUME NEW T \in SUBSET Nat, 0 \in T, \A n \in T : n + 1 \in T
  PROVE  T = Nat
<1> SUFFICES ASSUME T # Nat PROVE FALSE
  OBVIOUS
<1>1. Nat \ T # {}
  OBVIOUS
<1>2. PICK n \in Nat \ T : \A m \in Nat \ T : n <= m
  BY <1>1, Least
<1>3. n # 0
  BY <1>2
<1>4. n - 1 \in T
  BY <1>2, <1>3
<1> QED
  BY <1>2, <1>3, <1>4

-----------------------------------------------------------------------------
(* Size[i] is 2^i. *)

SizeTo(f, n) == f = [i \in 0..n |-> IF i = 0 THEN 1 ELSE 2 * f[i - 1]]

LEMMA SizeToExists == \A n \in Nat : \E f : SizeTo(f, n)
<1> DEFINE T == {n \in Nat : \E f : SizeTo(f, n)}
<1>1. 0 \in T
  <2>1. SizeTo([i \in 0..0 |-> 1], 0)
    BY DEF SizeTo
  <2> QED
    BY <2>1
<1>2. ASSUME NEW n \in T
      PROVE  n + 1 \in T
  <2>1. PICK f : SizeTo(f, n)
    OBVIOUS
  <2> DEFINE g == [i \in 0..n + 1 |-> IF i <= n THEN f[i] ELSE 2 * f[n]]
  <2>2. SizeTo(g, n + 1)
    BY <2>1 DEF SizeTo
  <2> QED
    BY <2>2
<1> HIDE DEF T
<1>3. T = Nat
  BY <1>1, <1>2, Induction DEF T
<1> QED
  BY <1>3 DEF T

LEMMA SizeToUnique ==
  ASSUME NEW n \in Nat, NEW f, SizeTo(f, n), NEW g, SizeTo(g, n + 1)
  PROVE  \A i \in 0..n : f[i] = g[i]
<1> DEFINE T == {i \in 0..n : f[i] # g[i]}
<1> SUFFICES ASSUME T # {} PROVE FALSE
  OBVIOUS
<1>1. PICK i \in T : \A j \in T : i <= j
  <2>1. T \in SUBSET Nat
    OBVIOUS
  <2> HIDE DEF T
  <2> QED
    BY <2>1, Least
<1>2. i # 0
  BY DEF SizeTo
<1>3. i - 1 \in 0..n /\ f[i - 1] = g[i - 1]
  BY <1>1, <1>2
<1>4. f[i] = 2 * f[i - 1] /\ g[i] = 2 * g[i - 1]
  BY <1>2 DEF SizeTo
<1> QED
  BY <1>3, <1>4

LEMMA SizeDefined == Size = [i \in Nat |-> IF i = 0 THEN 1 ELSE 2 * Size[i - 1]]
<1> DEFINE upto(n) == CHOOSE f : SizeTo(f, n)
           g == [n \in Nat |-> upto(n)[n]]
<1>1. \A n \in Nat : SizeTo(upto(n), n)
  BY SizeToExists
<1> HIDE DEF upto
<1>2. ASSUME NEW n \in Nat
      PROVE  g[n + 1] = 2 * g[n]
  <2>1. upto(n)[n] = upto(n + 1)[n]
    BY <1>1, SizeToUnique
  <2>2. upto(n + 1)[n + 1] = 2 * upto(n + 1)[n]
    BY <1>1 DEF SizeTo
  <2> QED
    BY <2>1, <2>2
<1>3. g[0] = 1
  BY <1>1 DEF SizeTo
<1>4. \A i \in Nat : g[i] = IF i = 0 THEN 1 ELSE 2 * g[i - 1]
  <2> TAKE i \in Nat
  <2>1. CASE i # 0
    <3>1. i - 1 \in Nat /\ i - 1 + 1 = i
      BY <2>1
    <3>2. g[i - 1 + 1] = 2 * g[i - 1]
      BY <1>2, <3>1
    <3> QED
      BY <2>1, <3>1, <3>2
  <2> QED
    BY <1>3, <2>1
<1>5. \E f : f = [i \in Nat |-> IF i = 0 THEN 1 ELSE 2 * f[i - 1]]
  <2>1. g = [i \in Nat |-> IF i = 0 THEN 1 ELSE 2 * g[i - 1]]
    <3> DEFINE h == [i \in Nat |-> IF i = 0 THEN 1 ELSE 2 * g[i - 1]]
    <3>1. \A i \in Nat : g[i] = h[i]
      BY <1>4
    <3>2. DOMAIN g = Nat /\ DOMAIN h = Nat
      OBVIOUS
    <3> QED
      BY <3>1, <3>2
  <2> HIDE DEF g
  <2> QED
    BY <2>1
<1> QED
  BY <1>5 DEF Size

LEMMA SizeIs ==
  /\ Size[0] = 1
  /\ \A i \in Nat : Size[i] \in Nat \ {0} /\ Size[i + 1] = 2 * Size[i]
<1>1. Size[0] = 1 /\ \A i \in Nat : Size[i + 1] = 2 * Size[i]
  <2>1. \A i \in Nat : i + 1 \in Nat /\ i + 1 # 0 /\ i + 1 - 1 = i
    OBVIOUS
  <2> QED
    BY <2>1, SizeDefined
<1> DEFINE T == {i \in Nat : Size[i] \in Nat \ {0}}
<1>2. 0 \in T /\ \A n \in T : n + 1 \in T
  BY <1>1
<1> HIDE DEF T
<1>3. T = Nat
  BY <1>2, Induction DEF T
<1> QED
  BY <1>1, <1>3 DEF T

LEMMA SizeEven ==
  /\ Size[0] = 1
  /\ \A i \in Nat \ {0} : Size[i] % 2 = 0 /\ Size[i] = 2 * Size[i - 1]
<1>1. ASSUME NEW i \in Nat \ {0}
      PROVE  Size[i] % 2 = 0 /\ Size[i] = 2 * Size[i - 1]
  <2>1. i - 1 \in Nat /\ i - 1 + 1 = i
    OBVIOUS
  <2>2. Size[i] = 2 * Size[i - 1] /\ Size[i - 1] \in Nat
    BY <2>1, SizeIs
  <2> QED
    BY <2>2
<1> QED
  BY <1>1, SizeIs

LEMMA Multiple ==
  ASSUME NEW a \in Nat, NEW d \in Nat \ {0}, a % d = 0
  PROVE  \E q \in Int : a = d * q
OBVIOUS

LEMMA TwiceIsEven ==
  ASSUME NEW a \in Nat, NEW d \in Nat \ {0}, NEW q \in Int, a = (2 * d) * q
  PROVE  a % 2 = 0
<1>1. PICK r \in Int : r = d * q
  OBVIOUS
<1>2. a = 2 * (d * q)
  OBVIOUS
<1>3. a = 2 * r
  BY <1>1, <1>2
<1> QED
  BY <1>3

(* A multiple of the size of a larger block is even. *)
LEMMA AlignedIsEven ==
  ASSUME NEW i \in Nat \ {0}, NEW a \in Nat, a % Size[i] = 0
  PROVE  a % 2 = 0
<1>1. i - 1 \in Nat /\ Size[i - 1] \in Nat \ {0}
  BY SizeIs
<1>2. Size[i] = 2 * Size[i - 1] /\ Size[i] \in Nat \ {0}
  BY SizeEven, SizeIs
<1>3. PICK q \in Int : a = Size[i] * q
  BY <1>2, Multiple
<1>4. a = (2 * Size[i - 1]) * q
  BY <1>2, <1>3
<1> QED
  BY <1>1, <1>4, TwiceIsEven

-----------------------------------------------------------------------------
(* Walking a list meets its blocks. *)

(* After node: the walk stops at the head. *)
Succ(l, node) == IF node \in Pages THEN l.next[node] ELSE node

Walk(l, i, w, n) == w = [k \in 0..n |-> IF k = 0 THEN l.next[FreeList(i)] ELSE Succ(l, w[k - 1])]

LEMMA WalkExists ==
  ASSUME NEW l, NEW i
  PROVE  \A n \in Nat : \E w : Walk(l, i, w, n)
<1> DEFINE T == {n \in Nat : \E w : Walk(l, i, w, n)}
<1>1. 0 \in T
  <2>1. Walk(l, i, [k \in 0..0 |-> l.next[FreeList(i)]], 0)
    BY DEF Walk
  <2> QED
    BY <2>1
<1>2. ASSUME NEW n \in T
      PROVE  n + 1 \in T
  <2>1. PICK w : Walk(l, i, w, n)
    OBVIOUS
  <2> DEFINE v == [k \in 0..n + 1 |-> IF k <= n THEN w[k] ELSE Succ(l, w[n])]
  <2>2. Walk(l, i, v, n + 1)
    BY <2>1 DEF Walk
  <2> QED
    BY <2>2
<1> HIDE DEF T
<1>3. T = Nat
  BY <1>1, <1>2, Induction DEF T
<1> QED
  BY <1>3 DEF T

LEMMA BlocksWalked ==
  ASSUME NEW l, NEW i
  PROVE  \E w : /\ Walk(l, i, w, EndPage)
                /\ Blocks(l, i) = {w[k] : k \in 0..EndPage} \cap Pages
<1> DEFINE w == CHOOSE f : f = [k \in 0..EndPage |->
                                 IF k = 0 THEN l.next[FreeList(i)]
                                 ELSE IF f[k - 1] \in Pages THEN l.next[f[k - 1]] ELSE f[k - 1]]
<1>1. Blocks(l, i) = {w[k] : k \in 0..EndPage} \cap Pages
  BY Zenon DEF Blocks
<1>2. \E f : Walk(l, i, f, EndPage)
  BY WalkExists, BuddyAssumption
<1>3. w = [k \in 0..EndPage |-> IF k = 0 THEN l.next[FreeList(i)]
                                ELSE IF w[k - 1] \in Pages THEN l.next[w[k - 1]] ELSE w[k - 1]]
  BY <1>2 DEF Walk, Succ
<1>4. Walk(l, i, w, EndPage)
  BY <1>3 DEF Walk, Succ
<1> HIDE DEF w
<1> QED
  BY <1>1, <1>4

(***************************************************************************)
(* The blocks B are list i: next and prev are inverse on B and the head,   *)
(* and from the head next leads to all of them.                            *)
(***************************************************************************)
Ring(i, B) == B \cup {FreeList(i)}

Closed(l, i, S) == FreeList(i) \in S /\ \A n \in S : l.next[n] \in S

Linked(l, i, B) ==
  /\ B \subseteq Pages
  /\ \A n \in Ring(i, B) :
       /\ l.next[n] \in Ring(i, B) /\ l.prev[n] \in Ring(i, B)
       /\ l.prev[l.next[n]] = n /\ l.next[l.prev[n]] = n
  /\ \A S \in SUBSET Ring(i, B) : Closed(l, i, S) => S = Ring(i, B)

LEMMA HeadsAndPages ==
  /\ \A i \in Orders : FreeList(i) \in FreeLists /\ FreeList(i) \in Int /\ FreeList(i) < 0
  /\ \A i, j \in Orders : FreeList(i) = FreeList(j) => i = j
  /\ \A i \in Orders, B \in SUBSET Pages : FreeList(i) \notin B
  /\ NULL \notin Pages /\ NULL \notin FreeLists /\ Pages \cap FreeLists = {} /\ Pages \subseteq Nat
BY BuddyAssumption DEF FreeList, FreeLists, Orders, Pages, NULL

(* A walk of list i stays in it. *)
LEMMA WalkStays ==
  ASSUME NEW l, NEW i \in Orders, NEW B, Linked(l, i, B), NEW w, Walk(l, i, w, EndPage)
  PROVE  \A k \in 0..EndPage : w[k] \in Ring(i, B)
<1> DEFINE T == {k \in 0..EndPage : w[k] \notin Ring(i, B)}
<1> SUFFICES ASSUME T # {} PROVE FALSE
  OBVIOUS
<1>0. T \in SUBSET Nat
  BY BuddyAssumption
<1>1. PICK k \in T : \A j \in T : k <= j
  <2> HIDE DEF T
  <2> QED
    BY <1>0, Least
<1>2. FreeList(i) \in Ring(i, B) /\ \A n \in Ring(i, B) : l.next[n] \in Ring(i, B)
  BY DEF Linked, Ring
<1>3. k # 0
  BY <1>2 DEF Walk
<1>4. k - 1 \in 0..EndPage /\ w[k - 1] \in Ring(i, B) /\ k \in 0..EndPage
  BY <1>1, <1>3, BuddyAssumption
<1>5. w[k] = Succ(l, w[k - 1])
  BY <1>3, <1>4 DEF Walk
<1> QED
  BY <1>2, <1>4, <1>5 DEF Succ

(* A walk that has not come back to the head has met no node twice. *)
LEMMA WalkMeetsOnce ==
  ASSUME NEW l, NEW i \in Orders, NEW B, Linked(l, i, B), NEW w, Walk(l, i, w, EndPage),
         \A k \in 0..EndPage : w[k] \in Pages
  PROVE  \A j, k \in 0..EndPage : j < k => w[j] # w[k]
<1> DEFINE T == {j \in 0..EndPage : \E k \in 0..EndPage : j < k /\ w[j] = w[k]}
<1> SUFFICES ASSUME T # {} PROVE FALSE
  OBVIOUS
<1>0. T \in SUBSET Nat
  BY BuddyAssumption
<1>1. PICK j \in T : \A n \in T : j <= n
  <2> HIDE DEF T
  <2> QED
    BY <1>0, Least
<1>2. PICK k \in 0..EndPage : j < k /\ w[j] = w[k]
  OBVIOUS
<1>3. /\ j \in 0..EndPage /\ k - 1 \in 0..EndPage /\ k # 0
  BY <1>0, <1>2, BuddyAssumption
<1>4. w[k - 1] \in Pages /\ w[k - 1] \in Ring(i, B) /\ w[k] = l.next[w[k - 1]]
  BY <1>3, WalkStays DEF Walk, Succ
<1>5. l.prev[w[k]] = w[k - 1]
  BY <1>4 DEF Linked
<1>6. CASE j = 0
  <2>1. w[j] = l.next[FreeList(i)] /\ FreeList(i) \in Ring(i, B)
    BY <1>3, <1>6 DEF Walk, Ring
  <2>2. l.prev[w[j]] = FreeList(i)
    BY <2>1 DEF Linked
  <2> QED
    BY <1>2, <1>4, <1>5, <2>2, HeadsAndPages
<1>7. CASE j # 0
  <2>1. j - 1 \in 0..EndPage
    BY <1>3, <1>7, BuddyAssumption
  <2>2. w[j - 1] \in Pages /\ w[j - 1] \in Ring(i, B) /\ w[j] = l.next[w[j - 1]]
    BY <1>3, <1>7, <2>1, WalkStays DEF Walk, Succ
  <2>3. l.prev[w[j]] = w[j - 1]
    BY <2>2 DEF Linked
  <2>4. w[j - 1] = w[k - 1] /\ j - 1 < k - 1
    BY <1>2, <1>3, <1>5, <2>3
  <2>5. j - 1 \in T
    BY <1>3, <2>1, <2>4
  <2> QED
    BY <1>0, <1>1, <2>5
<1> QED
  BY <1>6, <1>7

LEMMA WalkFindsBlocks ==
  ASSUME NEW l, NEW i \in Orders, NEW B, Linked(l, i, B)
  PROVE  Blocks(l, i) = B
<1>1. PICK w : /\ Walk(l, i, w, EndPage)
               /\ Blocks(l, i) = {w[k] : k \in 0..EndPage} \cap Pages
  BY BlocksWalked
<1>2. \A k \in 0..EndPage : w[k] \in Ring(i, B)
  BY <1>1, WalkStays
<1>3. EndPage \in Nat /\ EndPage \in 0..EndPage /\ 0 \in 0..EndPage
  BY BuddyAssumption
<1>4. \E k \in 0..EndPage : w[k] \notin Pages
  <2> SUFFICES ASSUME \A k \in 0..EndPage : w[k] \in Pages PROVE FALSE
    OBVIOUS
  <2>1. \A j, k \in 0..EndPage : j < k => w[j] # w[k]
    BY <1>1, WalkMeetsOnce
  <2>2. w \in [0..EndPage -> Pages]
    BY <1>1 DEF Walk
  <2>3. IsFiniteSet(0..EndPage) /\ Cardinality(0..EndPage) = EndPage + 1
    BY <1>3, FS_Interval
  <2>4. IsFiniteSet(Pages) /\ Cardinality(Pages) < EndPage + 1
    BY <1>3, FS_Interval DEF Pages
  <2>5. PICK j, k \in 0..EndPage : j # k /\ w[j] = w[k]
    BY <2>2, <2>3, <2>4, FS_PigeonHole
  <2> QED
    BY <1>3, <2>1, <2>5
<1>6. B \subseteq Pages
  BY DEF Linked
<1> DEFINE T == {k \in 0..EndPage : w[k] \notin Pages}
<1>7. PICK h \in T : \A k \in T : h <= k
  <2>1. T \in SUBSET Nat /\ T # {}
    BY <1>3, <1>4
  <2> HIDE DEF T
  <2> QED
    BY <2>1, Least
<1>8. w[h] = FreeList(i) /\ h \in 0..EndPage /\ \A k \in 0..EndPage : k < h => w[k] \in Pages
  BY <1>2, <1>3, <1>6, <1>7 DEF Ring
<1> DEFINE R == {w[k] : k \in 0..h} \cup {FreeList(i)}
<1>9. Closed(l, i, R)
  <2>1. l.next[FreeList(i)] \in R
    BY <1>1, <1>3, <1>8 DEF Walk
  <2>2. ASSUME NEW k \in 0..h, k # h
        PROVE  l.next[w[k]] \in R
    <3>1. k + 1 \in 0..h /\ k + 1 \in 0..EndPage /\ k \in 0..EndPage /\ k < h
      BY <1>3, <1>8, <2>2
    <3>2. w[k + 1] = Succ(l, w[k]) /\ w[k] \in Pages
      BY <1>1, <1>8, <3>1 DEF Walk
    <3> QED
      BY <3>1, <3>2 DEF Succ
  <2> QED
    BY <1>8, <2>1, <2>2 DEF Closed
<1>10. R \in SUBSET Ring(i, B)
  BY <1>2, <1>3, <1>8 DEF Ring
<1>11. R = Ring(i, B)
  BY <1>9, <1>10 DEF Linked
<1>12. B \subseteq {w[k] : k \in 0..EndPage}
  <2>1. R \subseteq {w[k] : k \in 0..EndPage}
    BY <1>3, <1>6, <1>8
  <2> QED
    BY <1>11, <2>1 DEF Ring
<1>13. {w[k] : k \in 0..EndPage} \cap Pages \subseteq B
  BY <1>2, <1>6, HeadsAndPages DEF Ring
<1> QED
  BY <1>1, <1>6, <1>12, <1>13

-----------------------------------------------------------------------------
(* list_add and list_del change one list. *)

Nodes == Pages \cup FreeLists

Typed(l) ==
  /\ l.next \in [Nodes -> Nodes \cup {NULL}]
  /\ l.prev \in [Nodes -> Nodes \cup {NULL}]

LEMMA AddPointers ==
  ASSUME NEW l, Typed(l), NEW head \in Nodes, NEW node \in Nodes, node # head, l.next[head] \in Nodes,
         NEW m, m = list_add(l, head, node)
  PROVE  /\ Typed(m)
         /\ \A x \in Nodes : m.next[x] = IF x = head THEN node
                                         ELSE IF x = node THEN l.next[head] ELSE l.next[x]
         /\ \A x \in Nodes : m.prev[x] = IF x = l.next[head] THEN node
                                         ELSE IF x = node THEN head ELSE l.prev[x]
<1>1. /\ m.next = [l.next EXCEPT ![node] = l.next[head], ![head] = node]
      /\ m.prev = [l.prev EXCEPT ![node] = head, ![l.next[head]] = node]
  BY DEF list_add
<1> QED
  BY <1>1 DEF Typed

LEMMA DelPointers ==
  ASSUME NEW l, Typed(l), NEW node \in Nodes, l.next[node] \in Nodes, l.prev[node] \in Nodes,
         NEW m, m = list_del(l, node)
  PROVE  /\ Typed(m)
         /\ \A x \in Nodes : m.next[x] = IF x = l.prev[node] THEN l.next[node] ELSE l.next[x]
         /\ \A x \in Nodes : m.prev[x] = IF x = l.next[node] THEN l.prev[node] ELSE l.prev[x]
<1>1. /\ m.next = [l.next EXCEPT ![l.prev[node]] = l.next[node]]
      /\ m.prev = [l.prev EXCEPT ![l.next[node]] = l.prev[node]]
  BY DEF list_del
<1> QED
  BY <1>1 DEF Typed

(* A list none of whose pointers has changed. *)
LEMMA LinkedSame ==
  ASSUME NEW l, NEW m, NEW i \in Orders, NEW B, Linked(l, i, B),
         \A x \in Ring(i, B) : m.next[x] = l.next[x] /\ m.prev[x] = l.prev[x]
  PROVE  Linked(m, i, B)
<1>1. ASSUME NEW S \in SUBSET Ring(i, B), Closed(m, i, S)
      PROVE  S = Ring(i, B)
  <2>1. Closed(l, i, S)
    BY <1>1 DEF Closed
  <2> QED
    BY <2>1 DEF Linked
<1> QED
  BY <1>1 DEF Linked

LEMMA LinkedAdd ==
  ASSUME NEW l, Typed(l), NEW i \in Orders, NEW B, Linked(l, i, B), NEW node \in Pages, node \notin B,
         NEW m, m = list_add(l, FreeList(i), node)
  PROVE  Linked(m, i, B \cup {node})
<1> DEFINE H == FreeList(i)
           C == B \cup {node}
<1>1. B \subseteq Pages /\ H \in Nodes /\ node \in Nodes /\ node # H /\ H \notin B
  BY HeadsAndPages DEF Linked, Nodes
<1>2. Ring(i, C) = Ring(i, B) \cup {node} /\ H \in Ring(i, B) /\ node \notin Ring(i, B)
  BY <1>1 DEF Ring
<1>3. Ring(i, C) \subseteq Nodes
  BY <1>1, <1>2 DEF Ring, Nodes
<1>4. \A n \in Ring(i, B) :
        /\ l.next[n] \in Ring(i, B) /\ l.prev[n] \in Ring(i, B)
        /\ l.prev[l.next[n]] = n /\ l.next[l.prev[n]] = n
  BY DEF Linked
<1> DEFINE f == l.next[H]
<1>5. f \in Ring(i, B) /\ f \in Nodes /\ l.prev[f] = H
  BY <1>2, <1>3, <1>4
<1>6. /\ \A x \in Nodes : m.next[x] = IF x = H THEN node ELSE IF x = node THEN f ELSE l.next[x]
      /\ \A x \in Nodes : m.prev[x] = IF x = f THEN node ELSE IF x = node THEN H ELSE l.prev[x]
  BY <1>1, <1>5, AddPointers
<1> HIDE DEF H, C, f
<1>7. m.next[H] = node /\ m.next[node] = f /\ m.prev[node] = H /\ m.prev[f] = node
  BY <1>1, <1>2, <1>5, <1>6
<1>8. ASSUME NEW n \in Ring(i, C)
      PROVE  /\ m.next[n] \in Ring(i, C) /\ m.prev[n] \in Ring(i, C)
             /\ m.prev[m.next[n]] = n /\ m.next[m.prev[n]] = n
  <2>1. CASE n = node
    BY <1>2, <1>5, <1>7, <2>1
  <2>2. CASE n # node
    <3>1. n \in Ring(i, B) /\ n \in Nodes
      BY <1>2, <1>3, <2>2
    <3>2. /\ l.next[n] \in Ring(i, B) /\ l.next[n] \in Nodes /\ l.prev[n] \in Ring(i, B)
          /\ l.prev[n] \in Nodes /\ l.prev[l.next[n]] = n /\ l.next[l.prev[n]] = n
      BY <1>2, <1>3, <1>4, <3>1
    <3>3. m.next[n] \in Ring(i, C) /\ m.prev[m.next[n]] = n
      <4>1. CASE n = H
        BY <1>2, <1>7, <4>1
      <4>2. CASE n # H
        <5>1. m.next[n] = l.next[n]
          BY <1>6, <2>2, <3>1, <4>2
        <5>2. l.next[n] # f /\ l.next[n] # node
          BY <1>2, <1>5, <3>2, <4>2
        <5> QED
          BY <1>2, <1>6, <3>2, <5>1, <5>2
      <4> QED
        BY <4>1, <4>2
    <3>4. m.prev[n] \in Ring(i, C) /\ m.next[m.prev[n]] = n
      <4>1. CASE n = f
        BY <1>2, <1>7, <4>1
      <4>2. CASE n # f
        <5>1. m.prev[n] = l.prev[n]
          BY <1>6, <2>2, <3>1, <4>2
        <5>2. l.prev[n] # H /\ l.prev[n] # node
          BY <1>2, <3>2, <4>2 DEF f
        <5> QED
          BY <1>2, <1>6, <3>2, <5>1, <5>2
      <4> QED
        BY <4>1, <4>2
    <3> QED
      BY <3>3, <3>4
  <2> QED
    BY <2>1, <2>2
<1>9. ASSUME NEW S \in SUBSET Ring(i, C), Closed(m, i, S)
      PROVE  S = Ring(i, C)
  <2> DEFINE R == S \cap Ring(i, B)
  <2>1. H \in S /\ node \in S /\ f \in S
    <3>1. H \in S /\ \A n \in S : m.next[n] \in S
      BY <1>9 DEF Closed, H
    <3> QED
      BY <1>7, <3>1
  <2>2. ASSUME NEW n \in R
        PROVE  l.next[n] \in R
    <3>1. n \in Nodes /\ n # node /\ l.next[n] \in Ring(i, B)
      BY <1>2, <1>3, <1>4
    <3>2. CASE n = H
      BY <1>5, <2>1, <3>2 DEF f
    <3>3. CASE n # H
      <4>1. m.next[n] = l.next[n]
        BY <1>6, <3>1, <3>3
      <4> QED
        BY <1>9, <3>1, <4>1 DEF Closed
    <3> QED
      BY <3>2, <3>3
  <2>3. Closed(l, i, R)
    BY <1>2, <2>1, <2>2 DEF Closed, H
  <2>4. R = Ring(i, B)
    BY <2>3 DEF Linked
  <2> QED
    BY <1>2, <2>1, <2>4
<1>10. C \subseteq Pages
  BY <1>1 DEF C
<1>11. Linked(m, i, C)
  BY <1>8, <1>9, <1>10 DEF Linked
<1> QED
  BY <1>11 DEF C

LEMMA LinkedDel ==
  ASSUME NEW l, Typed(l), NEW i \in Orders, NEW B, Linked(l, i, B), NEW node \in B,
         NEW m, m = list_del(l, node)
  PROVE  Linked(m, i, B \ {node})
<1> DEFINE H == FreeList(i)
           C == B \ {node}
           p == l.prev[node]
           q == l.next[node]
<1>1. B \subseteq Pages /\ H \in Nodes /\ node \in Nodes /\ node # H
  BY HeadsAndPages DEF Linked, Nodes
<1>2. Ring(i, C) = Ring(i, B) \ {node} /\ H \in Ring(i, C) /\ node \in Ring(i, B)
  BY <1>1 DEF Ring
<1>3. Ring(i, B) \subseteq Nodes
  BY <1>1 DEF Ring, Nodes
<1>4. \A n \in Ring(i, B) :
        /\ l.next[n] \in Ring(i, B) /\ l.prev[n] \in Ring(i, B)
        /\ l.prev[l.next[n]] = n /\ l.next[l.prev[n]] = n
  BY DEF Linked
<1>5. p \in Ring(i, B) /\ q \in Ring(i, B) /\ l.next[p] = node /\ l.prev[q] = node
  BY <1>2, <1>4
<1>6. p \in Nodes /\ q \in Nodes
  BY <1>3, <1>5
<1>7. /\ \A x \in Nodes : m.next[x] = IF x = p THEN q ELSE l.next[x]
      /\ \A x \in Nodes : m.prev[x] = IF x = q THEN p ELSE l.prev[x]
  BY <1>1, <1>6, DelPointers
(* If the node were its own neighbour the head would not lead to it. *)
<1>8. p # node /\ q # node
  <2>1. p = node <=> q = node
    BY <1>5
  <2>2. ASSUME q = node PROVE FALSE
    <3>1. ASSUME NEW n \in Ring(i, C)
          PROVE  l.next[n] \in Ring(i, C)
      <4>1. l.prev[l.next[n]] = n /\ n # node /\ l.next[n] \in Ring(i, B)
        BY <1>2, <1>4
      <4>2. l.next[n] # node
        BY <2>1, <2>2, <4>1
      <4> QED
        BY <1>2, <4>1, <4>2
    <3>2. Closed(l, i, Ring(i, C))
      BY <1>2, <3>1 DEF Closed
    <3>3. Ring(i, C) = Ring(i, B)
      BY <1>2, <3>2 DEF Linked
    <3> QED
      BY <1>2, <3>3
  <2> QED
    BY <2>1, <2>2
<1> HIDE DEF H, C, p, q
<1>9. p \in Ring(i, C) /\ q \in Ring(i, C)
  BY <1>2, <1>5, <1>8
<1>10. ASSUME NEW n \in Ring(i, C)
       PROVE  /\ m.next[n] \in Ring(i, C) /\ m.prev[n] \in Ring(i, C)
              /\ m.prev[m.next[n]] = n /\ m.next[m.prev[n]] = n
  <2>1. n \in Ring(i, B) /\ n \in Nodes /\ n # node
    BY <1>2, <1>3
  <2>2. /\ l.next[n] \in Ring(i, B) /\ l.next[n] \in Nodes /\ l.prev[n] \in Ring(i, B)
        /\ l.prev[n] \in Nodes /\ l.prev[l.next[n]] = n /\ l.next[l.prev[n]] = n
    BY <1>3, <1>4, <2>1
  <2>3. m.next[n] \in Ring(i, C) /\ m.prev[m.next[n]] = n
    <3>1. CASE n = p
      BY <1>6, <1>7, <1>9, <3>1
    <3>2. CASE n # p
      <4>1. l.next[n] # node
        BY <2>2, <3>2 DEF p
      <4>2. l.next[n] # q
        BY <1>5, <2>1, <2>2
      <4> QED
        BY <1>2, <1>7, <2>1, <2>2, <3>2, <4>1, <4>2
    <3> QED
      BY <3>1, <3>2
  <2>4. m.prev[n] \in Ring(i, C) /\ m.next[m.prev[n]] = n
    <3>1. CASE n = q
      BY <1>6, <1>7, <1>9, <3>1
    <3>2. CASE n # q
      <4>1. l.prev[n] # node
        BY <2>2, <3>2 DEF q
      <4>2. l.prev[n] # p
        BY <1>5, <2>1, <2>2
      <4> QED
        BY <1>2, <1>7, <2>1, <2>2, <3>2, <4>1, <4>2
    <3> QED
      BY <3>1, <3>2
  <2> QED
    BY <2>3, <2>4
<1>11. ASSUME NEW S \in SUBSET Ring(i, C), Closed(m, i, S)
       PROVE  S = Ring(i, C)
  <2>1. H \in S /\ \A n \in S : m.next[n] \in S
    BY <1>11 DEF Closed, H
  <2>2. \A n \in S : n \in Nodes /\ n \in Ring(i, C)
    BY <1>2, <1>3
  <2>3. CASE p \in S
    <3> DEFINE R == S \cup {node}
    <3>1. ASSUME NEW n \in R
          PROVE  l.next[n] \in R
      <4>1. CASE n = node
        <5>1. m.next[p] = q
          BY <1>6, <1>7
        <5> QED
          BY <2>1, <2>3, <4>1, <5>1 DEF q
      <4>2. CASE n = p
        BY <1>5, <4>2
      <4>3. CASE n # node /\ n # p
        BY <1>7, <2>1, <2>2, <4>3
      <4> QED
        BY <4>1, <4>2, <4>3
    <3>2. Closed(l, i, R) /\ R \in SUBSET Ring(i, B)
      BY <1>2, <2>1, <3>1 DEF Closed, H
    <3>3. R = Ring(i, B)
      BY <3>2 DEF Linked
    <3> QED
      BY <1>2, <2>2, <3>3
  <2>4. CASE p \notin S
    <3>1. \A n \in S : m.next[n] = l.next[n]
      BY <1>7, <2>2, <2>4
    <3>2. Closed(l, i, S) /\ S \in SUBSET Ring(i, B)
      BY <1>2, <2>1, <3>1 DEF Closed, H
    <3>3. S = Ring(i, B)
      BY <3>2 DEF Linked
    <3> QED
      BY <1>5, <2>4, <3>3
  <2> QED
    BY <2>3, <2>4
<1>12. C \subseteq Pages
  BY <1>1 DEF C
<1>13. Linked(m, i, C)
  BY <1>10, <1>11, <1>12 DEF Linked
<1> QED
  BY <1>13 DEF C

-----------------------------------------------------------------------------
(* Adding a block to sound lists, and taking one off them. *)

(* The blocks of the lists do not overlap; those of more than a page begin at an even one. *)
Sound(l) ==
  /\ Typed(l)
  /\ \A i \in Orders : Linked(l, i, Blocks(l, i))
  /\ \A i \in Orders \ {0} : \A b \in Blocks(l, i) : b % 2 = 0
  /\ \A i, j \in Orders : \A a \in Blocks(l, i), b \in Blocks(l, j) :
       <<a, i>> # <<b, j>> => Extent(a, i) \cap Extent(b, j) = {}

LEMMA InFree ==
  ASSUME NEW l
  PROVE  \A x : x \in Free(l) <=> \E i \in Orders : \E b \in Blocks(l, i) : x \in Extent(b, i)
BY DEF Free

LEMMA SameBlocks ==
  ASSUME NEW l, NEW m, \A i \in Orders : Blocks(m, i) = Blocks(l, i)
  PROVE  Free(m) = Free(l)
<1>1. \A x : x \in Free(m) <=> x \in Free(l)
  BY InFree
<1> QED
  BY <1>1

LEMMA ExtentHasBlock ==
  ASSUME NEW i \in Orders, NEW b \in Pages
  PROVE  b \in Extent(b, i)
<1>1. i \in Nat /\ b \in Nat
  BY BuddyAssumption DEF Orders, Pages
<1> QED
  BY <1>1, SizeIs DEF Extent

LEMMA BlocksApart ==
  ASSUME NEW l, Sound(l)
  PROVE  /\ \A i \in Orders : Blocks(l, i) \subseteq Pages /\ Blocks(l, i) \subseteq Free(l)
         /\ \A i, j \in Orders : i # j => Blocks(l, i) \cap Blocks(l, j) = {}
<1>1. \A i \in Orders : Blocks(l, i) \subseteq Pages
  BY DEF Sound, Linked
<1>2. ASSUME NEW i \in Orders, NEW b \in Blocks(l, i)
      PROVE  b \in Extent(b, i)
  BY <1>1, ExtentHasBlock
<1>3. \A i \in Orders : Blocks(l, i) \subseteq Free(l)
  BY <1>2, InFree
<1>4. ASSUME NEW i \in Orders, NEW j \in Orders, i # j, NEW b \in Blocks(l, i), b \in Blocks(l, j)
      PROVE  FALSE
  <2>1. <<b, i>> # <<b, j>>
    BY <1>4
  <2>2. Extent(b, i) \cap Extent(b, j) = {}
    BY <1>4, <2>1 DEF Sound
  <2> QED
    BY <1>2, <1>4, <2>2
<1> QED
  BY <1>1, <1>3, <1>4

LEMMA AddBlock ==
  ASSUME NEW l, Sound(l), NEW k \in Orders, NEW node \in Pages, k # 0 => node % 2 = 0,
         Extent(node, k) \cap Free(l) = {},
         NEW m, m = list_add(l, FreeList(k), node)
  PROVE  /\ Sound(m)
         /\ \A j \in Orders : Blocks(m, j) = IF j = k THEN Blocks(l, j) \cup {node} ELSE Blocks(l, j)
         /\ Free(m) = Free(l) \cup Extent(node, k)
<1> DEFINE H == FreeList(k)
<1>1. node \in Extent(node, k) /\ node \notin Free(l)
  BY ExtentHasBlock
<1>2. /\ \A j \in Orders : Blocks(l, j) \subseteq Pages /\ node \notin Blocks(l, j)
                           /\ Linked(l, j, Blocks(l, j))
      /\ \A j \in Orders : j # k => Blocks(l, k) \cap Blocks(l, j) = {}
  BY <1>1, BlocksApart DEF Sound
<1>3. H \in Nodes /\ node \in Nodes /\ node # H
  BY HeadsAndPages DEF Nodes
<1>4. l.next[H] \in Ring(k, Blocks(l, k)) /\ l.next[H] \in Nodes
  <2>1. H \in Ring(k, Blocks(l, k)) /\ Ring(k, Blocks(l, k)) \subseteq Nodes
    BY <1>2, <1>3 DEF Ring, Nodes
  <2> QED
    BY <1>2, <2>1 DEF Linked
<1>5. /\ Typed(m)
      /\ \A x \in Nodes : m.next[x] = IF x = H THEN node ELSE IF x = node THEN l.next[H] ELSE l.next[x]
      /\ \A x \in Nodes : m.prev[x] = IF x = l.next[H] THEN node ELSE IF x = node THEN H ELSE l.prev[x]
  BY <1>3, <1>4, AddPointers DEF Sound
<1>6. Linked(m, k, Blocks(l, k) \cup {node})
  BY <1>2, LinkedAdd DEF Sound
<1>7. ASSUME NEW j \in Orders, j # k
      PROVE  Linked(m, j, Blocks(l, j))
  <2>1. ASSUME NEW x \in Ring(j, Blocks(l, j))
        PROVE  m.next[x] = l.next[x] /\ m.prev[x] = l.prev[x]
    <3>1. x \in Nodes /\ x # node /\ x # H /\ x # l.next[H]
      <4>1. CASE x = FreeList(j)
        BY <1>2, <1>4, <1>7, <4>1, HeadsAndPages DEF Ring, Nodes
      <4>2. CASE x \in Blocks(l, j)
        BY <1>2, <1>4, <1>7, <4>2, HeadsAndPages DEF Ring, Nodes
      <4> QED
        BY <4>1, <4>2 DEF Ring
    <3> QED
      BY <1>5, <3>1
  <2> QED
    BY <1>2, <2>1, LinkedSame
<1>8. \A j \in Orders : Blocks(m, j) = IF j = k THEN Blocks(l, j) \cup {node} ELSE Blocks(l, j)
  BY <1>6, <1>7, WalkFindsBlocks
<1>9. Free(m) = Free(l) \cup Extent(node, k)
  <2>1. ASSUME NEW x, x \in Free(m)
        PROVE  x \in Free(l) \cup Extent(node, k)
    <3>1. PICK j \in Orders : \E b \in Blocks(m, j) : x \in Extent(b, j)
      BY <2>1, InFree
    <3>2. PICK b \in Blocks(m, j) : x \in Extent(b, j)
      BY <3>1
    <3>3. b \in Blocks(l, j) \/ (b = node /\ j = k)
      BY <1>8, <3>2
    <3> QED
      BY <3>2, <3>3, InFree
  <2>2. ASSUME NEW x, x \in Free(l)
        PROVE  x \in Free(m)
    <3>1. PICK j \in Orders : \E b \in Blocks(l, j) : x \in Extent(b, j)
      BY <2>2, InFree
    <3>2. PICK b \in Blocks(l, j) : x \in Extent(b, j)
      BY <3>1
    <3>3. b \in Blocks(m, j)
      BY <1>8, <3>2
    <3> QED
      BY <3>2, <3>3, InFree
  <2>3. node \in Blocks(m, k)
    BY <1>8
  <2>4. \A x \in Extent(node, k) : x \in Free(m)
    BY <2>3, InFree
  <2> QED
    BY <2>1, <2>2, <2>4
<1>10. ASSUME NEW i \in Orders, NEW j \in Orders, NEW a \in Blocks(m, i), NEW b \in Blocks(m, j),
              <<a, i>> # <<b, j>>, NEW x \in Extent(a, i), x \in Extent(b, j)
       PROVE  FALSE
  <2>1. a \in Blocks(l, i) \/ (a = node /\ i = k)
    BY <1>8
  <2>2. b \in Blocks(l, j) \/ (b = node /\ j = k)
    BY <1>8
  <2>3. CASE a \in Blocks(l, i) /\ b \in Blocks(l, j)
    <3>1. Extent(a, i) \cap Extent(b, j) = {}
      BY <1>10, <2>3 DEF Sound
    <3> QED
      BY <1>10, <3>1
  <2>4. CASE a \in Blocks(l, i) /\ b = node /\ j = k
    <3>1. x \in Free(l)
      BY <2>4, InFree
    <3> QED
      BY <1>10, <2>4, <3>1
  <2>5. CASE a = node /\ i = k /\ b \in Blocks(l, j)
    <3>1. x \in Free(l)
      BY <1>10, <2>5, InFree
    <3> QED
      BY <1>10, <2>5, <3>1
  <2> QED
    BY <1>10, <2>1, <2>2, <2>3, <2>4, <2>5
<1>11. \A j \in Orders : Linked(m, j, Blocks(m, j))
  BY <1>6, <1>7, <1>8
<1>12. \A j \in Orders \ {0} : \A b \in Blocks(m, j) : b % 2 = 0
  BY <1>8 DEF Sound
<1>13. Sound(m)
  BY <1>5, <1>10, <1>11, <1>12 DEF Sound
<1> QED
  BY <1>8, <1>9, <1>13

LEMMA DelBlock ==
  ASSUME NEW l, Sound(l), NEW k \in Orders, NEW node \in Blocks(l, k),
         NEW m, m = list_del(l, node)
  PROVE  /\ Sound(m)
         /\ \A j \in Orders : Blocks(m, j) = IF j = k THEN Blocks(l, j) \ {node} ELSE Blocks(l, j)
         /\ Free(m) = Free(l) \ Extent(node, k)
<1>1. /\ \A j \in Orders : Blocks(l, j) \subseteq Pages /\ Linked(l, j, Blocks(l, j))
      /\ \A j \in Orders : j # k => Blocks(l, k) \cap Blocks(l, j) = {}
  BY BlocksApart DEF Sound
<1>2. /\ node \in Nodes /\ l.next[node] \in Ring(k, Blocks(l, k)) /\ l.prev[node] \in Ring(k, Blocks(l, k))
      /\ l.next[node] \in Nodes /\ l.prev[node] \in Nodes
  <2>1. node \in Ring(k, Blocks(l, k)) /\ Ring(k, Blocks(l, k)) \subseteq Nodes
    BY <1>1, HeadsAndPages DEF Ring, Nodes
  <2> QED
    BY <1>1, <2>1 DEF Linked
<1>3. /\ Typed(m)
      /\ \A x \in Nodes : m.next[x] = IF x = l.prev[node] THEN l.next[node] ELSE l.next[x]
      /\ \A x \in Nodes : m.prev[x] = IF x = l.next[node] THEN l.prev[node] ELSE l.prev[x]
  BY <1>2, DelPointers DEF Sound
<1>4. Linked(m, k, Blocks(l, k) \ {node})
  BY <1>1, LinkedDel DEF Sound
<1>5. ASSUME NEW j \in Orders, j # k
      PROVE  Linked(m, j, Blocks(l, j))
  <2>1. ASSUME NEW x \in Ring(j, Blocks(l, j))
        PROVE  m.next[x] = l.next[x] /\ m.prev[x] = l.prev[x]
    <3>1. x \in Nodes /\ x # l.prev[node] /\ x # l.next[node]
      <4>1. CASE x = FreeList(j)
        BY <1>1, <1>2, <1>5, <4>1, HeadsAndPages DEF Ring, Nodes
      <4>2. CASE x \in Blocks(l, j)
        BY <1>1, <1>2, <1>5, <4>2, HeadsAndPages DEF Ring, Nodes
      <4> QED
        BY <4>1, <4>2 DEF Ring
    <3> QED
      BY <1>3, <3>1
  <2> QED
    BY <1>1, <2>1, LinkedSame
<1>6. \A j \in Orders : Blocks(m, j) = IF j = k THEN Blocks(l, j) \ {node} ELSE Blocks(l, j)
  BY <1>4, <1>5, WalkFindsBlocks
<1>7. \A j \in Orders : \A b \in Blocks(l, j) :
         b \notin Blocks(m, j) => b = node /\ j = k
  BY <1>6
<1>8. ASSUME NEW j \in Orders, NEW b \in Blocks(m, j)
      PROVE  b \in Blocks(l, j) /\ Extent(b, j) \cap Extent(node, k) = {}
  <2>1. b \in Blocks(l, j) /\ (b # node \/ j # k)
    BY <1>6
  <2>2. <<b, j>> # <<node, k>>
    BY <2>1
  <2> QED
    BY <2>1, <2>2 DEF Sound
<1>9. Free(m) = Free(l) \ Extent(node, k)
  <2>1. ASSUME NEW x, x \in Free(m)
        PROVE  x \in Free(l) \ Extent(node, k)
    <3>1. PICK j \in Orders : \E b \in Blocks(m, j) : x \in Extent(b, j)
      BY <2>1, InFree
    <3>2. PICK b \in Blocks(m, j) : x \in Extent(b, j)
      BY <3>1
    <3>3. b \in Blocks(l, j) /\ x \notin Extent(node, k)
      BY <1>8, <3>2
    <3> QED
      BY <3>2, <3>3, InFree
  <2>2. ASSUME NEW x, x \in Free(l), x \notin Extent(node, k)
        PROVE  x \in Free(m)
    <3>1. PICK j \in Orders : \E b \in Blocks(l, j) : x \in Extent(b, j)
      BY <2>2, InFree
    <3>2. PICK b \in Blocks(l, j) : x \in Extent(b, j)
      BY <3>1
    <3>3. b \in Blocks(m, j)
      BY <1>7, <2>2, <3>2
    <3> QED
      BY <3>2, <3>3, InFree
  <2> QED
    BY <2>1, <2>2
<1>10. \A j \in Orders : Linked(m, j, Blocks(m, j))
  BY <1>4, <1>5, <1>6
<1>11. Sound(m)
  BY <1>3, <1>8, <1>10 DEF Sound
<1> QED
  BY <1>6, <1>9, <1>11

-----------------------------------------------------------------------------
(* Splitting a block leaves one page less. *)

(* The function that Split is defined by, from i down to i - n. *)
Rest(l, block, i, r, n) ==
  r = [k \in i - n..i |-> IF k = i THEN list_del(l, block)
                          ELSE list_add(r[k + 1], FreeList(k), block + Size[k])]

LEMMA RestExists ==
  ASSUME NEW l, NEW block, NEW i \in Nat
  PROVE  \A n \in Nat : \E r : Rest(l, block, i, r, n)
<1> DEFINE T == {n \in Nat : \E r : Rest(l, block, i, r, n)}
<1>1. 0 \in T
  <2>1. Rest(l, block, i, [k \in i - 0..i |-> list_del(l, block)], 0)
    BY DEF Rest
  <2> QED
    BY <2>1
<1>2. ASSUME NEW n \in T
      PROVE  n + 1 \in T
  <2>1. PICK r : Rest(l, block, i, r, n)
    OBVIOUS
  <2> DEFINE low == i - (n + 1)
             s == [k \in low..i |-> IF k = low THEN list_add(r[k + 1], FreeList(k), block + Size[k])
                                    ELSE r[k]]
  <2>2. Rest(l, block, i, s, n + 1)
    <3>1. \A k \in low..i : k # low => k \in i - n..i
      OBVIOUS
    <3>2. \A k \in i - n..i : k \in low..i /\ k # low
      OBVIOUS
    <3>3. \A k \in low..i : k # i => s[k + 1] = r[k + 1]
      BY <3>1
    <3>4. \A k \in low..i : s[k] = IF k = i THEN list_del(l, block)
                                   ELSE list_add(s[k + 1], FreeList(k), block + Size[k])
      <4> TAKE k \in low..i
      <4>1. CASE k = low
        BY <3>3, <4>1
      <4>2. CASE k # low
        <5>1. s[k] = r[k] /\ k \in i - n..i
          BY <3>1, <4>2
        <5>2. r[k] = IF k = i THEN list_del(l, block)
                     ELSE list_add(r[k + 1], FreeList(k), block + Size[k])
          BY <2>1, <5>1 DEF Rest
        <5> QED
          BY <3>3, <5>1, <5>2
      <4> QED
        BY <4>1, <4>2
    <3> DEFINE t == [k \in low..i |-> IF k = i THEN list_del(l, block)
                                      ELSE list_add(s[k + 1], FreeList(k), block + Size[k])]
    <3>5. DOMAIN s = low..i /\ DOMAIN t = low..i /\ \A k \in low..i : s[k] = t[k]
      BY <3>4
    <3>6. s = t
      BY <3>5
    <3> QED
      BY <3>6 DEF Rest
  <2> QED
    BY <2>2
<1> HIDE DEF T
<1>3. T = Nat
  BY <1>1, <1>2, Induction DEF T
<1> QED
  BY <1>3 DEF T

LEMMA SplitDefined ==
  ASSUME NEW l, NEW block, NEW i \in Nat
  PROVE  \E r : Rest(l, block, i, r, i) /\ Split(l, block, i) = r[0]
<1> DEFINE r == CHOOSE f : f = [k \in 0..i |-> IF k = i THEN list_del(l, block)
                                ELSE list_add(f[k + 1], FreeList(k), block + Size[k])]
<1>1. Split(l, block, i) = r[0]
  BY Zenon DEF Split
<1>2. \E f : Rest(l, block, i, f, i)
  BY RestExists
<1>3. i - i = 0
  OBVIOUS
<1>4. \E f : f = [k \in 0..i |-> IF k = i THEN list_del(l, block)
                                 ELSE list_add(f[k + 1], FreeList(k), block + Size[k])]
  BY <1>2, <1>3 DEF Rest
<1>5. r = [k \in 0..i |-> IF k = i THEN list_del(l, block)
                          ELSE list_add(r[k + 1], FreeList(k), block + Size[k])]
  BY <1>4, Zenon
<1> HIDE DEF r
<1>6. Rest(l, block, i, r, i)
  BY <1>3, <1>5 DEF Rest
<1> QED
  BY <1>1, <1>6

LEMMA SplitBlock ==
  ASSUME NEW l, Sound(l), Free(l) \subseteq Pages, NEW i \in Orders, NEW block \in Blocks(l, i)
  PROVE  Sound(Split(l, block, i)) /\ Free(Split(l, block, i)) = Free(l) \ {block}
<1>1. i \in Nat /\ i < MAX_ORDER /\ block \in Pages /\ block \in Nat
  BY BlocksApart, BuddyAssumption DEF Orders, Pages
<1>2. PICK r : Rest(l, block, i, r, i) /\ Split(l, block, i) = r[0]
  BY <1>1, SplitDefined
<1> DEFINE Left(k) == /\ Sound(r[k])
                      /\ Free(r[k]) = Free(l) \ (block..block + Size[k] - 1)
                      /\ Size[k] <= Size[i]
           T == {n \in Nat : n <= i => Left(i - n)}
<1>3. Left(i)
  <2>1. r[i] = list_del(l, block)
    BY <1>1, <1>2 DEF Rest
  <2>2. Size[i] \in Nat
    BY <1>1, SizeIs
  <2> QED
    BY <2>1, <2>2, DelBlock DEF Extent
<1>4. ASSUME NEW k \in Nat, k < i, Left(k + 1)
      PROVE  Left(k)
  <2> DEFINE node == block + Size[k]
  <2>1. Size[k] \in Nat \ {0} /\ Size[k + 1] = 2 * Size[k] /\ Size[i] \in Nat
    BY <1>1, SizeIs
  <2>2. r[k] = list_add(r[k + 1], FreeList(k), node)
    BY <1>1, <1>2, <1>4 DEF Rest
  <2>3. k \in Orders
    BY <1>1, <1>4, BuddyAssumption DEF Orders
  <2>4. node \in Pages
    <3>1. node \in Extent(block, i)
      BY <1>1, <1>4, <2>1 DEF Extent
    <3> QED
      BY <3>1, InFree
  <2>5. k # 0 => node % 2 = 0
    <3> SUFFICES ASSUME k # 0 PROVE node % 2 = 0
      OBVIOUS
    <3>1. block % 2 = 0
      BY <1>1, <1>4 DEF Sound, Orders
    <3>2. Size[k] % 2 = 0
      BY SizeEven
    <3> QED
      BY <1>1, <2>1, <3>1, <3>2
  <2>6. Extent(node, k) \cap Free(r[k + 1]) = {}
    BY <1>1, <1>4, <2>1 DEF Extent
  <2>7. Sound(r[k]) /\ Free(r[k]) = Free(r[k + 1]) \cup Extent(node, k)
    BY <1>4, <2>2, <2>3, <2>4, <2>5, <2>6, AddBlock
  <2>8. Extent(node, k) \subseteq Free(l)
    <3>1. Extent(node, k) \subseteq Extent(block, i)
      BY <1>1, <1>4, <2>1 DEF Extent
    <3> QED
      BY <3>1, InFree
  <2>9. Free(r[k]) = Free(l) \ (block..block + Size[k] - 1)
    <3>1. Extent(node, k) = block + Size[k]..block + 2 * Size[k] - 1
      BY <1>1, <2>1 DEF Extent
    <3>2. Free(r[k + 1]) = Free(l) \ (block..block + 2 * Size[k] - 1)
      BY <1>4, <2>1
    <3>3. ASSUME NEW x
          PROVE  x \in block..block + 2 * Size[k] - 1 <=>
                    x \in block..block + Size[k] - 1 \/ x \in block + Size[k]..block + 2 * Size[k] - 1
      BY <1>1, <2>1
    <3>4. ASSUME NEW x \in block + Size[k]..block + 2 * Size[k] - 1
          PROVE  x \notin block..block + Size[k] - 1
      BY <1>1, <2>1
    <3> HIDE DEF Left, node
    <3> QED
      BY <2>7, <2>8, <3>1, <3>2, <3>3, <3>4
  <2> QED
    BY <1>4, <2>1, <2>7, <2>9
<1> HIDE DEF Left
<1>5. 0 \in T
  BY <1>1, <1>3
<1>6. ASSUME NEW n \in T
      PROVE  n + 1 \in T
  <2> SUFFICES ASSUME n + 1 <= i PROVE Left(i - (n + 1))
    OBVIOUS
  <2>1. i - (n + 1) \in Nat /\ i - (n + 1) < i /\ i - (n + 1) + 1 = i - n /\ Left(i - n)
    BY <1>1
  <2> QED
    BY <1>4, <2>1
<1> HIDE DEF T
<1>7. T = Nat
  BY <1>5, <1>6, Induction DEF T
<1>8. Left(0)
  <2>1. i \in T /\ i - i = 0
    BY <1>1, <1>7
  <2> QED
    BY <1>1, <2>1 DEF T
<1>9. block..block + Size[0] - 1 = {block}
  BY <1>1, SizeIs
<1> QED
  BY <1>2, <1>8, <1>9 DEF Left

-----------------------------------------------------------------------------
(***************************************************************************)
(* A page given back: with an odd start buddies at order 0 are an odd page *)
(* and the next, what is left of them is the odd one, and the buddy of     *)
(* that at order 1 is odd too, so it is on no list and the loop ends.      *)
(***************************************************************************)

Found(l, addr) == [links |-> l, addr |-> addr, found |-> TRUE]

Done(l, addr) == [links |-> l, addr |-> addr, found |-> FALSE]

(* Buddy, for a given start. *)
BuddyFrom(start, addr, i) ==
  IF ((addr - start) \div Size[i]) % 2 = 0 THEN addr + Size[i] ELSE addr - Size[i]

(* One turn of the loop of buddy_free, at order k. *)
Merge(start, s, k) ==
  LET buddy == BuddyFrom(start, s.addr, k)
      low == IF s.addr < buddy THEN s.addr ELSE buddy
  IN  IF s.found /\ buddy \in Blocks(s.links, k)
      THEN Found(list_add(list_del(s.links, buddy), FreeList(k), low), low)
      ELSE Done(s.links, s.addr)

Loop(start, l, addr, f, n) ==
  f = [i \in 0..n |-> IF i = 0 THEN Found(l, addr) ELSE Merge(start, f[i - 1], i - 1)]

LEMMA LoopExists ==
  ASSUME NEW start, NEW l, NEW addr
  PROVE  \A n \in Nat : \E f : Loop(start, l, addr, f, n)
<1> DEFINE T == {n \in Nat : \E f : Loop(start, l, addr, f, n)}
<1>1. 0 \in T
  <2>1. Loop(start, l, addr, [i \in 0..0 |-> Found(l, addr)], 0)
    BY DEF Loop
  <2> QED
    BY <2>1
<1>2. ASSUME NEW n \in T
      PROVE  n + 1 \in T
  <2>1. PICK f : Loop(start, l, addr, f, n)
    OBVIOUS
  <2> DEFINE g == [i \in 0..n + 1 |-> IF i <= n THEN f[i] ELSE Merge(start, f[n], n)]
  <2>2. ASSUME NEW i \in 0..n + 1
        PROVE  g[i] = IF i = 0 THEN Found(l, addr) ELSE Merge(start, g[i - 1], i - 1)
    <3>1. CASE i = n + 1
      <4>1. g[i] = Merge(start, f[n], n) /\ i - 1 = n /\ g[n] = f[n] /\ i # 0
        BY <3>1
      <4> QED
        BY <4>1
    <3>2. CASE i # n + 1
      <4>1. i \in 0..n /\ g[i] = f[i] /\ (i # 0 => g[i - 1] = f[i - 1])
        BY <3>2
      <4>2. f[i] = IF i = 0 THEN Found(l, addr) ELSE Merge(start, f[i - 1], i - 1)
        BY <2>1, <4>1 DEF Loop
      <4> QED
        BY <4>1, <4>2
    <3> QED
      BY <3>1, <3>2
  <2> DEFINE h == [i \in 0..n + 1 |-> IF i = 0 THEN Found(l, addr)
                                      ELSE Merge(start, g[i - 1], i - 1)]
  <2>3. DOMAIN g = 0..n + 1 /\ DOMAIN h = 0..n + 1 /\ \A i \in 0..n + 1 : g[i] = h[i]
    BY <2>2
  <2>4. g = h
    BY <2>3
  <2>5. Loop(start, l, addr, g, n + 1)
    BY <2>4 DEF Loop
  <2> QED
    BY <2>5
<1> HIDE DEF T
<1>3. T = Nat
  BY <1>1, <1>2, Induction DEF T
<1> QED
  BY <1>3 DEF T

LEMMA BuddyFreeDefined ==
  ASSUME NEW l, NEW addr
  PROVE  \E f : Loop(start_addr, l, addr, f, MAX_ORDER - 1) /\ buddy_free(l, addr) = f[MAX_ORDER - 1].links
<1> DEFINE f == CHOOSE g : g = [i \in 0..MAX_ORDER - 1 |->
                 IF i = 0 THEN Found(l, addr) ELSE Merge(start_addr, g[i - 1], i - 1)]
<1>1. buddy_free(l, addr) = f[MAX_ORDER - 1].links
  BY Zenon DEF buddy_free, Merge, Found, Done, Buddy, BuddyFrom
<1>2. MAX_ORDER - 1 \in Nat
  BY BuddyAssumption
<1>3. \E g : Loop(start_addr, l, addr, g, MAX_ORDER - 1)
  BY <1>2, LoopExists
<1>4. Loop(start_addr, l, addr, f, MAX_ORDER - 1)
  BY <1>3, Zenon DEF Loop
<1> HIDE DEF f
<1> QED
  BY <1>1, <1>4

LEMMA MergeFound ==
  ASSUME NEW start, NEW l, NEW addr, NEW k, NEW buddy, buddy = BuddyFrom(start, addr, k),
         buddy \in Blocks(l, k), NEW low, low = IF addr < buddy THEN addr ELSE buddy
  PROVE  Merge(start, Found(l, addr), k) = Found(list_add(list_del(l, buddy), FreeList(k), low), low)
<1> DEFINE s == Found(l, addr)
<1>1. s.links = l /\ s.addr = addr /\ s.found = TRUE
  BY DEF Found
<1> HIDE DEF s
<1> QED
  BY <1>1 DEF Merge, s

LEMMA MergeNotFound ==
  ASSUME NEW start, NEW l, NEW addr, NEW k, BuddyFrom(start, addr, k) \notin Blocks(l, k)
  PROVE  Merge(start, Found(l, addr), k) = Done(l, addr)
<1> DEFINE s == Found(l, addr)
<1>1. s.links = l /\ s.addr = addr
  BY DEF Found
<1> HIDE DEF s
<1>2. Merge(start, s, k) = Done(l, addr)
  BY <1>1 DEF Merge
<1> QED
  BY <1>2 DEF s

LEMMA MergeDone ==
  ASSUME NEW start, NEW l, NEW addr, NEW k
  PROVE  Merge(start, Done(l, addr), k) = Done(l, addr)
<1> DEFINE s == Done(l, addr)
<1>1. s.links = l /\ s.addr = addr /\ s.found = FALSE
  BY DEF Done
<1> HIDE DEF s
<1>2. Merge(start, s, k) = Done(l, addr)
  BY <1>1 DEF Merge
<1> QED
  BY <1>2 DEF s

(* Buddies, when the start is odd. *)
LEMMA BuddyIs ==
  ASSUME NEW start \in Nat, start % 2 = 1, NEW v \in Nat, v >= start
  PROVE  /\ BuddyFrom(start, v, 0) = IF v % 2 = 1 THEN v + 1 ELSE v - 1
         /\ v % 2 = 1 => BuddyFrom(start, v, 1) % 2 = 1
<1>1. Size[0] = 1 /\ Size[1] = 2
  <2>1. 0 + 1 = 1
    OBVIOUS
  <2> QED
    BY <2>1, SizeIs
<1>2. (v - start) \div 1 = v - start
  OBVIOUS
<1>3. (v - start) % 2 = 0 <=> v % 2 = 1
  OBVIOUS
<1>4. v % 2 = 1 => (v + 2) % 2 = 1 /\ (v - 2) % 2 = 1
  OBVIOUS
<1> QED
  BY <1>1, <1>2, <1>3, <1>4 DEF BuddyFrom

(* The first turn of the loop: v is lost, or takes its place beside or for its buddy. *)
LEMMA FirstTurn ==
  ASSUME NEW start \in Nat, start % 2 = 1, NEW l, Sound(l), Free(l) \subseteq Pages,
         NEW v \in Pages, v >= start, v \notin Free(l)
  PROVE  \E m, low :
           /\ \/ /\ Merge(start, Found(l, v), 0) = Found(m, low)
                 /\ BuddyFrom(start, low, 1) % 2 = 1
              \/ Merge(start, Found(l, v), 0) = Done(m, low)
           /\ Sound(m) /\ Free(m) \subseteq Free(l) \cup {v}
<1>1. PICK b : b = BuddyFrom(start, v, 0)
  OBVIOUS
<1>2. v \in Nat /\ 0 \in Orders /\ b = IF v % 2 = 1 THEN v + 1 ELSE v - 1
  BY <1>1, BuddyIs, BuddyAssumption DEF Pages, Orders
<1>3. CASE b \in Blocks(l, 0)
  <2>1. PICK low : low = IF v < b THEN v ELSE b
    OBVIOUS
  <2>2. PICK d : d = list_del(l, b)
    OBVIOUS
  <2>3. Sound(d) /\ Free(d) = Free(l) \ Extent(b, 0)
    BY <1>2, <1>3, <2>2, DelBlock
  <2>4. \A x \in Pages : Extent(x, 0) = {x}
    BY SizeIs DEF Extent, Pages
  <2>5. b \in Pages /\ b \in Free(l) /\ low \in Pages /\ (low = v \/ low = b)
    BY <1>2, <1>3, <2>1, BlocksApart
  <2>6. low \notin Free(d)
    BY <2>3, <2>4, <2>5
  <2>7. PICK m : m = list_add(d, FreeList(0), low)
    OBVIOUS
  <2>8. Sound(m) /\ Free(m) = Free(d) \cup Extent(low, 0)
    <3>1. Extent(low, 0) \cap Free(d) = {}
      BY <2>4, <2>5, <2>6
    <3> QED
      BY <1>2, <2>3, <2>5, <2>7, <3>1, AddBlock
  <2>9. Free(m) \subseteq Free(l) \cup {v}
    BY <2>3, <2>4, <2>5, <2>8
  <2>10. low % 2 = 1 /\ low >= start /\ low \in Nat
    BY <1>2, <2>1
  <2>11. BuddyFrom(start, low, 1) % 2 = 1
    BY <2>10, BuddyIs
  <2>12. Merge(start, Found(l, v), 0) = Found(m, low)
    BY <1>1, <1>3, <2>1, <2>2, <2>7, MergeFound
  <2> QED
    BY <2>8, <2>9, <2>11, <2>12
<1>4. CASE b \notin Blocks(l, 0)
  <2>1. Merge(start, Found(l, v), 0) = Done(l, v)
    BY <1>1, <1>4, MergeNotFound
  <2>2. Free(l) \subseteq Free(l) \cup {v}
    OBVIOUS
  <2> QED
    BY <2>1, <2>2
<1> QED
  BY <1>3, <1>4

LEMMA FreeBlock ==
  ASSUME start_addr \in Nat, start_addr % 2 = 1, NEW l, Sound(l), Free(l) \subseteq Pages,
         NEW v \in Pages, v >= start_addr, v \notin Free(l)
  PROVE  Sound(buddy_free(l, v)) /\ Free(buddy_free(l, v)) \subseteq Free(l) \cup {v}
<1>1. PICK start \in Nat : start = start_addr
  OBVIOUS
<1>2. PICK N \in Nat : N = MAX_ORDER - 1
  BY BuddyAssumption
<1>3. PICK f : Loop(start, l, v, f, N) /\ buddy_free(l, v) = f[N].links
  BY <1>1, <1>2, BuddyFreeDefined
<1>4. \A i \in 0..N : f[i] = IF i = 0 THEN Found(l, v) ELSE Merge(start, f[i - 1], i - 1)
  BY <1>3 DEF Loop
<1>5. f[0] = Found(l, v)
  BY <1>2, <1>4
<1>6. ASSUME NEW i \in Nat, i + 1 <= N
      PROVE  f[i + 1] = Merge(start, f[i], i)
  <2>1. i + 1 \in 0..N /\ i + 1 # 0 /\ i + 1 - 1 = i
    BY <1>2, <1>6
  <2>2. f[i + 1] = Merge(start, f[i + 1 - 1], i + 1 - 1)
    BY <1>4, <2>1
  <2> QED
    BY <2>1, <2>2
<1>7. CASE N = 0
  <2>1. buddy_free(l, v) = l
    BY <1>3, <1>5, <1>7 DEF Found
  <2> QED
    BY <2>1
<1>8. CASE N # 0
  <2>1. PICK m, low :
           /\ \/ /\ Merge(start, Found(l, v), 0) = Found(m, low)
                 /\ BuddyFrom(start, low, 1) % 2 = 1
              \/ Merge(start, Found(l, v), 0) = Done(m, low)
           /\ Sound(m) /\ Free(m) \subseteq Free(l) \cup {v}
    BY <1>1, FirstTurn
  <2>2. f[1] = Merge(start, Found(l, v), 0)
    <3>1. 0 + 1 = 1 /\ 0 + 1 <= N
      BY <1>8
    <3>2. f[0 + 1] = Merge(start, f[0], 0)
      BY <1>6, <3>1
    <3> QED
      BY <1>5, <3>1, <3>2
  <2>3. 2 <= N => f[2] = Done(m, low)
    <3> SUFFICES ASSUME 2 <= N PROVE f[2] = Done(m, low)
      OBVIOUS
    <3>1. f[2] = Merge(start, f[1], 1)
      <4>1. 1 + 1 = 2
        OBVIOUS
      <4>2. f[1 + 1] = Merge(start, f[1], 1)
        BY <1>6
      <4> QED
        BY <4>1, <4>2
    <3>2. CASE f[1] = Found(m, low) /\ BuddyFrom(start, low, 1) % 2 = 1
      <4>1. 1 \in Orders \ {0}
        BY <1>2, BuddyAssumption DEF Orders
      <4>2. \A b \in Blocks(m, 1) : b % 2 = 0
        BY <2>1, <4>1 DEF Sound
      <4>3. BuddyFrom(start, low, 1) \notin Blocks(m, 1)
        BY <3>2, <4>2
      <4> QED
        BY <3>1, <3>2, <4>3, MergeNotFound
    <3>3. CASE f[1] = Done(m, low)
      BY <3>1, <3>3, MergeDone
    <3> QED
      BY <2>1, <2>2, <3>2, <3>3
  <2> DEFINE T == {n \in Nat : n + 2 <= N => f[n + 2] = Done(m, low)}
  <2>4. 0 \in T
    <3>1. 0 + 2 = 2
      OBVIOUS
    <3> QED
      BY <2>3, <3>1
  <2>5. ASSUME NEW n \in T
        PROVE  n + 1 \in T
    <3> SUFFICES ASSUME n + 1 + 2 <= N PROVE f[n + 1 + 2] = Done(m, low)
      OBVIOUS
    <3>1. n + 1 + 2 = n + 2 + 1 /\ n + 2 \in Nat /\ n + 2 + 1 <= N /\ n + 2 <= N
      BY <1>2
    <3>2. f[n + 2 + 1] = Merge(start, f[n + 2], n + 2)
      BY <1>6, <3>1
    <3>3. f[n + 2] = Done(m, low)
      BY <3>1
    <3> QED
      BY <3>1, <3>2, <3>3, MergeDone
  <2>6. T \in SUBSET Nat
    OBVIOUS
  <2> HIDE DEF T
  <2>7. T = Nat
    BY <2>4, <2>5, <2>6, Induction
  <2>8. f[N].links = m
    <3>1. CASE N = 1
      BY <2>1, <2>2, <3>1 DEF Found, Done
    <3>2. CASE N # 1
      <4>1. N - 2 \in Nat /\ N - 2 + 2 = N /\ N <= N
        BY <1>8, <3>2
      <4>2. N - 2 \in T
        BY <2>7, <4>1
      <4>3. f[N] = Done(m, low)
        BY <4>1, <4>2 DEF T
      <4> QED
        BY <4>3 DEF Done
    <3> QED
      BY <3>1, <3>2
  <2> QED
    BY <1>3, <2>1, <2>8
<1> QED
  BY <1>7, <1>8

-----------------------------------------------------------------------------
(***************************************************************************)
(* The first page behind the kernel is odd: it is 1 for a kernel of less   *)
(* than 2 MB.  With an even one the buddy at order 1 may be on a list, and *)
(* buddy_free then may put a block on two lists.                           *)
(***************************************************************************)
OddStart == \A s \in StartPages : s % 2 = 1

(* What is free or in use lies in the part that buddy_init has reached. *)
PagesInv ==
  /\ FreePages \subseteq start_addr..current - 1
  /\ used \subseteq start_addr..current - 1
  /\ current # EndPage => FreePages = start_addr..current - 1 /\ used = {}

(* No page is free and in use, or being cleared by two cores. *)
UsedInv ==
  /\ used \cap FreePages = {}
  /\ \A c \in Core : page[c] # NULL => page[c] \in used
  /\ \A c, d \in Core : page[c] = page[d] /\ page[c] # NULL => c = d

IInv == TypeOK /\ Sound(links) /\ PagesInv /\ UsedInv

(* The step that FreePagesExact allows. *)
ExactStep ==
  /\ used' \ used # {} => /\ FreePages' = FreePages \ (used' \ used)
                          /\ used' \ used \subseteq FreePages
  /\ current' # current => FreePages' = start_addr .. current' - 1

(* What every step starts from. *)
LEMMA Facts ==
  ASSUME OddStart, IInv
  PROVE  /\ start_addr \in Nat \ {0} /\ start_addr % 2 = 1 /\ EndPage \in Nat
         /\ current \in Nat /\ start_addr <= current /\ current <= EndPage
         /\ FreePages = Free(links) /\ Free(links) \subseteq start_addr..current - 1
         /\ Free(links) \subseteq Pages /\ used \subseteq Pages
         /\ start_addr \in StartPages
<1>1. start_addr \in StartPages /\ start_addr \in 1..EndPage - 1 /\ EndPage \in Nat
  BY BuddyAssumption DEF IInv, TypeOK
<1>2. current \in start_addr..EndPage
  BY DEF IInv, TypeOK
<1>3. FreePages = Free(links)
  BY DEF FreePages
<1>4. Free(links) \subseteq start_addr..current - 1 /\ used \subseteq start_addr..current - 1
  BY <1>3 DEF IInv, PagesInv
<1>5. start_addr..current - 1 \subseteq Pages
  BY <1>1, <1>2 DEF Pages
<1> QED
  BY <1>1, <1>2, <1>3, <1>4, <1>5 DEF OddStart

LEMMA InvInit ==
  ASSUME OddStart, Init
  PROVE  IInv
<1>1. start_addr \in 1..EndPage - 1 /\ start_addr \in StartPages /\ EndPage \in Nat
  BY BuddyAssumption DEF Init
<1>2. /\ links.next = [n \in Nodes |-> IF n \in FreeLists THEN n ELSE NULL]
      /\ links.prev = [n \in Nodes |-> IF n \in FreeLists THEN n ELSE NULL]
  BY DEF Init, Nodes
<1>3. Typed(links)
  BY <1>2 DEF Typed, Nodes
<1>4. TypeOK
  BY <1>1, <1>3 DEF Init, TypeOK, Typed, Nodes
<1>5. ASSUME NEW i \in Orders
      PROVE  Linked(links, i, {})
  <2>1. FreeList(i) \in FreeLists /\ FreeList(i) \in Nodes
    BY HeadsAndPages DEF Nodes
  <2>2. links.next[FreeList(i)] = FreeList(i) /\ links.prev[FreeList(i)] = FreeList(i)
    BY <1>2, <2>1
  <2>3. Ring(i, {}) = {FreeList(i)}
    BY DEF Ring
  <2> QED
    BY <2>2, <2>3 DEF Linked, Closed
<1>6. \A i \in Orders : Blocks(links, i) = {}
  BY <1>5, WalkFindsBlocks
<1>7. Sound(links)
  BY <1>3, <1>5, <1>6 DEF Sound
<1>8. FreePages = {}
  BY <1>6, InFree DEF FreePages
<1>9. PagesInv
  BY <1>1, <1>8 DEF Init, PagesInv
<1>10. UsedInv
  BY DEF Init, UsedInv
<1> QED
  BY <1>4, <1>7, <1>9, <1>10 DEF IInv

LEMMA TypedLinks ==
  ASSUME Sound(links')
  PROVE  /\ links'.next \in [Pages \cup FreeLists -> Pages \cup FreeLists \cup {NULL}]
         /\ links'.prev \in [Pages \cup FreeLists -> Pages \cup FreeLists \cup {NULL}]
BY DEF Sound, Typed, Nodes

(* buddy_init: the next block lies behind all others. *)
LEMMA BuddyInitStep ==
  ASSUME OddStart, IInv, BuddyInit
  PROVE  IInv' /\ ExactStep
<1>1. /\ start_addr \in Nat \ {0} /\ EndPage \in Nat /\ current \in Nat /\ start_addr <= current
      /\ Free(links) \subseteq start_addr..current - 1 /\ FreePages = Free(links)
  BY Facts
<1>2. PICK i \in Orders : /\ Fits(i) /\ links' = list_add(links, FreeList(i), current)
                          /\ current' = current + Size[i]
  BY DEF BuddyInit
<1>3. current < EndPage /\ start_addr' = start_addr /\ used' = used /\ page' = page
  BY DEF BuddyInit
<1>4. i \in Nat /\ Size[i] \in Nat \ {0}
  BY SizeIs, BuddyAssumption DEF Orders
<1>5. current + Size[i] <= EndPage
  BY <1>1, <1>2, <1>4 DEF Fits
<1>6. FreePages = start_addr..current - 1 /\ used = {}
  BY <1>1, <1>3 DEF IInv, PagesInv
<1>7. current \in Pages
  BY <1>1, <1>3 DEF Pages
<1>8. i # 0 => current % 2 = 0
  <2> SUFFICES ASSUME i # 0 PROVE current % 2 = 0
    OBVIOUS
  <2>1. current % Size[i] = 0
    BY <1>2 DEF Fits
  <2> QED
    BY <1>1, <1>4, <2>1, AlignedIsEven
<1>9. Extent(current, i) \cap Free(links) = {}
  BY <1>1, <1>4 DEF Extent
<1>10. Sound(links') /\ Free(links') = Free(links) \cup Extent(current, i)
  BY <1>2, <1>7, <1>8, <1>9, AddBlock DEF IInv
<1>11. Free(links') = start_addr..current' - 1
  <2>1. ASSUME NEW x
        PROVE  x \in start_addr..current - 1 \/ x \in Extent(current, i) <=>
                  x \in start_addr..current + Size[i] - 1
    BY <1>1, <1>4 DEF Extent
  <2>2. Free(links') = (start_addr..current - 1) \cup Extent(current, i)
    BY <1>1, <1>6, <1>10
  <2>3. Free(links') = start_addr..current + Size[i] - 1
    BY <2>1, <2>2
  <2>4. current' = current + Size[i]
    BY <1>2
  <2> QED
    BY <1>1, <1>4, <2>3, <2>4
<1>12. TypeOK'
  <2>1. current' \in start_addr'..EndPage
    BY <1>1, <1>2, <1>3, <1>4, <1>5
  <2>2. start_addr' \in StartPages /\ used' \subseteq Pages /\ page' \in [Core -> Pages \cup {NULL}]
    BY <1>3 DEF IInv, TypeOK
  <2> QED
    BY <1>10, <2>1, <2>2, TypedLinks DEF TypeOK
<1>13. PagesInv'
  BY <1>3, <1>6, <1>11 DEF PagesInv, FreePages
<1>14. UsedInv'
  BY <1>3, <1>6 DEF IInv, UsedInv
<1>15. IInv'
  BY <1>10, <1>12, <1>13, <1>14 DEF IInv
<1>16. ExactStep
  BY <1>3, <1>11 DEF ExactStep, FreePages
<1> QED
  BY <1>15, <1>16

(* kalloc: the block found is in free memory, and one page of it leaves. *)
LEMMA KallocStep ==
  ASSUME OddStart, IInv, NEW c \in Core, Kalloc(c)
  PROVE  IInv' /\ ExactStep
<1>1. /\ start_addr \in Nat \ {0} /\ EndPage \in Nat /\ current \in Nat
      /\ FreePages = Free(links) /\ Free(links) \subseteq start_addr..current - 1
      /\ Free(links) \subseteq Pages /\ used \subseteq Pages
  BY Facts
<1>2. PICK i \in Orders :
         /\ ~list_empty(links, i) /\ links' = Split(links, links.next[FreeList(i)], i)
         /\ used' = used \cup {links.next[FreeList(i)]}
         /\ page' = [page EXCEPT ![c] = links.next[FreeList(i)]]
  BY DEF Kalloc
<1>3. current = EndPage /\ current' = current /\ start_addr' = start_addr
  BY DEF Kalloc
<1>4. PICK block : block = links.next[FreeList(i)]
  OBVIOUS
<1>5. block \in Blocks(links, i)
  <2>1. FreeList(i) \in Ring(i, Blocks(links, i)) /\ Linked(links, i, Blocks(links, i))
    BY DEF Ring, IInv, Sound
  <2>2. block \in Ring(i, Blocks(links, i)) /\ block # FreeList(i)
    BY <1>2, <1>4, <2>1 DEF Linked, list_empty
  <2> QED
    BY <2>2 DEF Ring
<1>6. block \in Pages /\ block \in Free(links) /\ block # NULL
  BY <1>5, BlocksApart, HeadsAndPages DEF IInv
<1>7. Sound(links') /\ Free(links') = Free(links) \ {block}
  BY <1>1, <1>2, <1>4, <1>5, SplitBlock DEF IInv
<1>8. page \in [Core -> Pages \cup {NULL}] /\ page' = [page EXCEPT ![c] = block] /\ used' = used \cup {block}
  BY <1>2, <1>4 DEF IInv, TypeOK
<1>9. TypeOK'
  <2>1. start_addr' \in StartPages /\ current' \in start_addr'..EndPage /\ used' \subseteq Pages
    BY <1>1, <1>3, <1>6, <1>8 DEF IInv, TypeOK
  <2>2. page' \in [Core -> Pages \cup {NULL}]
    BY <1>6, <1>8
  <2> QED
    BY <1>7, <2>1, <2>2, TypedLinks DEF TypeOK
<1>10. PagesInv'
  BY <1>1, <1>3, <1>6, <1>7, <1>8 DEF IInv, PagesInv, FreePages
<1>11. block \notin used
  BY <1>1, <1>6 DEF IInv, UsedInv
<1>12. UsedInv'
  <2>1. used' \cap FreePages' = {}
    BY <1>1, <1>7, <1>8 DEF IInv, UsedInv, FreePages
  <2>2. \A d \in Core : page'[d] = IF d = c THEN block ELSE page[d]
    BY <1>8
  <2>3. \A d \in Core : page[d] # block
    BY <1>6, <1>11 DEF IInv, UsedInv
  <2>4. \A d \in Core : page'[d] # NULL => page'[d] \in used'
    BY <1>8, <2>2 DEF IInv, UsedInv
  <2>5. \A d, e \in Core : page'[d] = page'[e] /\ page'[d] # NULL => d = e
    BY <2>2, <2>3 DEF IInv, UsedInv
  <2> QED
    BY <2>1, <2>4, <2>5 DEF UsedInv
<1>13. IInv'
  BY <1>7, <1>9, <1>10, <1>12 DEF IInv
<1>14. ExactStep
  <2>1. used' \ used = {block}
    BY <1>8, <1>11
  <2> QED
    BY <1>1, <1>3, <1>6, <1>7, <2>1 DEF ExactStep, FreePages
<1> QED
  BY <1>13, <1>14

(* The memset behind the unlock: the page is on no list. *)
LEMMA MemsetStep ==
  ASSUME OddStart, IInv, NEW c \in Core, Memset(c)
  PROVE  IInv' /\ ExactStep
<1>1. FreePages = Free(links) /\ used \subseteq Pages
  BY Facts
<1>2. PICK x : x = page[c]
  OBVIOUS
<1>3. /\ links'.next = [links.next EXCEPT ![x] = NULL] /\ links'.prev = [links.prev EXCEPT ![x] = NULL]
      /\ page' = [page EXCEPT ![c] = NULL]
      /\ start_addr' = start_addr /\ current' = current /\ used' = used
  BY <1>2 DEF Memset
<1>4. x \in used /\ x \in Pages /\ x \notin Free(links)
  BY <1>1, <1>2 DEF Memset, IInv, UsedInv
<1>5. Typed(links) /\ x \in Nodes
  BY <1>4 DEF IInv, Sound, Nodes
<1>6. /\ Typed(links')
      /\ \A y \in Nodes : y # x => links'.next[y] = links.next[y] /\ links'.prev[y] = links.prev[y]
  BY <1>3, <1>5 DEF Typed
<1>7. ASSUME NEW i \in Orders
      PROVE  Linked(links', i, Blocks(links, i))
  <2>1. Blocks(links, i) \subseteq Free(links) /\ Blocks(links, i) \subseteq Pages
    BY BlocksApart DEF IInv
  <2>2. \A y \in Ring(i, Blocks(links, i)) : y \in Nodes /\ y # x
    BY <1>4, <2>1, HeadsAndPages DEF Ring, Nodes
  <2>3. Linked(links, i, Blocks(links, i))
    BY DEF IInv, Sound
  <2> QED
    BY <1>6, <2>2, <2>3, LinkedSame
<1>8. \A i \in Orders : Blocks(links', i) = Blocks(links, i)
  BY <1>7, WalkFindsBlocks
<1>9. Sound(links')
  BY <1>6, <1>7, <1>8 DEF IInv, Sound
<1>10. Free(links') = Free(links)
  BY <1>8, SameBlocks
<1>11. TypeOK'
  <2>1. start_addr' \in StartPages /\ current' \in start_addr'..EndPage /\ used' \subseteq Pages
        /\ page' \in [Core -> Pages \cup {NULL}]
    BY <1>3 DEF IInv, TypeOK
  <2> QED
    BY <1>9, <2>1, TypedLinks DEF TypeOK
<1>12. PagesInv'
  BY <1>3, <1>10 DEF IInv, PagesInv, FreePages
<1>13. UsedInv'
  <2>1. \A d \in Core : page'[d] = IF d = c THEN NULL ELSE page[d]
    BY <1>3 DEF IInv, TypeOK
  <2>2. used' \cap FreePages' = {}
    BY <1>3, <1>10 DEF IInv, UsedInv, FreePages
  <2> QED
    BY <1>3, <2>1, <2>2 DEF IInv, UsedInv
<1>14. IInv'
  BY <1>9, <1>11, <1>12, <1>13 DEF IInv
<1>15. ExactStep
  BY <1>3 DEF ExactStep
<1> QED
  BY <1>14, <1>15

(* kfree: at most the page given back becomes free. *)
LEMMA KfreeStep ==
  ASSUME OddStart, IInv, NEW v \in Pages, Kfree(v)
  PROVE  IInv' /\ ExactStep
<1>1. /\ start_addr \in Nat /\ start_addr % 2 = 1 /\ current \in Nat
      /\ FreePages = Free(links) /\ Free(links) \subseteq Pages /\ used \subseteq Pages
  BY Facts
<1>2. /\ v \in used /\ \A c \in Core : page[c] # v
      /\ links' = buddy_free(links, v) /\ used' = used \ {v}
      /\ start_addr' = start_addr /\ current' = current /\ page' = page
  BY DEF Kfree
<1>3. v \notin Free(links) /\ v \in start_addr..current - 1 /\ v >= start_addr
  BY <1>1, <1>2 DEF IInv, PagesInv, UsedInv
<1>4. Sound(links') /\ Free(links') \subseteq Free(links) \cup {v}
  BY <1>1, <1>2, <1>3, FreeBlock DEF IInv
<1>5. TypeOK'
  <2>1. start_addr' \in StartPages /\ current' \in start_addr'..EndPage /\ used' \subseteq Pages
        /\ page' \in [Core -> Pages \cup {NULL}]
    BY <1>2 DEF IInv, TypeOK
  <2> QED
    BY <1>4, <2>1, TypedLinks DEF TypeOK
<1>6. PagesInv'
  BY <1>2, <1>3, <1>4 DEF IInv, PagesInv, FreePages
<1>7. UsedInv'
  BY <1>2, <1>4 DEF IInv, UsedInv, FreePages
<1>8. IInv'
  BY <1>4, <1>5, <1>6, <1>7 DEF IInv
<1>9. ExactStep
  BY <1>2 DEF ExactStep
<1> QED
  BY <1>8, <1>9

LEMMA InvStep ==
  ASSUME OddStart, IInv, [Next]_vars
  PROVE  IInv' /\ [ExactStep]_vars
<1>1. CASE UNCHANGED vars
  BY <1>1 DEF vars, IInv, TypeOK, PagesInv, UsedInv, FreePages
<1>2. CASE BuddyInit
  BY <1>2, BuddyInitStep
<1>3. CASE \E c \in Core : Kalloc(c) \/ KallocFails(c) \/ Memset(c)
  <2>1. PICK c \in Core : Kalloc(c) \/ KallocFails(c) \/ Memset(c)
    BY <1>3
  <2>2. CASE KallocFails(c)
    BY <1>1, <2>2 DEF KallocFails
  <2> QED
    BY <2>1, <2>2, KallocStep, MemsetStep
<1>4. CASE \E v \in Pages : Kfree(v)
  BY <1>4, KfreeStep
<1> QED
  BY <1>1, <1>2, <1>3, <1>4 DEF Next

LEMMA Invariance == OddStart => (Spec => []IInv)
<1> SUFFICES ASSUME OddStart PROVE Spec => []IInv
  OBVIOUS
<1>1. Init => IInv
  BY InvInit
<1>2. IInv /\ [Next]_vars => IInv'
  BY InvStep
<1> QED
  BY <1>1, <1>2, PTL DEF Spec
-----------------------------------------------------------------------------
(* The pointers of the lists lead to pages, to list heads or nowhere, and buddy_init ends at the end. *)
THEOREM PointersTyped == OddStart => (Spec => []TypeOK)
<1> SUFFICES ASSUME OddStart PROVE Spec => []TypeOK
  OBVIOUS
<1>1. IInv => TypeOK
  BY DEF IInv
<1> QED
  BY <1>1, Invariance, PTL

(***************************************************************************)
(* The free lists stay sound, whatever kalloc splits and kfree merges on   *)
(* any cores: prev and next are inverse along each, and no page is in two  *)
(* free blocks.                                                            *)
(***************************************************************************)
THEOREM ListsStaySound == OddStart => (Spec => []ListsSound)
<1> SUFFICES ASSUME OddStart PROVE Spec => []ListsSound
  OBVIOUS
<1>1. ASSUME IInv PROVE ListsSound
  <2>1. ASSUME NEW i \in Orders, NEW n \in Blocks(links, i) \cup {FreeList(i)}
        PROVE  links.prev[links.next[n]] = n
    <3>1. Linked(links, i, Blocks(links, i)) /\ n \in Ring(i, Blocks(links, i))
      BY <1>1 DEF IInv, Sound, Ring
    <3> QED
      BY <3>1 DEF Linked
  <2> QED
    BY <1>1, <2>1 DEF ListsSound, IInv, Sound
<1> QED
  BY <1>1, Invariance, PTL

(***************************************************************************)
(* kalloc hands out no page twice: a page in use is in no free block, so   *)
(* that the memset without the lock meets no list node, and no two cores   *)
(* clear the same page.                                                    *)
(***************************************************************************)
THEOREM PagesHandedOutOnce == OddStart => (Spec => []NoPageTwice)
<1> SUFFICES ASSUME OddStart PROVE Spec => []NoPageTwice
  OBVIOUS
<1>1. IInv => NoPageTwice
  BY DEF IInv, UsedInv, NoPageTwice
<1> QED
  BY <1>1, Invariance, PTL

(***************************************************************************)
(* kalloc takes exactly one page out of free memory, whatever block it     *)
(* splits, and buddy_init puts every page it has passed on the lists.      *)
(***************************************************************************)
THEOREM KallocTakesOne == OddStart => (Spec => FreePagesExact)
<1> SUFFICES ASSUME OddStart PROVE Spec => FreePagesExact
  OBVIOUS
<1>1. IInv /\ [Next]_vars => [ExactStep]_vars
  BY InvStep
<1>2. Spec => [][ExactStep]_vars
  BY <1>1, Invariance, PTL DEF Spec
<1> QED
  BY <1>2 DEF FreePagesExact, ExactStep
=============================================================================
