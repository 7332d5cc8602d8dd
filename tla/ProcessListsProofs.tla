------------------------ MODULE ProcessListsProofs ------------------------
(***************************************************************************)
(* The process lists of lib.c, for any number of cores, lists and          *)
(* processes: pointers, tails and locks implement queues.                  *)
(***************************************************************************)
EXTENDS MCRoutines, Sequences, FiniteSetTheorems, SequenceTheorems, TLAPS

-----------------------------------------------------------------------------
(* Numbers and sequences. *)

LEMMA Least ==
  ASSUME NEW T \in SUBSET Nat, T # {}
  PROVE  \E n \in T : \A m \in T : n <= m
<1> DEFINE Less == OpToRel(<, Nat)
<1>1. IsWellFoundedOn(Less, Nat)
  BY NatLessThanWellFounded
<1>2. \A m, n \in T : <<m, n>> \in Less <=> m < n
  BY DEF OpToRel
<1> HIDE DEF Less
<1>3. PICK n \in T : \A m \in T : ~ (<<m, n>> \in Less)
  BY <1>1, WFMin
<1>4. \A m \in T : ~ (m < n)
  BY <1>2, <1>3, Zenon
<1> QED
  BY <1>4

(* Induction over the natural numbers, for sets of them. *)
LEMMA Induction ==
  ASSUME NEW T \in SUBSET Nat, 0 \in T, \A n \in T : n + 1 \in T
  PROVE  T = Nat
<1> SUFFICES ASSUME T # Nat PROVE FALSE
  OBVIOUS
<1>1. Nat \ T # {}
  OBVIOUS
<1>2. PICK n \in Nat \ T : \A m \in Nat \ T : n <= m
  BY <1>1, Least
<1>3. n # 0
  BY <1>2
<1>4. n - 1 \in T
  BY <1>2, <1>3
<1> QED
  BY <1>2, <1>3, <1>4

LEMMA Cut ==
  ASSUME NEW s, NEW C, s \in Seq(C), NEW a \in Nat \ {0}, NEW b \in 0..Len(s), a <= b + 1
  PROVE  /\ SubSeq(s, a, b) \in Seq(C) /\ Len(SubSeq(s, a, b)) = b - a + 1
         /\ DOMAIN SubSeq(s, a, b) = 1..(b - a + 1)
         /\ \A j \in 1..(b - a + 1) : SubSeq(s, a, b)[j] = s[a + j - 1]
OBVIOUS

LEMMA Joined ==
  ASSUME NEW C, NEW s \in Seq(C), NEW t \in Seq(C)
  PROVE  /\ s \o t \in Seq(C) /\ Len(s \o t) = Len(s) + Len(t)
         /\ \A j \in 1..Len(s) : (s \o t)[j] = s[j]
         /\ \A j \in Len(s) + 1..Len(s) + Len(t) : (s \o t)[j] = t[j - Len(s)]
<1>1. s \o t \in Seq(C) /\ Len(s \o t) = Len(s) + Len(t)
  OBVIOUS
<1>2. \A j \in 1..Len(s) : (s \o t)[j] = s[j]
  OBVIOUS
<1>3. \A j \in Len(s) + 1..Len(s) + Len(t) : (s \o t)[j] = t[j - Len(s)]
  OBVIOUS
<1> QED
  BY <1>1, <1>2, <1>3
-----------------------------------------------------------------------------
(* Process lists.  What a walk along the pointers meets. *)

LEMMA ListFacts ==
  /\ \A l \in Lists : l \notin Process /\ l # Nil
  /\ Nil \notin Process /\ Nil \notin Core /\ Pending \notin Process /\ Pending # Nil
BY ListsAssumption, Zenon

(* Place k of a list: its head, then its processes. *)
At(l, s, k) == IF k = 0 THEN l ELSE s[k]

(* The pointers nx lead from l through the processes of s, and no further. *)
Chained(nx, l, s) ==
  \A k \in 0..Len(s) : nx[At(l, s, k)] = IF k = Len(s) THEN Nil ELSE s[k + 1]

Once(s) == \A j, k \in 1..Len(s) : s[j] = s[k] => j = k

WalkTo(w, nx, l, n) ==
  w = [m \in 0..n |-> IF m = 0 THEN <<l>>
                      ELSE LET s == w[m - 1]
                               y == s[Len(s)]
                           IN IF y = Nil \/ nx[y] = Nil THEN s ELSE s \o <<nx[y]>>]

WalkOf(nx, l) == LET N0 == Cardinality(Process) IN Tail((CHOOSE w : WalkTo(w, nx, l, N0))[N0])

LEMMA FromIsWalk ==
  ASSUME NEW l
  PROVE  L!From(l) = WalkOf(next, l) /\ L!From(l)' = WalkOf(next', l)
<1>1. L!Cardinality(Process) = Cardinality(Process)
  BY DEF L!Cardinality, Cardinality
<1>2. L!From(l) = WalkOf(next, l)
  BY <1>1, Zenon DEF L!From, WalkOf, WalkTo
<1>3. L!From(l)' = WalkOf(next', l)
  BY <1>1, Zenon DEF L!From, WalkOf, WalkTo
<1> QED
  BY <1>2, <1>3

Upto(n, s) == IF n <= Len(s) THEN n ELSE Len(s)

(* What the walk has after n steps: the head and the first n processes. *)
Seen(l, s, n) == [j \in 1..Upto(n, s) + 1 |-> At(l, s, j - 1)]

LEMMA SeenIs ==
  ASSUME NEW l \in Lists, NEW s \in Seq(Process), NEW n \in Nat
  PROVE  /\ Upto(n, s) \in Nat /\ Upto(n, s) <= Len(s)
         /\ Len(Seen(l, s, n)) = Upto(n, s) + 1
         /\ Seen(l, s, n) \in Seq(Lists \cup Process)
         /\ Seen(l, s, n)[Len(Seen(l, s, n))] = At(l, s, Upto(n, s))
<1>1. Upto(n, s) \in Nat /\ Upto(n, s) <= Len(s)
  BY DEF Upto
<1>2. \A k \in 0..Len(s) : At(l, s, k) \in Lists \cup Process
  BY DEF At
<1>3. Len(Seen(l, s, n)) = Upto(n, s) + 1
  BY <1>1 DEF Seen
<1>4. Seen(l, s, n) \in Seq(Lists \cup Process)
  BY <1>1, <1>2 DEF Seen
<1>5. Seen(l, s, n)[Upto(n, s) + 1] = At(l, s, Upto(n, s))
  BY <1>1 DEF Seen
<1> QED
  BY <1>1, <1>3, <1>4, <1>5

LEMMA SeenStep ==
  ASSUME NEW nx, NEW l \in Lists, NEW s \in Seq(Process), Chained(nx, l, s), NEW n \in Nat
  PROVE  LET t == Seen(l, s, n)
             y == t[Len(t)]
         IN (IF y = Nil \/ nx[y] = Nil THEN t ELSE t \o <<nx[y]>>) = Seen(l, s, n + 1)
<1> DEFINE k == Upto(n, s)
           t == Seen(l, s, n)
           y == At(l, s, k)
<1>1. k \in Nat /\ k <= Len(s) /\ Len(t) = k + 1 /\ t[Len(t)] = y
  BY SeenIs
<1>2. y # Nil
  BY <1>1, ListFacts DEF At
<1>3. nx[y] = IF k = Len(s) THEN Nil ELSE s[k + 1]
  BY <1>1 DEF Chained
<1>4. CASE k = Len(s)
  <2>1. Upto(n + 1, s) = Len(s)
    BY <1>4 DEF Upto
  <2>2. Seen(l, s, n + 1) = t
    BY <1>4, <2>1 DEF Seen
  <2>3. nx[y] = Nil
    BY <1>3, <1>4
  <2> HIDE DEF k, t, y
  <2>4. (IF t[Len(t)] = Nil \/ nx[t[Len(t)]] = Nil THEN t ELSE t \o <<nx[t[Len(t)]]>>) = t
    BY <1>1, <2>3
  <2> QED
    BY <2>2, <2>4 DEF t
<1>5. CASE k # Len(s)
  <2>1. k = n /\ n < Len(s) /\ Upto(n + 1, s) = n + 1
    BY <1>1, <1>5 DEF Upto
  <2>2. nx[y] = s[n + 1] /\ s[n + 1] # Nil /\ s[n + 1] \in Process
    BY <1>3, <1>5, <2>1, ListFacts
  <2>3. t = [j \in 1..n + 1 |-> At(l, s, j - 1)]
    BY <2>1 DEF Seen
  <2>4. Seen(l, s, n + 1) = [j \in 1..n + 2 |-> At(l, s, j - 1)]
    BY <2>1 DEF Seen
  <2>5. At(l, s, n + 1) = s[n + 1]
    BY DEF At
  <2>6. t \o <<s[n + 1]>> = Seen(l, s, n + 1)
    <3>1. t \in Seq(Lists \cup Process) /\ Len(t) = n + 1
      BY <1>1, <2>1, SeenIs
    <3>2. t \o <<s[n + 1]>> = [j \in 1..n + 2 |-> IF j <= n + 1 THEN t[j] ELSE s[n + 1]]
      <4> HIDE DEF t
      <4> QED
        BY <3>1
    <3>3. \A j \in 1..n + 2 : (IF j <= n + 1 THEN t[j] ELSE s[n + 1]) = At(l, s, j - 1)
      <4> TAKE j \in 1..n + 2
      <4>1. CASE j <= n + 1
        BY <2>3, <4>1
      <4>2. CASE j = n + 2
        <5>1. j - 1 = n + 1 /\ ~(j <= n + 1)
          BY <4>2
        <5> QED
          BY <2>5, <5>1
      <4> QED
        BY <4>1, <4>2
    <3> HIDE DEF t
    <3> QED
      BY <2>4, <3>2, <3>3
  <2> HIDE DEF k, t, y
  <2>7. (IF t[Len(t)] = Nil \/ nx[t[Len(t)]] = Nil THEN t ELSE t \o <<nx[t[Len(t)]]>>)
          = t \o <<s[n + 1]>>
    BY <1>1, <1>2, <2>2
  <2> QED
    BY <2>6, <2>7 DEF t
<1> QED
  BY <1>4, <1>5

LEMMA WalkIsSeen ==
  ASSUME NEW nx, NEW l \in Lists, NEW s \in Seq(Process), Chained(nx, l, s), NEW n \in Nat
  PROVE  /\ \E w : WalkTo(w, nx, l, n)
         /\ \A w : WalkTo(w, nx, l, n) => w[n] = Seen(l, s, n)
<1> DEFINE Grown(t) == LET y == t[Len(t)] IN IF y = Nil \/ nx[y] = Nil THEN t ELSE t \o <<nx[y]>>
<1>1. \A m \in Nat : Grown(Seen(l, s, m)) = Seen(l, s, m + 1)
  BY SeenStep
<1>2. Seen(l, s, 0) = <<l>>
  BY DEF Seen, Upto, At
<1>3. \A w : WalkTo(w, nx, l, n) <=> w = [m \in 0..n |-> IF m = 0 THEN <<l>> ELSE Grown(w[m - 1])]
  BY DEF WalkTo
<1> HIDE DEF Grown
<1>4. \E w : WalkTo(w, nx, l, n)
  <2> DEFINE w == [m \in 0..n |-> Seen(l, s, m)]
  <2>1. \A m \in 0..n : w[m] = IF m = 0 THEN <<l>> ELSE Grown(w[m - 1])
    <3> TAKE m \in 0..n
    <3>1. CASE m # 0
      <4>1. m - 1 \in Nat /\ m - 1 \in 0..n /\ (m - 1) + 1 = m
        BY <3>1
      <4> QED
        BY <1>1, <3>1, <4>1
    <3> QED
      BY <1>2, <3>1
  <2>2. w = [m \in 0..n |-> IF m = 0 THEN <<l>> ELSE Grown(w[m - 1])]
    <3> DEFINE v == [m \in 0..n |-> IF m = 0 THEN <<l>> ELSE Grown(w[m - 1])]
    <3>1. \A m \in 0..n : w[m] = v[m]
      BY <2>1
    <3>2. DOMAIN w = 0..n /\ DOMAIN v = 0..n
      OBVIOUS
    <3> QED
      BY <3>1, <3>2
  <2> HIDE DEF w
  <2> QED
    BY <1>3, <2>2
<1>5. ASSUME NEW w, WalkTo(w, nx, l, n)
      PROVE  w[n] = Seen(l, s, n)
  <2>1. \A m \in 0..n : w[m] = IF m = 0 THEN <<l>> ELSE Grown(w[m - 1])
    BY <1>3, <1>5
  <2> DEFINE T == {m \in Nat : m <= n => w[m] = Seen(l, s, m)}
  <2>2. 0 \in T
    BY <1>2, <2>1
  <2>3. ASSUME NEW m \in T
        PROVE  m + 1 \in T
    <3>1. CASE m + 1 <= n
      <4>1. m \in Nat /\ m + 1 \in 0..n /\ m + 1 # 0 /\ (m + 1) - 1 = m /\ w[m] = Seen(l, s, m)
        BY <3>1
      <4>2. w[m + 1] = Grown(w[m])
        BY <2>1, <4>1
      <4>3. w[m + 1] = Seen(l, s, m + 1)
        BY <1>1, <4>1, <4>2, Zenon
      <4> QED
        BY <4>1, <4>3
    <3> QED
      BY <3>1
  <2>4. T \in SUBSET Nat
    OBVIOUS
  <2> HIDE DEF T
  <2>5. T = Nat
    BY <2>2, <2>3, <2>4, Induction
  <2> QED
    BY <2>5 DEF T
<1> QED
  BY <1>4, <1>5

(* A walk of as many steps as there are processes meets the whole list. *)
LEMMA WalkMeetsAll ==
  ASSUME NEW nx, NEW l \in Lists, NEW s \in Seq(Process), Chained(nx, l, s), Once(s)
  PROVE  WalkOf(nx, l) = s
<1> DEFINE n == Cardinality(Process)
<1>1. IsFiniteSet(Process)
  BY ListsAssumption, Zenon
<1>2. n \in Nat
  BY <1>1, FS_CardinalityType
<1>3. Len(s) <= n
  <2>1. IsFiniteSet(1..Len(s)) /\ Cardinality(1..Len(s)) = Len(s)
    <3>1. Len(s) \in Nat
      OBVIOUS
    <3>2. IsFiniteSet(1..Len(s)) /\ Cardinality(1..Len(s)) = IF 1 > Len(s) THEN 0 ELSE Len(s) - 1 + 1
      BY <3>1, FS_Interval
    <3> QED
      BY <3>1, <3>2
  <2>2. s \in Injection(1..Len(s), Process)
    BY DEF Injection, Once, IsInjective
  <2>3. Cardinality(1..Len(s)) <= Cardinality(Process)
    BY <1>1, <2>1, <2>2, FS_Injection DEF ExistsInjection
  <2> QED
    BY <2>1, <2>3
<1>4. WalkTo(CHOOSE w : WalkTo(w, nx, l, n), nx, l, n)
  <2> HIDE DEF n
  <2> QED
    BY <1>2, WalkIsSeen
<1>5. (CHOOSE w : WalkTo(w, nx, l, n))[n] = Seen(l, s, n)
  <2> HIDE DEF n
  <2> QED
    BY <1>2, <1>4, WalkIsSeen
<1>6. Tail(Seen(l, s, n)) = s
  <2> HIDE DEF n
  <2>1. Upto(n, s) = Len(s)
    BY <1>2, <1>3 DEF Upto
  <2>2. Seen(l, s, n) = [j \in 1..Len(s) + 1 |-> At(l, s, j - 1)]
    BY <2>1 DEF Seen
  <2>3. PICK t : t = Seen(l, s, n)
    OBVIOUS
  <2>4. t \in Seq(Lists \cup Process) /\ Len(t) = Len(s) + 1
    BY <1>2, <2>1, <2>3, SeenIs
  <2>5. \A j \in 1..Len(s) : t[j + 1] = s[j]
    BY <2>2, <2>3 DEF At
  <2>6. PICK u : u = Tail(t)
    OBVIOUS
  <2>7. u \in Seq(Lists \cup Process) /\ Len(u) = Len(s) /\ \A j \in 1..Len(s) : u[j] = t[j + 1]
    <3>1. t # <<>> /\ Len(t) - 1 = Len(s)
      BY <2>4
    <3> QED
      BY <2>4, <2>6, <3>1, HeadTailProperties
  <2>8. u = s
    BY <2>5, <2>7
  <2> QED
    BY <2>3, <2>6, <2>8
<1> QED
  BY <1>5, <1>6 DEF WalkOf
-----------------------------------------------------------------------------
(* Linking and unlinking. *)

Elems(s) == {s[k] : k \in 1..Len(s)}

(* The sequence s without place k. *)
Without(s, k) == [j \in 1..Len(s) - 1 |-> IF j < k THEN s[j] ELSE s[j + 1]]

Pointers == [Lists \cup Process -> Process \cup {Nil}]

LEMMA PlacesDiffer ==
  ASSUME NEW l \in Lists, NEW s \in Seq(Process), Once(s)
  PROVE  /\ \A k \in 0..Len(s) : At(l, s, k) \in {l} \cup Elems(s) /\ At(l, s, k) \in Lists \cup Process
         /\ \A j, k \in 0..Len(s) : At(l, s, j) = At(l, s, k) => j = k
<1>1. \A k \in 1..Len(s) : s[k] \in Process /\ s[k] \in Elems(s)
  BY DEF Elems
<1>2. \A k \in 0..Len(s) : k = 0 \/ k \in 1..Len(s)
  OBVIOUS
<1>3. l \notin Process
  BY ListFacts
<1>4. \A k \in 1..Len(s) : k # 0
  OBVIOUS
<1>5. \A k \in 0..Len(s) : At(l, s, k) \in {l} \cup Elems(s) /\ At(l, s, k) \in Lists \cup Process
  BY <1>1, <1>2, Zenon DEF At
<1>6. ASSUME NEW j \in 0..Len(s), NEW k \in 0..Len(s), At(l, s, j) = At(l, s, k)
      PROVE  j = k
  <2>1. CASE j = 0 \/ k = 0
    BY <1>1, <1>2, <1>3, <1>6, <2>1, Zenon DEF At
  <2>2. CASE j # 0 /\ k # 0
    BY <1>2, <1>6, <2>2, Zenon DEF At, Once
  <2> QED
    BY <2>1, <2>2
<1> QED
  BY <1>5, <1>6

LEMMA ChainFrame ==
  ASSUME NEW nx, NEW ny, NEW l \in Lists, NEW s \in Seq(Process), Once(s), Chained(nx, l, s),
         \A x \in {l} \cup Elems(s) : ny[x] = nx[x]
  PROVE  Chained(ny, l, s)
BY PlacesDiffer DEF Chained

(* ny is nx once the last place of the list leads to p. *)
LinksLast(nx, ny, l, s, p) == ny = [nx EXCEPT ![At(l, s, Len(s))] = p]

LEMMA ChainAppend ==
  ASSUME NEW nx \in Pointers, NEW l \in Lists, NEW s \in Seq(Process), Once(s), Chained(nx, l, s),
         NEW p \in Process, p \notin Elems(s), nx[p] = Nil,
         NEW ny, LinksLast(nx, ny, l, s, p)
  PROVE  /\ Append(s, p) \in Seq(Process) /\ Chained(ny, l, Append(s, p)) /\ Once(Append(s, p))
         /\ Elems(Append(s, p)) = Elems(s) \cup {p}
<1> DEFINE t == Append(s, p)
           n == Len(s)
<1>1. n \in Nat /\ t \in Seq(Process) /\ Len(t) = n + 1 /\ (\A j \in 1..n : t[j] = s[j]) /\ t[n + 1] = p
  OBVIOUS
<1> HIDE DEF t
<1>2. /\ \A k \in 0..n : At(l, s, k) \in {l} \cup Elems(s) /\ At(l, s, k) \in Lists \cup Process
      /\ \A j, k \in 0..n : At(l, s, j) = At(l, s, k) => j = k
  BY PlacesDiffer
<1>3. \A k \in 0..n : nx[At(l, s, k)] = IF k = n THEN Nil ELSE s[k + 1]
  BY DEF Chained
<1>4. \A k \in 0..n : At(l, t, k) = At(l, s, k)
  BY <1>1 DEF At
<1>5. At(l, t, n + 1) = p
  BY <1>1 DEF At
<1>6. p \notin {l} \cup Elems(s)
  BY ListFacts
<1>7. \A s1 \in Elems(s) : \E j \in 1..n : s1 = s[j]
  BY DEF Elems
<1> HIDE DEF n
<1>8. Chained(ny, l, t)
  <2> SUFFICES ASSUME NEW k \in 0..n + 1
               PROVE  ny[At(l, t, k)] = IF k = n + 1 THEN Nil ELSE t[k + 1]
    BY <1>1 DEF Chained
  <2>1. CASE k = n + 1
    <3>1. At(l, s, n) # p /\ p \in Lists \cup Process /\ n \in 0..n
      BY <1>1, <1>2, <1>6
    <3>2. ny[p] = nx[p]
      BY <3>1 DEF Pointers, n, LinksLast
    <3> QED
      BY <1>5, <2>1, <3>2
  <2>2. CASE k = n
    <3>1. n \in 0..n /\ n + 1 # n
      BY <1>1
    <3>2. ny[At(l, s, n)] = p
      BY <1>2, <3>1 DEF Pointers, n, LinksLast
    <3> QED
      BY <1>1, <1>4, <2>2, <3>1, <3>2
  <2>3. CASE k \in 0..n - 1
    <3>1. k \in 0..n /\ n \in 0..n /\ k # n /\ k # n + 1 /\ k + 1 \in 1..n
      BY <1>1, <2>3
    <3>2. At(l, s, k) # At(l, s, n) /\ At(l, s, k) \in Lists \cup Process
      BY <1>2, <3>1
    <3>3. ny[At(l, s, k)] = nx[At(l, s, k)]
      BY <3>2 DEF Pointers, n, LinksLast
    <3> QED
      BY <1>1, <1>3, <1>4, <3>1, <3>3
  <2>4. k = n + 1 \/ k = n \/ k \in 0..n - 1
    BY <1>1
  <2> QED
    BY <2>1, <2>2, <2>3, <2>4
<1>9. Once(t)
  <2> SUFFICES ASSUME NEW j \in 1..n + 1, NEW k \in 1..n + 1, t[j] = t[k], j # k
               PROVE  FALSE
    BY <1>1 DEF Once
  <2>1. \A m \in 1..n : s[m] # p
    BY DEF Elems, n
  <2>2. j \in 1..n /\ k \in 1..n
    <3>1. (j \in 1..n \/ j = n + 1) /\ (k \in 1..n \/ k = n + 1)
      BY <1>1
    <3> QED
      BY <1>1, <2>1, <3>1
  <2> QED
    BY <1>1, <2>2 DEF Once, n
<1>10. Elems(t) = Elems(s) \cup {p}
  <2>1. \A j \in 1..n + 1 : j \in 1..n \/ j = n + 1
    BY <1>1
  <2>2. n + 1 \in 1..n + 1 /\ \A j \in 1..n : j \in 1..n + 1
    BY <1>1
  <2>3. Elems(s) = {s[j] : j \in 1..n}
    BY DEF Elems, n
  <2>4. Elems(t) = {t[j] : j \in 1..n + 1}
    BY <1>1 DEF Elems
  <2> QED
    BY <1>1, <2>1, <2>2, <2>3, <2>4
<1> QED
  BY <1>1, <1>8, <1>9, <1>10 DEF t

LEMMA WithoutIs ==
  ASSUME NEW s \in Seq(Process), NEW k \in 1..Len(s)
  PROVE  /\ Without(s, k) \in Seq(Process) /\ Len(Without(s, k)) = Len(s) - 1
         /\ Once(s) => Once(Without(s, k)) /\ Elems(Without(s, k)) = Elems(s) \ {s[k]}
<1> DEFINE n == Len(s)
           t == Without(s, k)
<1>1. n \in Nat /\ n - 1 \in Nat /\ k \in 1..n
  OBVIOUS
<1>2. t \in Seq(Process) /\ Len(t) = n - 1
  <2>1. \A j \in 1..n - 1 : (IF j < k THEN s[j] ELSE s[j + 1]) \in Process
    OBVIOUS
  <2> QED
    BY <1>1, <2>1 DEF Without
<1>3. \A j \in 1..n - 1 : t[j] = IF j < k THEN s[j] ELSE s[j + 1]
  BY DEF Without
<1> HIDE DEF t
<1>4. ASSUME Once(s)
      PROVE  Once(t) /\ Elems(t) = Elems(s) \ {s[k]}
  <2>1. \A j \in 1..n - 1 : \E m \in 1..n : m # k /\ t[j] = s[m] /\ (m = IF j < k THEN j ELSE j + 1)
    <3> TAKE j \in 1..n - 1
    <3>1. CASE j < k
      <4>1. j \in 1..n /\ j # k
        BY <1>1, <3>1
      <4> QED
        BY <1>3, <3>1, <4>1
    <3>2. CASE ~(j < k)
      <4>1. j + 1 \in 1..n /\ j + 1 # k
        BY <1>1, <3>2
      <4> QED
        BY <1>3, <3>2, <4>1
    <3> QED
      BY <3>1, <3>2
  <2>2. \A m \in 1..n : m # k => \E j \in 1..n - 1 : t[j] = s[m]
    <3> TAKE m \in 1..n
    <3>1. CASE m < k
      <4>1. m \in 1..n - 1
        BY <1>1, <3>1
      <4> QED
        BY <1>3, <3>1, <4>1
    <3>2. CASE m > k
      <4>1. m - 1 \in 1..n - 1 /\ ~(m - 1 < k) /\ (m - 1) + 1 = m
        BY <1>1, <3>2
      <4> QED
        BY <1>3, <4>1
    <3> QED
      BY <1>1, <3>1, <3>2
  <2>3. \A j, m \in 1..n : s[j] = s[m] => j = m
    BY <1>4 DEF Once
  <2>4. Once(t)
    <3> SUFFICES ASSUME NEW a \in 1..n - 1, NEW b \in 1..n - 1, t[a] = t[b]
                 PROVE  a = b
      BY <1>2 DEF Once
    <3>1. PICK x \in 1..n : x # k /\ t[a] = s[x] /\ (x = IF a < k THEN a ELSE a + 1)
      BY <2>1
    <3>2. PICK y \in 1..n : y # k /\ t[b] = s[y] /\ (y = IF b < k THEN b ELSE b + 1)
      BY <2>1
    <3>3. x = y
      BY <2>3, <3>1, <3>2
    <3> QED
      BY <1>1, <3>1, <3>2, <3>3
  <2>5. Elems(t) = {t[j] : j \in 1..n - 1} /\ Elems(s) = {s[m] : m \in 1..n}
    BY <1>2 DEF Elems
  <2>6. Elems(t) \subseteq Elems(s) \ {s[k]}
    BY <1>1, <2>1, <2>3, <2>5
  <2>7. Elems(s) \ {s[k]} \subseteq Elems(t)
    BY <2>2, <2>5
  <2> QED
    BY <2>4, <2>6, <2>7
<1> QED
  BY <1>2, <1>4 DEF t

LEMMA ChainRemove ==
  ASSUME NEW nx \in Pointers, NEW l \in Lists, NEW s \in Seq(Process), Once(s), Chained(nx, l, s),
         NEW k \in 1..Len(s), NEW ny, ny = [nx EXCEPT ![At(l, s, k - 1)] = nx[s[k]]]
  PROVE  Chained(ny, l, Without(s, k))
<1> DEFINE n == Len(s)
           t == Without(s, k)
<1>1. n \in Nat /\ n - 1 \in Nat /\ k \in 1..n /\ k - 1 \in 0..n
  OBVIOUS
<1>2. t \in Seq(Process) /\ Len(t) = n - 1
  BY WithoutIs
<1>3. \A j \in 1..n - 1 : t[j] = IF j < k THEN s[j] ELSE s[j + 1]
  BY DEF Without
<1>4. /\ \A j \in 0..n : At(l, s, j) \in Lists \cup Process
      /\ \A j, m \in 0..n : At(l, s, j) = At(l, s, m) => j = m
  BY PlacesDiffer
<1>5. \A j \in 0..n : nx[At(l, s, j)] = IF j = n THEN Nil ELSE s[j + 1]
  BY DEF Chained
<1> HIDE DEF t
<1>6. \A j \in 0..n - 1 : At(l, t, j) = IF j < k THEN At(l, s, j) ELSE At(l, s, j + 1)
  <2> TAKE j \in 0..n - 1
  <2>1. CASE j = 0
    BY <1>1, <2>1 DEF At
  <2>2. CASE j # 0
    <3>1. j \in 1..n - 1 /\ j + 1 # 0
      BY <1>1, <2>2
    <3> QED
      BY <1>3, <2>2, <3>1 DEF At
  <2> QED
    BY <2>1, <2>2
<1>7. ny[At(l, s, k - 1)] = nx[At(l, s, k)]
  <2>1. At(l, s, k) = s[k]
    BY DEF At
  <2> QED
    BY <1>1, <1>4, <2>1 DEF Pointers
<1>8. \A j \in 0..n : j # k - 1 => ny[At(l, s, j)] = nx[At(l, s, j)]
  <2> TAKE j \in 0..n
  <2>1. j # k - 1 => At(l, s, j) # At(l, s, k - 1)
    BY <1>1, <1>4
  <2> QED
    BY <1>4, <2>1 DEF Pointers
<1> HIDE DEF n
<1>9. ASSUME NEW j \in 0..n - 1
      PROVE  ny[At(l, t, j)] = IF j = n - 1 THEN Nil ELSE t[j + 1]
  <2>1. CASE j < k - 1
    <3>1. j \in 0..n /\ j # k - 1 /\ j < k /\ j + 1 < k /\ j # n - 1 /\ j # n /\ j + 1 \in 1..n - 1
      BY <1>1, <2>1
    <3> QED
      BY <1>3, <1>5, <1>6, <1>8, <3>1
  <2>2. CASE j = k - 1
    <3>1. j < k /\ ~(j + 1 < k) /\ k \in 0..n /\ (j = n - 1 <=> k = n) /\ j + 1 = k
      BY <1>1, <2>2
    <3>2. At(l, t, j) = At(l, s, k - 1)
      BY <1>6, <2>2, <3>1
    <3>3. ny[At(l, t, j)] = IF k = n THEN Nil ELSE s[k + 1]
      BY <1>5, <1>7, <3>1, <3>2
    <3>4. k # n => k \in 1..n - 1
      BY <1>1
    <3>5. k # n => t[j + 1] = s[k + 1]
      BY <1>3, <3>1, <3>4
    <3> QED
      BY <3>1, <3>3, <3>5
  <2>3. CASE j > k - 1
    <3>1. /\ ~(j < k) /\ j + 1 \in 0..n /\ j + 1 # k - 1 /\ (j = n - 1 <=> j + 1 = n)
          /\ (j # n - 1 => j + 1 \in 1..n - 1) /\ ~(j + 1 < k)
      BY <1>1, <2>3
    <3>2. At(l, t, j) = At(l, s, j + 1)
      BY <1>6, <3>1
    <3>3. ny[At(l, t, j)] = IF j + 1 = n THEN Nil ELSE s[(j + 1) + 1]
      BY <1>5, <1>8, <3>1, <3>2
    <3>4. j # n - 1 => t[j + 1] = s[(j + 1) + 1]
      BY <1>3, <3>1
    <3> QED
      BY <3>1, <3>3, <3>4
  <2> QED
    BY <1>1, <2>1, <2>2, <2>3
<1> QED
  BY <1>2, <1>9 DEF Chained, t
-----------------------------------------------------------------------------
(* The inductive invariant of the process lists. *)

Busy(c) == pc[c] \notin {"out", "held"}

Appending == {"append", "clear", "link"}

Removed == {"unlock2", "droptail", "unlock", "fixtail"}

(* The process that a call is about to append or has unlinked. *)
Hand(c) ==
  {p \in Process : (pc[c] \in Appending /\ p = node[c]) \/ (pc[c] \in Removed /\ p = item[c])}

(* Who may be in a call: the owner of process_lock, and cores in their start-up. *)
CallersInv ==
  /\ \A c \in Core : pc[c] = "held" => owner = c
  /\ \A c \in Core : owner = c => pc[c] # "out"
  /\ \A c \in Core : pc[c] # "out" => c \in started
  /\ \A c \in Core : Busy(c) /\ owner # c =>
        /\ list[c] = <<c, "ready">>
        /\ pc[c] \in Appending \cup {"settail", "unlock"}
  /\ \A c, d \in Core : Busy(c) /\ owner = c /\ list[c] = <<d, "ready">> =>
        d \in started /\ (Busy(d) => owner = d)

Chains(C) == \A l \in Lists : Chained(next, l, C[l]) /\ Once(C[l])

(* No process is on two lists, or on a list and in somebody's hands. *)
Apart(C) ==
  /\ \A l, m \in Lists : l # m => Elems(C[l]) \cap Elems(C[m]) = {}
  /\ \A l \in Lists : Elems(C[l]) \cap off = {}
  /\ \A l \in Lists, c \in Core : Elems(C[l]) \cap Hand(c) = {}
  /\ \A c \in Core : Hand(c) \cap off = {}
  /\ \A c, d \in Core : c # d => Hand(c) \cap Hand(d) = {}

LastOf(s, x) == s # <<>> => s[Len(s)] = x

(* What a core in a call knows of its list s. *)
AppendOK(c, s) ==
  /\ pc[c] \in Appending \cup {"settail"} => item[c] = Pending
  /\ pc[c] \in Appending => node[c] \in Process
  /\ pc[c] = "link" => next[node[c]] = Nil
  /\ pc[c] = "settail" => s # <<>> /\ s[Len(s)] = node[c]

RemoveOK(c, s) ==
  /\ pc[c] \in {"unlock2", "droptail"} => s = <<>>
  /\ pc[c] = "search" => \E k \in 0..Len(s) : /\ prev[c] = At(list[c], s, k)
                                               /\ \A j \in 1..k : wait[s[j]] # arg[c]
  /\ pc[c] = "fixtail" => /\ item[c] \in Process
                          /\ next[item[c]] = Nil => LastOf(s, prev[c])
                          /\ next[item[c]] # Nil => LastOf(s, tail[list[c]])

(* tail is the last process, except between the stores of two of the functions. *)
TailsInv(C) ==
  \A l \in Lists :
     (\A c \in Core : list[c] = l => pc[c] \notin {"settail", "fixtail"}) => LastOf(C[l], tail[l])

Linked(C) ==
  /\ Chains(C) /\ Apart(C) /\ TailsInv(C)
  /\ \A c \in Core : AppendOK(c, C[list[c]]) /\ RemoveOK(c, C[list[c]])

ListsInv == L!TypeOK /\ CallersInv /\ \E C \in [Lists -> Seq(Process)] : Linked(C)
-----------------------------------------------------------------------------
(* What a step of one core leaves to the others. *)

Only(c) ==
  \A d \in Core : d # c => /\ pc'[d] = pc[d] /\ list'[d] = list[d] /\ node'[d] = node[d]
                           /\ arg'[d] = arg[d] /\ item'[d] = item[d] /\ prev'[d] = prev[d]

LEMMA Exclusive ==
  ASSUME CallersInv, NEW c \in Core, NEW d \in Core, c # d, Busy(c), Busy(d)
  PROVE  list[c] # list[d]
<1>1. CASE owner = c
  <2>1. owner # d /\ list[d] = <<d, "ready">>
    BY <1>1 DEF CallersInv
  <2> QED
    BY <1>1, <2>1 DEF CallersInv
<1>2. CASE owner = d
  <2>1. owner # c /\ list[c] = <<c, "ready">>
    BY <1>2 DEF CallersInv
  <2> QED
    BY <1>2, <2>1 DEF CallersInv
<1>3. CASE owner # c /\ owner # d
  <2>1. list[c] = <<c, "ready">> /\ list[d] = <<d, "ready">>
    BY <1>3 DEF CallersInv
  <2> QED
    BY <2>1
<1> QED
  BY <1>1, <1>2, <1>3

LEMMA HandKept ==
  ASSUME NEW c \in Core, Only(c), NEW d \in Core, d # c
  PROVE  Hand(d)' = Hand(d)
BY DEF Only, Hand

LEMMA ApartStep ==
  ASSUME NEW C, NEW D, Apart(C), NEW c \in Core, NEW l \in Lists, Only(c),
         \A m \in Lists : m # l => D[m] = C[m],
         Elems(D[l]) \cup Hand(c)' \cup off' \subseteq Elems(C[l]) \cup Hand(c) \cup off,
         Elems(D[l]) \cap Hand(c)' = {}, Elems(D[l]) \cap off' = {}, Hand(c)' \cap off' = {}
  PROVE  Apart(D)'
<1>1. \A d \in Core : d # c => Hand(d)' = Hand(d)
  BY HandKept
<1> DEFINE E(m) == Elems(D[m])
           F(m) == Elems(C[m])
<1>2. \A m \in Lists : m # l => E(m) = F(m)
  OBVIOUS
<1>3. /\ \A m, k \in Lists : m # k => F(m) \cap F(k) = {}
      /\ \A m \in Lists : F(m) \cap off = {}
      /\ \A m \in Lists, d \in Core : F(m) \cap Hand(d) = {}
      /\ \A d \in Core : Hand(d) \cap off = {}
      /\ \A d, e \in Core : d # e => Hand(d) \cap Hand(e) = {}
  BY DEF Apart
<1>4. /\ E(l) \cup Hand(c)' \cup off' \subseteq F(l) \cup Hand(c) \cup off
      /\ E(l) \cap Hand(c)' = {} /\ E(l) \cap off' = {} /\ Hand(c)' \cap off' = {}
  OBVIOUS
<1> HIDE DEF E, F
<1>5. ASSUME NEW m \in Lists, NEW k \in Lists, m # k
      PROVE  E(m) \cap E(k) = {}
  <2>1. CASE m # l /\ k # l
    BY <1>2, <1>3, <1>5, <2>1
  <2>2. CASE m = l
    <3>1. E(k) = F(k) /\ F(k) \cap F(l) = {} /\ F(k) \cap Hand(c) = {} /\ F(k) \cap off = {}
      BY <1>2, <1>3, <1>5, <2>2
    <3> QED
      BY <1>4, <2>2, <3>1
  <2>3. CASE k = l
    <3>1. E(m) = F(m) /\ F(m) \cap F(l) = {} /\ F(m) \cap Hand(c) = {} /\ F(m) \cap off = {}
      BY <1>2, <1>3, <1>5, <2>3
    <3> QED
      BY <1>4, <2>3, <3>1
  <2> QED
    BY <2>1, <2>2, <2>3
<1>6. ASSUME NEW m \in Lists
      PROVE  E(m) \cap off' = {}
  <2>1. CASE m # l
    <3>1. E(m) = F(m) /\ F(m) \cap F(l) = {} /\ F(m) \cap Hand(c) = {} /\ F(m) \cap off = {}
      BY <1>2, <1>3, <2>1
    <3> QED
      BY <1>4, <3>1
  <2> QED
    BY <1>4, <2>1
<1>7. ASSUME NEW m \in Lists, NEW d \in Core
      PROVE  E(m) \cap Hand(d)' = {}
  <2>1. CASE m # l /\ d # c
    BY <1>1, <1>2, <1>3, <2>1
  <2>2. CASE m # l /\ d = c
    <3>1. E(m) = F(m) /\ F(m) \cap F(l) = {} /\ F(m) \cap Hand(c) = {} /\ F(m) \cap off = {}
      BY <1>2, <1>3, <2>2
    <3> QED
      BY <1>4, <2>2, <3>1
  <2>3. CASE m = l /\ d # c
    <3>1. Hand(d)' = Hand(d) /\ F(l) \cap Hand(d) = {} /\ Hand(c) \cap Hand(d) = {} /\ Hand(d) \cap off = {}
      BY <1>1, <1>3, <2>3
    <3> QED
      BY <1>4, <2>3, <3>1
  <2> QED
    BY <1>4, <2>1, <2>2, <2>3
<1>8. ASSUME NEW d \in Core
      PROVE  Hand(d)' \cap off' = {}
  <2>1. CASE d # c
    <3>1. Hand(d)' = Hand(d) /\ F(l) \cap Hand(d) = {} /\ Hand(c) \cap Hand(d) = {} /\ Hand(d) \cap off = {}
      BY <1>1, <1>3, <2>1
    <3> QED
      BY <1>4, <3>1
  <2> QED
    BY <1>4, <2>1
<1>9. ASSUME NEW d \in Core, NEW e \in Core, d # e
      PROVE  Hand(d)' \cap Hand(e)' = {}
  <2>1. CASE d # c /\ e # c
    BY <1>1, <1>3, <1>9, <2>1
  <2>2. CASE d = c
    <3>1. Hand(e)' = Hand(e) /\ F(l) \cap Hand(e) = {} /\ Hand(c) \cap Hand(e) = {} /\ Hand(e) \cap off = {}
      BY <1>1, <1>3, <1>9, <2>2
    <3> QED
      BY <1>4, <2>2, <3>1
  <2>3. CASE e = c
    <3>1. Hand(d)' = Hand(d) /\ F(l) \cap Hand(d) = {} /\ Hand(c) \cap Hand(d) = {} /\ Hand(d) \cap off = {}
      BY <1>1, <1>3, <1>9, <2>3
    <3> QED
      BY <1>4, <2>3, <3>1
  <2> QED
    BY <2>1, <2>2, <2>3
<1> QED
  BY <1>5, <1>6, <1>7, <1>8, <1>9 DEF Apart, E

(* Another core still knows of its list what it knew. *)
LEMMA OthersKept ==
  ASSUME NEW C \in [Lists -> Seq(Process)], NEW D, Linked(C), L!TypeOK,
         NEW c \in Core, Only(c), NEW d \in Core, d # c, Busy(d),
         D[list[d]] = C[list[d]], tail'[list[d]] = tail[list[d]],
         \A p \in Hand(d) : next'[p] = next[p],
         \A p \in Process : p \notin off => wait'[p] = wait[p]
  PROVE  AppendOK(d, D[list[d]])' /\ RemoveOK(d, D[list[d]])'
<1>1. /\ pc'[d] = pc[d] /\ list'[d] = list[d] /\ node'[d] = node[d]
      /\ arg'[d] = arg[d] /\ item'[d] = item[d] /\ prev'[d] = prev[d]
  BY DEF Only
<1>2. list[d] \in Lists /\ C[list[d]] \in Seq(Process)
  BY DEF L!TypeOK
<1>0. PICK s \in Seq(Process) : s = C[list[d]]
  BY <1>2
<1>3. AppendOK(d, s) /\ RemoveOK(d, s)
  BY <1>0 DEF Linked
<1>4. \A j \in 1..Len(s) : wait'[s[j]] = wait[s[j]]
  <2>1. \A j \in 1..Len(s) : s[j] \in Process /\ s[j] \in Elems(s)
    BY <1>2 DEF Elems
  <2>2. Elems(s) \cap off = {}
    BY <1>0, <1>2 DEF Linked, Apart
  <2> QED
    BY <2>1, <2>2
<1>5. D[list'[d]] = s /\ tail'[list'[d]] = tail[list[d]] /\ list'[d] = list[d]
  BY <1>0, <1>1
<1>6. s \in Seq(Process) /\ Len(s) \in Nat
  OBVIOUS
<1>7. AppendOK(d, s)'
  <2>1. pc[d] = "link" => node[d] \in Hand(d)
    BY <1>3 DEF AppendOK, Hand, Appending
  <2> QED
    BY <1>1, <1>3, <2>1 DEF AppendOK, Appending
<1>8. pc[d] \in {"unlock2", "droptail"} => s = <<>>
  BY <1>3 DEF RemoveOK
<1>9. pc[d] = "search" => \E k \in 0..Len(s) : /\ prev[d] = At(list[d], s, k)
                                                /\ \A j \in 1..k : wait'[s[j]] # arg[d]
  <2> SUFFICES ASSUME pc[d] = "search"
               PROVE  \E k \in 0..Len(s) : /\ prev[d] = At(list[d], s, k)
                                           /\ \A j \in 1..k : wait'[s[j]] # arg[d]
    OBVIOUS
  <2>1. PICK k \in 0..Len(s) : prev[d] = At(list[d], s, k) /\ \A j \in 1..k : wait[s[j]] # arg[d]
    BY <1>3 DEF RemoveOK
  <2>2. \A j \in 1..k : j \in 1..Len(s)
    BY <1>6
  <2>3. \A j \in 1..k : wait'[s[j]] # arg[d]
    BY <1>4, <2>1, <2>2
  <2> QED
    BY <2>1, <2>3
<1>10. pc[d] = "fixtail" => /\ item[d] \in Process
                            /\ next'[item[d]] = Nil => LastOf(s, prev[d])
                            /\ next'[item[d]] # Nil => LastOf(s, tail[list[d]])
  <2>1. pc[d] = "fixtail" => item[d] \in Hand(d)
    BY <1>3 DEF RemoveOK, Hand, Removed
  <2> QED
    BY <1>3, <2>1 DEF RemoveOK
<1>11. RemoveOK(d, s)'
  <2>1. (pc[d] = "search" => \E k \in 0..Len(s) : /\ prev[d] = At(list[d], s, k)
                                                   /\ \A j \in 1..k : wait[s[j]] # arg[d])'
    BY <1>1, <1>9
  <2>2. (pc[d] = "fixtail" => /\ item[d] \in Process
                              /\ next[item[d]] = Nil => LastOf(s, prev[d])
                              /\ next[item[d]] # Nil => LastOf(s, tail[list[d]]))'
    BY <1>1, <1>5, <1>10
  <2> QED
    BY <1>1, <1>8, <2>1, <2>2 DEF RemoveOK
<1> QED
  BY <1>5, <1>7, <1>11
(* A core in no call knows nothing of its list. *)
LEMMA OutOfCall ==
  ASSUME NEW d \in Core, ~ Busy(d)', NEW s
  PROVE  AppendOK(d, s)' /\ RemoveOK(d, s)'
BY DEF Busy, AppendOK, RemoveOK, Appending

(* A step of c that leaves the pointers as they are. *)
LEMMA QuietStep ==
  ASSUME NEW C \in [Lists -> Seq(Process)], Linked(C), L!TypeOK, NEW c \in Core, Only(c),
         next' = next, tail' = tail, \A p \in Process : p \notin off => wait'[p] = wait[p],
         pc[c] \notin {"settail", "fixtail"}, pc'[c] \notin {"settail", "fixtail"},
         Hand(c)' \cup off' \subseteq Hand(c) \cup off, Hand(c)' \cap off' = {},
         list'[c] \in Lists, AppendOK(c, C[list[c]])', RemoveOK(c, C[list[c]])'
  PROVE  Linked(C)'
<1>1. Chains(C)'
  BY DEF Linked, Chains
<1>2. Apart(C)'
  <2>1. PICK l \in Lists : l = list[c]
    BY DEF L!TypeOK
  <2>2. Elems(C[l]) \cap off = {} /\ Elems(C[l]) \cap Hand(c) = {} /\ Apart(C)
    BY DEF Linked, Apart
  <2>3. Elems(C[l]) \cap Hand(c)' = {} /\ Elems(C[l]) \cap off' = {}
    BY <2>2
  <2>4. Elems(C[l]) \cup Hand(c)' \cup off' \subseteq Elems(C[l]) \cup Hand(c) \cup off
    OBVIOUS
  <2> QED
    BY <2>2, <2>3, <2>4, ApartStep
<1>3. TailsInv(C)'
  <2> SUFFICES ASSUME NEW l \in Lists, \A d \in Core : list'[d] = l => pc'[d] \notin {"settail", "fixtail"}
               PROVE  LastOf(C[l], tail[l])
    BY DEF TailsInv, LastOf
  <2>1. \A d \in Core : list[d] = l => pc[d] \notin {"settail", "fixtail"}
    BY DEF Only
  <2> QED
    BY <2>1 DEF Linked, TailsInv
<1>4. ASSUME NEW d \in Core, d # c
      PROVE  AppendOK(d, C[list[d]])' /\ RemoveOK(d, C[list[d]])'
  <2>1. CASE Busy(d)
    BY <1>4, <2>1, OthersKept
  <2>2. CASE ~ Busy(d)
    <3>1. ~ Busy(d)'
      BY <1>4, <2>2 DEF Only, Busy
    <3>2. PICK s : s = C[list'[d]]
      OBVIOUS
    <3>3. AppendOK(d, s)' /\ RemoveOK(d, s)'
      BY <3>1, OutOfCall
    <3> QED
      BY <3>2, <3>3
  <2> QED
    BY <2>1, <2>2
<1> QED
  BY <1>1, <1>2, <1>3, <1>4 DEF Linked

(* A step of c in a call that changes its list or the tail of it. *)
LEMMA LinkStep ==
  ASSUME NEW C \in [Lists -> Seq(Process)], NEW D \in [Lists -> Seq(Process)],
         Linked(C), L!TypeOK, CallersInv, NEW c \in Core, Only(c), Busy(c),
         NEW l \in Lists, list[c] = l, list'[c] = l,
         \A m \in Lists : m # l => D[m] = C[m] /\ tail'[m] = tail[m],
         \A x \in Lists \cup Process : x \notin {l} \cup Elems(C[l]) \cup Hand(c) => next'[x] = next[x],
         wait' = wait,
         Chained(next', l, D[l]), Once(D[l]),
         Elems(D[l]) \cup Hand(c)' \cup off' \subseteq Elems(C[l]) \cup Hand(c) \cup off,
         Elems(D[l]) \cap Hand(c)' = {}, Elems(D[l]) \cap off' = {}, Hand(c)' \cap off' = {},
         pc'[c] \notin {"settail", "fixtail"} => LastOf(D[l], tail'[l]),
         AppendOK(c, D[list[c]])', RemoveOK(c, D[list[c]])'
  PROVE  Linked(D)'
<1>0. \A m \in Lists : C[m] \in Seq(Process) /\ D[m] \in Seq(Process)
  OBVIOUS
<1>a. Apart(C)
  BY DEF Linked
<1>1. Chains(D)'
  <2> SUFFICES ASSUME NEW m \in Lists PROVE Chained(next', m, D[m]) /\ Once(D[m])
    BY DEF Chains, Once
  <2>1. CASE m = l
    BY <2>1
  <2>2. CASE m # l
    <3>1. Elems(C[m]) \cap Elems(C[l]) = {} /\ Elems(C[m]) \cap Hand(c) = {}
      BY <1>a, <2>2 DEF Apart
    <3>2. Elems(C[m]) \subseteq Process /\ l \notin Process /\ m \notin Process
      BY <1>0, ListFacts DEF Elems
    <3>3. Hand(c) \subseteq Process /\ Elems(C[l]) \subseteq Process
      BY <1>0 DEF Hand, Elems
    <3>4. \A x \in {m} \cup Elems(C[m]) : next'[x] = next[x]
      BY <2>2, <3>1, <3>2, <3>3
    <3>5. Chained(next, m, C[m]) /\ Once(C[m])
      BY DEF Linked, Chains
    <3>6. PICK ny : ny = next'
      OBVIOUS
    <3>7. PICK nx : nx = next
      OBVIOUS
    <3>8. PICK s \in Seq(Process) : s = C[m]
      BY <1>0
    <3>9. Chained(nx, m, s) /\ Once(s) /\ \A x \in {m} \cup Elems(s) : ny[x] = nx[x]
      BY <3>4, <3>5, <3>6, <3>7, <3>8
    <3>10. Chained(ny, m, s)
      BY <3>9, ChainFrame
    <3> QED
      BY <2>2, <3>5, <3>6, <3>8, <3>10
  <2> QED
    BY <2>1, <2>2
<1>2. Apart(D)'
  BY <1>a, ApartStep
<1>3. TailsInv(D)'
  <2> SUFFICES ASSUME NEW m \in Lists, \A d \in Core : list'[d] = m => pc'[d] \notin {"settail", "fixtail"}
               PROVE  LastOf(D[m], tail'[m])
    BY DEF TailsInv, LastOf
  <2>1. CASE m = l
    BY <2>1
  <2>2. CASE m # l
    <3>1. \A d \in Core : list[d] = m => pc[d] \notin {"settail", "fixtail"}
      BY <2>2 DEF Only
    <3>2. LastOf(C[m], tail[m])
      BY <3>1 DEF Linked, TailsInv
    <3> QED
      BY <2>2, <3>2
  <2> QED
    BY <2>1, <2>2
<1>4. ASSUME NEW d \in Core, d # c
      PROVE  AppendOK(d, D[list[d]])' /\ RemoveOK(d, D[list[d]])'
  <2>1. CASE Busy(d)
    <3>1. list[d] # l /\ list[d] \in Lists
      BY <1>4, <2>1, Exclusive DEF L!TypeOK
    <3>2. D[list[d]] = C[list[d]] /\ tail'[list[d]] = tail[list[d]]
      BY <3>1
    <3>3. ASSUME NEW p \in Hand(d) PROVE next'[p] = next[p]
      <4>1. p \in Process /\ p # l
        BY <3>3, ListFacts DEF Hand
      <4>2. p \notin Elems(C[l]) /\ p \notin Hand(c)
        BY <1>4, <1>a, <3>3 DEF Apart
      <4> QED
        BY <4>1, <4>2
    <3> QED
      BY <1>4, <2>1, <3>2, <3>3, OthersKept
  <2>2. CASE ~ Busy(d)
    <3>1. ~ Busy(d)'
      BY <1>4, <2>2 DEF Only, Busy
    <3>2. PICK s : s = D[list'[d]]
      OBVIOUS
    <3>3. AppendOK(d, s)' /\ RemoveOK(d, s)'
      BY <3>1, OutOfCall
    <3> QED
      BY <3>2, <3>3
  <2> QED
    BY <2>1, <2>2
<1> QED
  BY <1>1, <1>2, <1>3, <1>4 DEF Linked
-----------------------------------------------------------------------------
(* Every step keeps who may be in a call. *)

LEMMA InCallStep ==
  ASSUME CallersInv, NEW c \in Core, Only(c), Busy(c), UNCHANGED <<owner, started, list>>,
         pc'[c] = "held" => owner = c, pc'[c] = "out" => owner # c,
         owner # c /\ Busy(c)' => pc'[c] \in Appending \cup {"settail", "unlock"}
  PROVE  CallersInv'
<1>1. /\ \A d \in Core : d # c => pc'[d] = pc[d]
      /\ owner' = owner /\ started' = started /\ list' = list
  BY DEF Only
<1>2. /\ \A d \in Core : pc[d] = "held" => owner = d
      /\ \A d \in Core : owner = d => pc[d] # "out"
      /\ \A d \in Core : pc[d] # "out" => d \in started
      /\ \A d \in Core : Busy(d) /\ owner # d =>
            list[d] = <<d, "ready">> /\ pc[d] \in Appending \cup {"settail", "unlock"}
      /\ \A d, e \in Core : Busy(d) /\ owner = d /\ list[d] = <<e, "ready">> =>
            e \in started /\ (Busy(e) => owner = e)
  BY DEF CallersInv
<1>3. \A d \in Core : pc'[d] = "held" => owner' = d
  BY <1>1, <1>2
<1>4. \A d \in Core : owner' = d => pc'[d] # "out"
  BY <1>1, <1>2
<1>5. \A d \in Core : pc'[d] # "out" => d \in started'
  BY <1>1, <1>2 DEF Busy
<1>6. \A d \in Core : Busy(d)' => Busy(d)
  BY <1>1 DEF Busy
<1>7. \A d \in Core : Busy(d)' /\ owner' # d =>
         list'[d] = <<d, "ready">> /\ pc'[d] \in Appending \cup {"settail", "unlock"}
  BY <1>1, <1>2, <1>6
<1>8. \A d, e \in Core : Busy(d)' /\ owner' = d /\ list'[d] = <<e, "ready">> =>
         e \in started' /\ (Busy(e)' => owner' = e)
  BY <1>1, <1>2, <1>6
<1> QED
  BY <1>3, <1>4, <1>5, <1>7, <1>8 DEF CallersInv, Appending

LEMMA CallSets ==
  ASSUME L!TypeOK, NEW c \in Core, NEW l \in Lists, NEW p \in Process \cup {Nil}, NEW w \in Event,
         L!Call(c, l, p, w)
  PROVE  /\ list'[c] = l /\ prev'[c] = l /\ node'[c] = p /\ arg'[c] = w /\ item'[c] = Pending
         /\ list' \in [Core -> Lists] /\ prev' \in [Core -> Lists \cup Process]
         /\ node' \in [Core -> Process \cup {Nil}] /\ arg' \in [Core -> Event]
         /\ item' \in [Core -> Process \cup {Nil, Pending}]
         /\ \A d \in Core : d # c => /\ list'[d] = list[d] /\ node'[d] = node[d] /\ arg'[d] = arg[d]
                                     /\ item'[d] = item[d] /\ prev'[d] = prev[d]
BY DEF L!Call, L!TypeOK

LEMMA GotoSets ==
  ASSUME L!TypeOK, NEW c \in Core, NEW from, NEW to \in L!Labels, L!Goto(c, from, to)
  PROVE  /\ pc[c] = from /\ pc'[c] = to /\ pc' \in [Core -> L!Labels]
         /\ \A d \in Core : d # c => pc'[d] = pc[d]
BY DEF L!Goto, L!TypeOK

LEMMA EventExists == L!NoEvent \in Event
BY ListsAssumption DEF L!NoEvent

LEMMA EnterKeeps ==
  ASSUME L!TypeOK, CallersInv, NEW c \in Core, L!Enter(c)
  PROVE  /\ L!TypeOK' /\ CallersInv' /\ Only(c)
         /\ pc[c] = "out" /\ pc'[c] = "held"
<1>1. pc[c] = "out" /\ pc'[c] = "held" /\ pc' \in [Core -> L!Labels] /\ \A d \in Core : d # c => pc'[d] = pc[d]
  <2>1. L!Goto(c, "out", "held") /\ "held" \in L!Labels
    BY DEF L!Enter, L!Labels
  <2> QED
    BY <2>1, GotoSets
<1>2. L!TypeOK'
  BY <1>1 DEF L!TypeOK, L!Enter, L!Locals
<1>3. Only(c)
  BY <1>1 DEF L!Enter, L!Locals, Only
<1>4. CallersInv'
  BY <1>1, ListFacts DEF CallersInv, L!Enter, L!Locals, Busy, Appending
<1> QED
  BY <1>1, <1>2, <1>3, <1>4

LEMMA LeaveKeeps ==
  ASSUME L!TypeOK, CallersInv, NEW c \in Core, L!Leave(c)
  PROVE  /\ L!TypeOK' /\ CallersInv' /\ Only(c)
         /\ pc[c] = "held" /\ pc'[c] = "out" /\ list'[c] = <<c, "ready">> /\ item'[c] = Pending
<1>0. <<c, "ready">> \in Lists
  BY DEF Lists
<1>1. pc[c] = "held" /\ pc'[c] = "out" /\ pc' \in [Core -> L!Labels] /\ \A d \in Core : d # c => pc'[d] = pc[d]
  <2>1. L!Goto(c, "held", "out") /\ "out" \in L!Labels
    BY DEF L!Leave, L!Labels
  <2> QED
    BY <2>1, GotoSets
<1>2. L!Call(c, <<c, "ready">>, Nil, L!NoEvent)
  BY DEF L!Leave
<1>3. L!TypeOK'
  BY <1>0, <1>1, <1>2, CallSets, EventExists DEF L!TypeOK, L!Leave
<1>4. Only(c) /\ list'[c] = <<c, "ready">> /\ item'[c] = Pending
  BY <1>0, <1>1, <1>2, CallSets, EventExists DEF Only
<1>5. CallersInv'
  <2>1. \A d \in Core : d # c => list'[d] = list[d]
    BY <1>4 DEF Only
  <2>2. owner' = Nil /\ started' = started /\ owner = c
    BY <1>1 DEF L!Leave, CallersInv
  <2> QED
    BY <1>1, <2>1, <2>2, ListFacts DEF CallersInv, Busy, Appending
<1> QED
  BY <1>1, <1>3, <1>4, <1>5
LEMMA HeldCall ==
  ASSUME L!TypeOK, CallersInv, NEW c \in Core, pc[c] = "held",
         \A d \in Core : d # c => pc'[d] = pc[d] /\ list'[d] = list[d],
         UNCHANGED <<owner, started>>, pc'[c] # "held", pc'[c] # "out",
         \A d \in Core : list'[c] = <<d, "ready">> => d \in started /\ (Busy(d) => owner = d)
  PROVE  CallersInv'
<1>1. owner = c /\ owner' = owner /\ started' = started
  BY DEF CallersInv
<1>2. /\ \A d \in Core : pc[d] = "held" => owner = d
      /\ \A d \in Core : owner = d => pc[d] # "out"
      /\ \A d \in Core : pc[d] # "out" => d \in started
      /\ \A d \in Core : Busy(d) /\ owner # d =>
            list[d] = <<d, "ready">> /\ pc[d] \in Appending \cup {"settail", "unlock"}
      /\ \A d, e \in Core : Busy(d) /\ owner = d /\ list[d] = <<e, "ready">> =>
            e \in started /\ (Busy(e) => owner = e)
  BY DEF CallersInv
<1>3. /\ \A d \in Core : pc'[d] = "held" => owner' = d
      /\ \A d \in Core : owner' = d => pc'[d] # "out"
      /\ \A d \in Core : pc'[d] # "out" => d \in started'
  BY <1>1, <1>2
<1>4. \A d \in Core : d # c => (Busy(d)' <=> Busy(d))
  BY DEF Busy
<1>5. \A d \in Core : Busy(d)' /\ owner' # d =>
         list'[d] = <<d, "ready">> /\ pc'[d] \in Appending \cup {"settail", "unlock"}
  BY <1>1, <1>2, <1>4
<1>6. \A d, e \in Core : Busy(d)' /\ owner' = d /\ list'[d] = <<e, "ready">> =>
         e \in started' /\ (Busy(e)' => owner' = e)
  BY <1>1, <1>2, <1>4
<1> QED
  BY <1>3, <1>5, <1>6 DEF CallersInv, Appending

LEMMA StartKeeps ==
  ASSUME L!TypeOK, CallersInv, NEW c \in Core, NEW p \in Process, L!Start(c, p)
  PROVE  /\ L!TypeOK' /\ CallersInv' /\ Only(c)
         /\ pc[c] = "out" /\ pc'[c] = "append"
         /\ list'[c] \in Lists /\ node'[c] = p /\ item'[c] = Pending
<1>0. <<c, "ready">> \in Lists
  BY DEF Lists
<1>1. pc[c] = "out" /\ pc'[c] = "append" /\ pc' \in [Core -> L!Labels] /\ \A d \in Core : d # c => pc'[d] = pc[d]
  <2>1. L!Goto(c, "out", "append") /\ "append" \in L!Labels
    BY DEF L!Start, L!Labels
  <2> QED
    BY <2>1, GotoSets
<1>2. L!Call(c, <<c, "ready">>, p, L!NoEvent)
  BY DEF L!Start
<1>3. L!TypeOK'
  BY <1>0, <1>1, <1>2, CallSets, EventExists DEF L!TypeOK, L!Start
<1>4. Only(c) /\ list'[c] = <<c, "ready">> /\ item'[c] = Pending /\ node'[c] = p
  BY <1>0, <1>1, <1>2, CallSets, EventExists DEF Only
<1>5. CallersInv'
  <2>1. \A d \in Core : d # c => list'[d] = list[d]
    BY <1>4 DEF Only
  <2>2. owner' = owner /\ started' = started \cup {c} /\ owner # c /\ c \notin started
    BY <1>1 DEF L!Start, CallersInv
  <2>3. /\ \A d \in Core : pc[d] = "held" => owner = d
        /\ \A d \in Core : owner = d => pc[d] # "out"
        /\ \A d \in Core : pc[d] # "out" => d \in started
        /\ \A d \in Core : Busy(d) /\ owner # d =>
              list[d] = <<d, "ready">> /\ pc[d] \in Appending \cup {"settail", "unlock"}
        /\ \A d, e \in Core : Busy(d) /\ owner = d /\ list[d] = <<e, "ready">> =>
              e \in started /\ (Busy(e) => owner = e)
    BY DEF CallersInv
  <2>4. \A d \in Core : d # c => (Busy(d)' <=> Busy(d))
    BY <1>1 DEF Busy
  <2>5. \A d \in Core : Busy(d)' /\ owner' # d =>
           list'[d] = <<d, "ready">> /\ pc'[d] \in Appending \cup {"settail", "unlock"}
    BY <1>1, <1>4, <2>1, <2>2, <2>3, <2>4 DEF Appending
  <2>6. \A d, e \in Core : Busy(d)' /\ owner' = d /\ list'[d] = <<e, "ready">> =>
           e \in started' /\ (Busy(e)' => owner' = e)
    BY <1>1, <1>4, <2>1, <2>2, <2>3, <2>4
  <2>7. /\ \A d \in Core : pc'[d] = "held" => owner' = d
        /\ \A d \in Core : owner' = d => pc'[d] # "out"
        /\ \A d \in Core : pc'[d] # "out" => d \in started'
    BY <1>1, <2>2, <2>3
  <2> QED
    BY <2>5, <2>6, <2>7 DEF CallersInv, Appending
<1> QED
  BY <1>0, <1>1, <1>3, <1>4, <1>5

LEMMA AppendReadyKeeps ==
  ASSUME L!TypeOK, CallersInv, NEW c \in Core, NEW l \in Lists, NEW p \in Process, L!AppendReady(c, l, p)
  PROVE  /\ L!TypeOK' /\ CallersInv' /\ Only(c)
         /\ pc[c] = "held" /\ pc'[c] = "append"
         /\ list'[c] \in Lists /\ node'[c] = p /\ item'[c] = Pending
<1>1. pc[c] = "held" /\ pc'[c] = "append" /\ pc' \in [Core -> L!Labels] /\ \A d \in Core : d # c => pc'[d] = pc[d]
  <2>1. L!Goto(c, "held", "append") /\ "append" \in L!Labels
    BY DEF L!AppendReady, L!Labels
  <2> QED
    BY <2>1, GotoSets
<1>2. L!Call(c, l, p, L!NoEvent)
  BY DEF L!AppendReady
<1>3. L!TypeOK'
  BY <1>1, <1>2, CallSets, EventExists DEF L!TypeOK, L!AppendReady, L!Caller
<1>4. Only(c) /\ list'[c] = l /\ item'[c] = Pending /\ node'[c] = p
  BY <1>1, <1>2, CallSets, EventExists DEF Only
<1>5. CallersInv'
  <2>1. \A d \in Core : d # c => pc'[d] = pc[d] /\ list'[d] = list[d]
    BY <1>4 DEF Only
  <2>2. owner' = owner /\ started' = started
    BY DEF L!AppendReady, L!Caller
  <2>3. \A d \in Core : l = <<d, "ready">> => d \in started /\ (Busy(d) => owner = d)
    BY DEF L!AppendReady, L!Starting, Busy
  <2> QED
    BY <1>1, <1>4, <2>1, <2>2, <2>3, HeldCall
<1> QED
  BY <1>1, <1>3, <1>4, <1>5

LEMMA AppendWaitKeeps ==
  ASSUME L!TypeOK, CallersInv, NEW c \in Core, NEW l \in Lists, NEW p \in Process, NEW w \in Event,
         L!AppendWait(c, l, p, w)
  PROVE  /\ L!TypeOK' /\ CallersInv' /\ Only(c)
         /\ pc[c] = "held" /\ pc'[c] = "append"
         /\ list'[c] \in Lists /\ node'[c] = p /\ item'[c] = Pending
<1>1. pc[c] = "held" /\ pc'[c] = "append" /\ pc' \in [Core -> L!Labels] /\ \A d \in Core : d # c => pc'[d] = pc[d]
  <2>1. L!Goto(c, "held", "append") /\ "append" \in L!Labels
    BY DEF L!AppendWait, L!Labels
  <2> QED
    BY <2>1, GotoSets
<1>2. L!Call(c, l, p, L!NoEvent)
  BY DEF L!AppendWait
<1>3. L!TypeOK'
  BY <1>1, <1>2, CallSets, EventExists DEF L!TypeOK, L!AppendWait, L!Caller
<1>4. Only(c) /\ list'[c] = l /\ item'[c] = Pending /\ node'[c] = p
  BY <1>1, <1>2, CallSets, EventExists DEF Only
<1>5. CallersInv'
  <2>1. \A d \in Core : d # c => pc'[d] = pc[d] /\ list'[d] = list[d]
    BY <1>4 DEF Only
  <2>2. owner' = owner /\ started' = started /\ l = <<c, "wait">>
    BY DEF L!AppendWait, L!Caller
  <2>3. \A d \in Core : l # <<d, "ready">>
    BY <2>2
  <2> QED
    BY <1>1, <1>4, <2>1, <2>2, <2>3, HeldCall
<1> QED
  BY <1>1, <1>3, <1>4, <1>5

LEMMA RemoveHeadKeeps ==
  ASSUME L!TypeOK, CallersInv, NEW c \in Core, L!RemoveListHead(c)
  PROVE  /\ L!TypeOK' /\ CallersInv' /\ Only(c)
         /\ pc[c] = "held" /\ pc'[c] = "head" /\ list'[c] \in Lists /\ item'[c] = Pending
<1>0. <<c, "ready">> \in Lists
  BY DEF Lists
<1>1. pc[c] = "held" /\ pc'[c] = "head" /\ pc' \in [Core -> L!Labels] /\ \A d \in Core : d # c => pc'[d] = pc[d]
  <2>1. L!Goto(c, "held", "head") /\ "head" \in L!Labels
    BY DEF L!RemoveListHead, L!Labels
  <2> QED
    BY <2>1, GotoSets
<1>2. L!Call(c, <<c, "ready">>, Nil, L!NoEvent)
  BY DEF L!RemoveListHead
<1>3. L!TypeOK'
  BY <1>0, <1>1, <1>2, CallSets, EventExists DEF L!TypeOK, L!RemoveListHead, L!Caller
<1>4. Only(c) /\ list'[c] = <<c, "ready">> /\ item'[c] = Pending
  BY <1>0, <1>1, <1>2, CallSets, EventExists DEF Only
<1>5. CallersInv'
  <2>1. \A d \in Core : d # c => pc'[d] = pc[d] /\ list'[d] = list[d]
    BY <1>4 DEF Only
  <2>2. owner' = owner /\ started' = started
    BY DEF L!RemoveListHead, L!Caller
  <2>3. \A d \in Core : <<c, "ready">> = <<d, "ready">> => d \in started /\ (Busy(d) => owner = d)
    BY <1>1 DEF CallersInv
  <2> QED
    BY <1>1, <1>4, <2>1, <2>2, <2>3, HeldCall
<1> QED
  BY <1>0, <1>1, <1>3, <1>4, <1>5

LEMMA RemoveListKeeps ==
  ASSUME L!TypeOK, CallersInv, NEW c \in Core, NEW l \in Lists, NEW w \in Event, L!RemoveList(c, l, w)
  PROVE  /\ L!TypeOK' /\ CallersInv' /\ Only(c)
         /\ pc[c] = "held" /\ pc'[c] = "search"
         /\ list'[c] = l /\ prev'[c] = l /\ arg'[c] = w /\ item'[c] = Pending
<1>1. pc[c] = "held" /\ pc'[c] = "search" /\ pc' \in [Core -> L!Labels] /\ \A d \in Core : d # c => pc'[d] = pc[d]
  <2>1. L!Goto(c, "held", "search") /\ "search" \in L!Labels
    BY DEF L!RemoveList, L!Labels
  <2> QED
    BY <2>1, GotoSets
<1>2. L!Call(c, l, Nil, w)
  BY DEF L!RemoveList
<1>3. L!TypeOK'
  BY <1>1, <1>2, CallSets DEF L!TypeOK, L!RemoveList, L!Caller
<1>4. Only(c) /\ list'[c] = l /\ prev'[c] = l /\ arg'[c] = w /\ item'[c] = Pending
  BY <1>1, <1>2, CallSets DEF Only
<1>5. CallersInv'
  <2>1. \A d \in Core : d # c => pc'[d] = pc[d] /\ list'[d] = list[d]
    BY <1>4 DEF Only
  <2>2. owner' = owner /\ started' = started /\ l[2] = "wait"
    BY DEF L!RemoveList, L!Caller
  <2>3. \A d \in Core : l # <<d, "ready">>
    BY <2>2
  <2> QED
    BY <1>1, <1>4, <2>1, <2>2, <2>3, HeldCall
<1> QED
  BY <1>1, <1>3, <1>4, <1>5
(* A step from one label of a function to another, or out of remove_list. *)
Onward(from, to) ==
  /\ from \notin {"out", "held", "unlock"} /\ to # "out"
  /\ from \in Appending \cup {"settail"} => to \in Appending \cup {"settail", "unlock"}

LEMMA StepInCall ==
  ASSUME L!TypeOK, CallersInv, NEW c \in Core, NEW from, NEW to \in L!Labels, L!Goto(c, from, to),
         Onward(from, to), UNCHANGED <<owner, started, list, node, arg>>,
         \A d \in Core : d # c => item'[d] = item[d] /\ prev'[d] = prev[d]
  PROVE  /\ CallersInv' /\ Only(c) /\ Busy(c)
         /\ pc[c] = from /\ pc'[c] = to /\ pc' \in [Core -> L!Labels]
<1>1. pc[c] = from /\ pc'[c] = to /\ pc' \in [Core -> L!Labels] /\ \A d \in Core : d # c => pc'[d] = pc[d]
  BY GotoSets
<1>2. Busy(c)
  BY <1>1 DEF Busy, Onward
<1>3. Only(c)
  BY <1>1 DEF Only
<1>4. owner # c => from \in Appending \cup {"settail", "unlock"}
  BY <1>1, <1>2 DEF CallersInv
<1>5. owner # c => to \in Appending \cup {"settail", "unlock"}
  BY <1>4 DEF Onward
<1>6. to = "held" => owner = c
  BY <1>5 DEF Appending
<1>7. CallersInv'
  BY <1>1, <1>2, <1>3, <1>5, <1>6, InCallStep DEF Onward
<1> QED
  BY <1>1, <1>2, <1>3, <1>7

LEMMA AppendLocksKeeps ==
  ASSUME L!TypeOK, CallersInv, NEW c \in Core, L!AppendLocks(c)
  PROVE  L!TypeOK' /\ CallersInv' /\ Only(c) /\ Busy(c) /\ pc[c] = "append" /\ pc'[c] = "clear"
<1>1. L!Goto(c, "append", "clear") /\ "clear" \in L!Labels /\ Onward("append", "clear")
  BY DEF L!AppendLocks, L!Labels, Onward, Appending
<1>2. UNCHANGED <<owner, started, list, node, arg, item, prev>>
  BY DEF L!AppendLocks, L!Caller, L!Locals
<1>3. CallersInv' /\ Only(c) /\ Busy(c) /\ pc[c] = "append" /\ pc'[c] = "clear" /\ pc' \in [Core -> L!Labels]
  BY <1>1, <1>2, StepInCall
<1>4. L!TypeOK'
  BY <1>3 DEF L!TypeOK, L!AppendLocks, L!Caller, L!Locals
<1> QED
  BY <1>3, <1>4

LEMMA AppendClearsKeeps ==
  ASSUME L!TypeOK, CallersInv, NEW c \in Core, L!AppendClears(c)
  PROVE  L!TypeOK' /\ CallersInv' /\ Only(c) /\ Busy(c) /\ pc[c] = "clear" /\ pc'[c] = "link"
<1>1. L!Goto(c, "clear", "link") /\ "link" \in L!Labels /\ Onward("clear", "link")
  BY DEF L!AppendClears, L!Labels, Onward, Appending
<1>2. UNCHANGED <<owner, started, list, node, arg, item, prev>>
  BY DEF L!AppendClears, L!Caller, L!Locals
<1>3. CallersInv' /\ Only(c) /\ Busy(c) /\ pc[c] = "clear" /\ pc'[c] = "link" /\ pc' \in [Core -> L!Labels]
  BY <1>1, <1>2, StepInCall
<1>4. L!TypeOK'
  BY <1>3 DEF L!TypeOK, L!AppendClears, L!Caller, L!Locals
<1> QED
  BY <1>3, <1>4

LEMMA AppendLinksKeeps ==
  ASSUME L!TypeOK, CallersInv, NEW c \in Core, L!AppendLinks(c)
  PROVE  L!TypeOK' /\ CallersInv' /\ Only(c) /\ Busy(c) /\ pc[c] = "link" /\ pc'[c] = "settail"
<1>1. L!Goto(c, "link", "settail") /\ "settail" \in L!Labels /\ Onward("link", "settail")
  BY DEF L!AppendLinks, L!Labels, Onward, Appending
<1>2. UNCHANGED <<owner, started, list, node, arg, item, prev>>
  BY DEF L!AppendLinks, L!Caller, L!Locals
<1>3. CallersInv' /\ Only(c) /\ Busy(c) /\ pc[c] = "link" /\ pc'[c] = "settail" /\ pc' \in [Core -> L!Labels]
  BY <1>1, <1>2, StepInCall
<1>4. L!TypeOK'
  BY <1>3 DEF L!TypeOK, L!AppendLinks, L!Caller, L!Locals
<1> QED
  BY <1>3, <1>4

LEMMA AppendSetsTailKeeps ==
  ASSUME L!TypeOK, CallersInv, NEW c \in Core, L!AppendSetsTail(c)
  PROVE  L!TypeOK' /\ CallersInv' /\ Only(c) /\ Busy(c) /\ pc[c] = "settail" /\ pc'[c] = "unlock"
<1>1. L!Goto(c, "settail", "unlock") /\ "unlock" \in L!Labels /\ Onward("settail", "unlock")
  BY DEF L!AppendSetsTail, L!Labels, Onward, Appending
<1>2. UNCHANGED <<owner, started, list, node, arg, item, prev>>
  BY DEF L!AppendSetsTail, L!Caller, L!Locals
<1>3. CallersInv' /\ Only(c) /\ Busy(c) /\ pc[c] = "settail" /\ pc'[c] = "unlock" /\ pc' \in [Core -> L!Labels]
  BY <1>1, <1>2, StepInCall
<1>4. L!TypeOK'
  BY <1>3 DEF L!TypeOK, L!AppendSetsTail, L!Caller, L!Locals
<1> QED
  BY <1>3, <1>4

LEMMA UnlockKeeps ==
  ASSUME L!TypeOK, CallersInv, NEW c \in Core, L!Unlock(c)
  PROVE  /\ L!TypeOK' /\ CallersInv' /\ Only(c) /\ Busy(c)
         /\ pc[c] = "unlock" /\ pc'[c] \in {"out", "held"}
<1>1. L!Goto(c, "unlock", L!Return(c)) /\ L!Return(c) \in L!Labels
  BY DEF L!Unlock, L!Labels, L!Return
<1>2. UNCHANGED <<owner, started, list, node, arg, item, prev>>
  BY DEF L!Unlock, L!Caller, L!Locals
<1>3. pc[c] = "unlock" /\ pc'[c] = L!Return(c) /\ pc' \in [Core -> L!Labels] /\ \A d \in Core : d # c => pc'[d] = pc[d]
  BY <1>1, GotoSets
<1>4. Only(c) /\ Busy(c)
  BY <1>2, <1>3 DEF Only, Busy
<1>5. pc'[c] \in {"out", "held"} /\ (pc'[c] = "held" => owner = c) /\ (pc'[c] = "out" => owner # c)
  BY <1>3 DEF L!Return
<1>6. CallersInv'
  BY <1>2, <1>4, <1>5, InCallStep DEF Busy
<1>7. L!TypeOK'
  <2>1. off' \subseteq Process
    BY DEF L!TypeOK, L!Unlock, L!HandOver
  <2> QED
    BY <1>3, <2>1 DEF L!TypeOK, L!Unlock, L!Caller, L!Locals
<1> QED
  BY <1>3, <1>4, <1>5, <1>6, <1>7

LEMMA HeadLocksKeeps ==
  ASSUME L!TypeOK, CallersInv, NEW c \in Core, L!HeadLocks(c)
  PROVE  L!TypeOK' /\ CallersInv' /\ Only(c) /\ Busy(c) /\ pc[c] = "head" /\ pc'[c] = "unlink"
<1>1. L!Goto(c, "head", "unlink") /\ "unlink" \in L!Labels /\ Onward("head", "unlink")
  BY DEF L!HeadLocks, L!Labels, Onward, Appending
<1>2. UNCHANGED <<owner, started, list, node, arg, item, prev>>
  BY DEF L!HeadLocks, L!Caller, L!Locals
<1>3. CallersInv' /\ Only(c) /\ Busy(c) /\ pc[c] = "head" /\ pc'[c] = "unlink" /\ pc' \in [Core -> L!Labels]
  BY <1>1, <1>2, StepInCall
<1>4. L!TypeOK'
  BY <1>3 DEF L!TypeOK, L!HeadLocks, L!Caller, L!Locals
<1> QED
  BY <1>3, <1>4

LEMMA HeadUnlinksKeeps ==
  ASSUME L!TypeOK, CallersInv, NEW c \in Core, L!HeadUnlinks(c)
  PROVE  /\ L!TypeOK' /\ CallersInv' /\ Only(c) /\ Busy(c)
         /\ pc[c] = "unlink" /\ item'[c] = next[list[c]]
         /\ next[list[c]] = Nil => next' = next /\ pc'[c] = "unlock"
         /\ next[list[c]] # Nil => /\ next' = [next EXCEPT ![list[c]] = next[next[list[c]]]]
                                   /\ pc'[c] = IF next[next[list[c]]] = Nil THEN "unlock2" ELSE "unlock"
<1>1. PICK to : /\ L!Goto(c, "unlink", to) /\ to \in {"unlock", "unlock2"}
                /\ next[list[c]] = Nil => to = "unlock"
                /\ next[list[c]] # Nil => to = IF next[next[list[c]]] = Nil THEN "unlock2" ELSE "unlock"
  BY DEF L!HeadUnlinks, L!is_list_empty
<1>2. to \in L!Labels /\ Onward("unlink", to)
  BY <1>1 DEF L!Labels, Onward, Appending
<1>3. UNCHANGED <<owner, started, list, node, arg, prev>> /\ item' = [item EXCEPT ![c] = next[list[c]]]
  BY DEF L!HeadUnlinks, L!Caller, L!Locals
<1>4. (\A d \in Core : d # c => item'[d] = item[d]) /\ item'[c] = next[list[c]]
  BY <1>3 DEF L!TypeOK
<1>5. CallersInv' /\ Only(c) /\ Busy(c) /\ pc[c] = "unlink" /\ pc'[c] = to /\ pc' \in [Core -> L!Labels]
  BY <1>1, <1>2, <1>3, <1>4, StepInCall
<1>6. list[c] \in Lists /\ next[list[c]] \in Process \cup {Nil}
  BY DEF L!TypeOK
<1>7. item' \in [Core -> Process \cup {Nil, Pending}]
  BY <1>3, <1>6 DEF L!TypeOK
<1>8. /\ next[list[c]] = Nil => next' = next
      /\ next[list[c]] # Nil => next' = [next EXCEPT ![list[c]] = next[next[list[c]]]]
  BY DEF L!HeadUnlinks, L!is_list_empty
<1>9. next' \in [Lists \cup Process -> Process \cup {Nil}]
  BY <1>6, <1>8 DEF L!TypeOK
<1>10. L!TypeOK'
  BY <1>3, <1>5, <1>7, <1>9 DEF L!TypeOK, L!HeadUnlinks, L!Caller
<1> QED
  BY <1>1, <1>4, <1>5, <1>8, <1>10

LEMMA HeadUnlocksKeeps ==
  ASSUME L!TypeOK, CallersInv, NEW c \in Core, L!HeadUnlocks(c)
  PROVE  L!TypeOK' /\ CallersInv' /\ Only(c) /\ Busy(c) /\ pc[c] = "unlock2" /\ pc'[c] = "droptail"
<1>1. L!Goto(c, "unlock2", "droptail") /\ "droptail" \in L!Labels /\ Onward("unlock2", "droptail")
  BY DEF L!HeadUnlocks, L!Labels, Onward, Appending
<1>2. UNCHANGED <<owner, started, list, node, arg, item, prev>>
  BY DEF L!HeadUnlocks, L!Caller, L!Locals
<1>3. CallersInv' /\ Only(c) /\ Busy(c) /\ pc[c] = "unlock2" /\ pc'[c] = "droptail" /\ pc' \in [Core -> L!Labels]
  BY <1>1, <1>2, StepInCall
<1>4. L!TypeOK'
  BY <1>3 DEF L!TypeOK, L!HeadUnlocks, L!Caller, L!Locals
<1> QED
  BY <1>3, <1>4

LEMMA HeadDropsTailKeeps ==
  ASSUME L!TypeOK, CallersInv, NEW c \in Core, L!HeadDropsTail(c)
  PROVE  L!TypeOK' /\ CallersInv' /\ Only(c) /\ Busy(c) /\ pc[c] = "droptail" /\ pc'[c] = "unlock"
<1>1. L!Goto(c, "droptail", "unlock") /\ "unlock" \in L!Labels /\ Onward("droptail", "unlock")
  BY DEF L!HeadDropsTail, L!Labels, Onward, Appending
<1>2. UNCHANGED <<owner, started, list, node, arg, item, prev>>
  BY DEF L!HeadDropsTail, L!Caller, L!Locals
<1>3. CallersInv' /\ Only(c) /\ Busy(c) /\ pc[c] = "droptail" /\ pc'[c] = "unlock" /\ pc' \in [Core -> L!Labels]
  BY <1>1, <1>2, StepInCall
<1>4. L!TypeOK'
  BY <1>3 DEF L!TypeOK, L!HeadDropsTail, L!Caller, L!Locals
<1> QED
  BY <1>3, <1>4
Ends(c) == next[prev[c]] = Nil

Matches(c) == next[prev[c]] # Nil /\ wait[next[prev[c]]] = arg[c]

GoesOn(c) == next[prev[c]] # Nil /\ wait[next[prev[c]]] # arg[c]

LEMMA SearchEnds ==
  ASSUME L!TypeOK, CallersInv, NEW c \in Core, L!SearchStep(c), Ends(c)
  PROVE  /\ L!TypeOK' /\ CallersInv' /\ Only(c) /\ Busy(c)
         /\ pc[c] = "search" /\ pc'[c] = "held"
         /\ item' = [item EXCEPT ![c] = Nil] /\ UNCHANGED <<next, prev>>
<1>1. L!Goto(c, "search", "held") /\ item' = [item EXCEPT ![c] = Nil] /\ UNCHANGED <<next, prev>>
  BY DEF L!SearchStep, L!Search, Ends
<1>2. "held" \in L!Labels /\ Onward("search", "held")
  BY DEF L!Labels, Onward, Appending
<1>3. UNCHANGED <<owner, started, list, node, arg>> /\ UNCHANGED <<tail, wait, list_lock, off>>
  BY DEF L!SearchStep, L!Caller
<1>4. item' \in [Core -> Process \cup {Nil, Pending}] /\ \A d \in Core : d # c => item'[d] = item[d]
  BY <1>1 DEF L!TypeOK
<1>5. CallersInv' /\ Only(c) /\ Busy(c) /\ pc[c] = "search" /\ pc'[c] = "held" /\ pc' \in [Core -> L!Labels]
  BY <1>1, <1>2, <1>3, <1>4, StepInCall
<1>6. L!TypeOK'
  BY <1>1, <1>3, <1>4, <1>5 DEF L!TypeOK
<1> QED
  BY <1>1, <1>5, <1>6

LEMMA SearchFinds ==
  ASSUME L!TypeOK, CallersInv, NEW c \in Core, L!SearchStep(c), Matches(c)
  PROVE  /\ L!TypeOK' /\ CallersInv' /\ Only(c) /\ Busy(c)
         /\ pc[c] = "search" /\ pc'[c] = "fixtail"
         /\ item' = [item EXCEPT ![c] = next[prev[c]]] /\ UNCHANGED <<tail, prev>>
         /\ next' = [next EXCEPT ![prev[c]] = next[next[prev[c]]]]
<1>1. /\ L!Goto(c, "search", "fixtail") /\ item' = [item EXCEPT ![c] = next[prev[c]]] /\ UNCHANGED prev
      /\ next' = [next EXCEPT ![prev[c]] = next[next[prev[c]]]]
  BY DEF L!SearchStep, L!Search, Matches
<1>2. "fixtail" \in L!Labels /\ Onward("search", "fixtail")
  BY DEF L!Labels, Onward, Appending
<1>3. UNCHANGED <<owner, started, list, node, arg>> /\ UNCHANGED <<tail, wait, list_lock, off>>
  BY DEF L!SearchStep, L!Caller
<1>4. next[prev[c]] \in Process
  BY DEF L!TypeOK, Matches
<1>5. item' \in [Core -> Process \cup {Nil, Pending}] /\ \A d \in Core : d # c => item'[d] = item[d]
  BY <1>1, <1>4 DEF L!TypeOK
<1>6. next' \in [Lists \cup Process -> Process \cup {Nil}]
  BY <1>1, <1>4 DEF L!TypeOK
<1>7. CallersInv' /\ Only(c) /\ Busy(c) /\ pc[c] = "search" /\ pc'[c] = "fixtail" /\ pc' \in [Core -> L!Labels]
  BY <1>1, <1>2, <1>3, <1>5, StepInCall
<1>8. L!TypeOK'
  BY <1>1, <1>3, <1>5, <1>6, <1>7 DEF L!TypeOK
<1> QED
  BY <1>1, <1>3, <1>7, <1>8

LEMMA SearchGoesOn ==
  ASSUME L!TypeOK, CallersInv, NEW c \in Core, L!SearchStep(c), GoesOn(c)
  PROVE  /\ L!TypeOK' /\ CallersInv' /\ Only(c) /\ Busy(c)
         /\ pc[c] = "search" /\ prev'[c] = next[prev[c]]
         /\ UNCHANGED <<next, tail, item, pc, list, arg>>
<1>1. pc[c] = "search" /\ prev' = [prev EXCEPT ![c] = next[prev[c]]] /\ UNCHANGED <<next, item, pc>>
  BY DEF L!SearchStep, L!Search, GoesOn
<1>2. UNCHANGED <<owner, started, list, node, arg>> /\ UNCHANGED <<tail, wait, list_lock, off>>
  BY DEF L!SearchStep, L!Caller
<1>3. next[prev[c]] \in Process
  BY DEF L!TypeOK, GoesOn
<1>4. /\ prev' \in [Core -> Lists \cup Process] /\ prev'[c] = next[prev[c]]
      /\ \A d \in Core : d # c => prev'[d] = prev[d]
  BY <1>1, <1>3 DEF L!TypeOK
<1>5. Only(c) /\ Busy(c)
  BY <1>1, <1>2, <1>4 DEF Only, Busy
<1>6. CallersInv'
  BY <1>1, <1>2 DEF CallersInv, Busy
<1>7. L!TypeOK'
  BY <1>1, <1>2, <1>4 DEF L!TypeOK
<1> QED
  BY <1>1, <1>2, <1>4, <1>5, <1>6, <1>7

LEMMA FixTailKeeps ==
  ASSUME L!TypeOK, CallersInv, NEW C \in [Lists -> Seq(Process)], Linked(C), NEW c \in Core, L!FixTail(c)
  PROVE  L!TypeOK' /\ CallersInv' /\ Only(c) /\ Busy(c) /\ pc[c] = "fixtail" /\ pc'[c] = "held"
<1>1. L!Goto(c, "fixtail", "held") /\ "held" \in L!Labels /\ Onward("fixtail", "held")
  BY DEF L!FixTail, L!Labels, Onward, Appending
<1>2. UNCHANGED <<owner, started, list, node, arg, item, prev>>
  BY DEF L!FixTail, L!Caller, L!Locals
<1>3. CallersInv' /\ Only(c) /\ Busy(c) /\ pc[c] = "fixtail" /\ pc'[c] = "held" /\ pc' \in [Core -> L!Labels]
  BY <1>1, <1>2, StepInCall
<1>4. PICK l \in Lists : l = list[c]
  BY DEF L!TypeOK
<1>5. PICK s \in Seq(Process) : s = C[l]
  OBVIOUS
<1>6. Chained(next, l, s) /\ RemoveOK(c, s)
  BY <1>4, <1>5 DEF Linked, Chains
<1>7. next[l] # Nil => s # <<>>
  BY <1>6 DEF Chained, At
<1>8. next[l] # Nil /\ next[item[c]] = Nil => prev[c] \in Process
  BY <1>3, <1>6, <1>7 DEF RemoveOK, LastOf
<1>9. tail' \in [Lists -> Process \cup {Nil}]
  BY <1>4, <1>8 DEF L!TypeOK, L!FixTail, L!is_list_empty
<1>10. off' \subseteq Process
  BY DEF L!TypeOK, L!FixTail, L!HandOver
<1>11. L!TypeOK'
  BY <1>2, <1>3, <1>9, <1>10 DEF L!TypeOK, L!FixTail
<1> QED
  BY <1>3, <1>11
-----------------------------------------------------------------------------
(* The steps that leave the pointers as they are. *)

LEMMA IdleStep ==
  ASSUME NEW C \in [Lists -> Seq(Process)], Linked(C), L!TypeOK, NEW c \in Core, Only(c), ~ Busy(c)',
         next' = next, tail' = tail, wait' = wait, pc[c] \notin {"settail", "fixtail"},
         list'[c] \in Lists, off' \subseteq Hand(c) \cup off
  PROVE  Linked(C)'
<1>1. PICK s : s = C[list'[c]]
  OBVIOUS
<1>2. AppendOK(c, s)' /\ RemoveOK(c, s)'
  BY OutOfCall
<1>3. AppendOK(c, C[list[c]])' /\ RemoveOK(c, C[list[c]])'
  BY <1>1, <1>2
<1>4. Hand(c)' = {} /\ pc'[c] \notin {"settail", "fixtail"}
  BY DEF Hand, Busy, Appending, Removed
<1> QED
  BY <1>3, <1>4, QuietStep

LEMMA EnterShape ==
  ASSUME L!TypeOK, CallersInv, NEW C \in [Lists -> Seq(Process)], Linked(C), NEW c \in Core, L!Enter(c)
  PROVE  Linked(C)'
<1>1. Only(c) /\ pc[c] = "out" /\ ~ Busy(c)'
  BY EnterKeeps DEF Busy
<1>2. list'[c] \in Lists /\ UNCHANGED <<next, tail, wait, off>>
  BY DEF L!TypeOK, L!Enter, L!Locals
<1> QED
  BY <1>1, <1>2, IdleStep

LEMMA LeaveShape ==
  ASSUME L!TypeOK, CallersInv, NEW C \in [Lists -> Seq(Process)], Linked(C), NEW c \in Core, L!Leave(c)
  PROVE  Linked(C)'
<1>1. Only(c) /\ pc[c] = "held" /\ ~ Busy(c)' /\ list'[c] \in Lists
  BY LeaveKeeps DEF Busy, Lists
<1>2. UNCHANGED <<next, tail, wait, off>>
  BY DEF L!Leave
<1> QED
  BY <1>1, <1>2, IdleStep

LEMMA UnlockShape ==
  ASSUME L!TypeOK, CallersInv, NEW C \in [Lists -> Seq(Process)], Linked(C), NEW c \in Core, L!Unlock(c)
  PROVE  Linked(C)'
<1>1. Only(c) /\ pc[c] = "unlock" /\ ~ Busy(c)'
  BY UnlockKeeps DEF Busy
<1>2. list'[c] \in Lists /\ UNCHANGED <<next, tail, wait>>
  BY DEF L!TypeOK, L!Unlock, L!Locals
<1>3. off' \subseteq Hand(c) \cup off
  BY <1>1 DEF L!Unlock, L!HandOver, Hand, Removed
<1> QED
  BY <1>1, <1>2, <1>3, IdleStep

LEMMA SearchEndsShape ==
  ASSUME L!TypeOK, CallersInv, NEW C \in [Lists -> Seq(Process)], Linked(C), NEW c \in Core,
         L!SearchStep(c), Ends(c)
  PROVE  Linked(C)'
<1>1. Only(c) /\ pc[c] = "search" /\ ~ Busy(c)' /\ next' = next
  BY SearchEnds DEF Busy
<1>2. list'[c] \in Lists /\ UNCHANGED <<tail, wait, off>>
  BY DEF L!TypeOK, L!SearchStep
<1> QED
  BY <1>1, <1>2, IdleStep

(* A call of append_list_tail begins with a process that was on no list. *)
LEMMA BeginAppend ==
  ASSUME L!TypeOK, NEW C \in [Lists -> Seq(Process)], Linked(C), NEW c \in Core, Only(c),
         ~ Busy(c), pc'[c] = "append", list'[c] \in Lists,
         NEW p \in off, node'[c] = p, item'[c] = Pending, off' = off \ {p},
         next' = next, tail' = tail, \A q \in Process : q \notin off => wait'[q] = wait[q]
  PROVE  Linked(C)'
<1>1. p \in Process
  BY DEF L!TypeOK
<1>2. Hand(c)' = {p} /\ Hand(c)' \cap off' = {} /\ Hand(c)' \cup off' \subseteq Hand(c) \cup off
  BY <1>1 DEF Hand, Appending, Removed
<1>3. PICK s : s = C[list'[c]]
  OBVIOUS
<1>4. AppendOK(c, s)' /\ RemoveOK(c, s)'
  BY <1>1 DEF AppendOK, RemoveOK, Appending
<1>5. AppendOK(c, C[list[c]])' /\ RemoveOK(c, C[list[c]])'
  BY <1>3, <1>4
<1>6. pc[c] \notin {"settail", "fixtail"} /\ pc'[c] \notin {"settail", "fixtail"}
  BY DEF Busy
<1> QED
  BY <1>2, <1>5, <1>6, QuietStep

LEMMA StartShape ==
  ASSUME L!TypeOK, CallersInv, NEW C \in [Lists -> Seq(Process)], Linked(C), NEW c \in Core,
         NEW p \in Process, L!Start(c, p)
  PROVE  Linked(C)'
<1>1. /\ Only(c) /\ ~ Busy(c) /\ pc'[c] = "append" /\ list'[c] \in Lists
      /\ node'[c] = p /\ item'[c] = Pending
  BY StartKeeps DEF Busy
<1>2. p \in off /\ off' = off \ {p} /\ UNCHANGED <<next, tail, wait>>
  BY DEF L!Start
<1> QED
  BY <1>1, <1>2, BeginAppend

LEMMA AppendReadyShape ==
  ASSUME L!TypeOK, CallersInv, NEW C \in [Lists -> Seq(Process)], Linked(C), NEW c \in Core,
         NEW l \in Lists, NEW p \in Process, L!AppendReady(c, l, p)
  PROVE  Linked(C)'
<1>1. /\ Only(c) /\ ~ Busy(c) /\ pc'[c] = "append" /\ list'[c] \in Lists
      /\ node'[c] = p /\ item'[c] = Pending
  BY AppendReadyKeeps DEF Busy
<1>2. p \in off /\ off' = off \ {p} /\ UNCHANGED <<next, tail, wait>>
  BY DEF L!AppendReady
<1> QED
  BY <1>1, <1>2, BeginAppend

LEMMA AppendWaitShape ==
  ASSUME L!TypeOK, CallersInv, NEW C \in [Lists -> Seq(Process)], Linked(C), NEW c \in Core,
         NEW l \in Lists, NEW p \in Process, NEW w \in Event, L!AppendWait(c, l, p, w)
  PROVE  Linked(C)'
<1>1. /\ Only(c) /\ ~ Busy(c) /\ pc'[c] = "append" /\ list'[c] \in Lists
      /\ node'[c] = p /\ item'[c] = Pending
  BY AppendWaitKeeps DEF Busy
<1>2. p \in off /\ off' = off \ {p} /\ UNCHANGED <<next, tail>> /\ wait' = [wait EXCEPT ![p] = w]
  BY DEF L!AppendWait
<1>3. \A q \in Process : q \notin off => wait'[q] = wait[q]
  BY <1>2 DEF L!TypeOK
<1> QED
  BY <1>1, <1>2, <1>3, BeginAppend

LEMMA RemoveHeadShape ==
  ASSUME L!TypeOK, CallersInv, NEW C \in [Lists -> Seq(Process)], Linked(C), NEW c \in Core, L!RemoveListHead(c)
  PROVE  Linked(C)'
<1>1. Only(c) /\ pc[c] = "held" /\ pc'[c] = "head" /\ list'[c] \in Lists
  BY RemoveHeadKeeps
<1>2. UNCHANGED <<next, tail, wait, off>>
  BY DEF L!RemoveListHead
<1>3. Hand(c)' = {}
  BY <1>1 DEF Hand, Appending, Removed
<1>4. PICK s : s = C[list'[c]]
  OBVIOUS
<1>5. AppendOK(c, s)' /\ RemoveOK(c, s)'
  BY <1>1 DEF AppendOK, RemoveOK, Appending
<1>6. AppendOK(c, C[list[c]])' /\ RemoveOK(c, C[list[c]])'
  BY <1>4, <1>5
<1> QED
  BY <1>1, <1>2, <1>3, <1>6, QuietStep

LEMMA RemoveListShape ==
  ASSUME L!TypeOK, CallersInv, NEW C \in [Lists -> Seq(Process)], Linked(C), NEW c \in Core,
         NEW l \in Lists, NEW w \in Event, L!RemoveList(c, l, w)
  PROVE  Linked(C)'
<1>1. Only(c) /\ pc[c] = "held" /\ pc'[c] = "search" /\ list'[c] = l /\ prev'[c] = l
  BY RemoveListKeeps
<1>2. UNCHANGED <<next, tail, wait, off>>
  BY DEF L!RemoveList
<1>3. Hand(c)' = {}
  BY <1>1 DEF Hand, Appending, Removed
<1>4. PICK s \in Seq(Process) : s = C[l]
  OBVIOUS
<1>5. AppendOK(c, s)'
  BY <1>1 DEF AppendOK, Appending
<1>6. RemoveOK(c, s)'
  <2>1. 0 \in 0..Len(s) /\ prev'[c] = At(list'[c], s, 0) /\ \A j \in 1..0 : wait'[s[j]] # arg'[c]
    BY <1>1 DEF At
  <2>2. \E k \in 0..Len(s) : prev'[c] = At(list'[c], s, k) /\ \A j \in 1..k : wait'[s[j]] # arg'[c]
    BY <2>1
  <2> QED
    BY <1>1, <2>2 DEF RemoveOK
<1>7. AppendOK(c, C[list[c]])' /\ RemoveOK(c, C[list[c]])'
  BY <1>1, <1>4, <1>5, <1>6
<1> QED
  BY <1>1, <1>2, <1>3, <1>7, QuietStep
LEMMA AppendLocksShape ==
  ASSUME L!TypeOK, CallersInv, NEW C \in [Lists -> Seq(Process)], Linked(C), NEW c \in Core, L!AppendLocks(c)
  PROVE  Linked(C)'
<1>1. Only(c) /\ pc[c] = "append" /\ pc'[c] = "clear"
  BY AppendLocksKeeps
<1>2. UNCHANGED <<next, tail, wait, off, item, list, node, arg, prev>> /\ list'[c] \in Lists
  BY DEF L!AppendLocks, L!Locals, L!TypeOK
<1>3. Hand(c)' = Hand(c) /\ Hand(c) \cap off = {}
  BY <1>1, <1>2 DEF Hand, Appending, Removed, Linked, Apart
<1>4. PICK s : s = C[list[c]]
  OBVIOUS
<1>5. AppendOK(c, s)
  BY <1>4 DEF Linked
<1>6. AppendOK(c, s)' /\ RemoveOK(c, s)'
  BY <1>1, <1>2, <1>5 DEF AppendOK, RemoveOK, Appending
<1>7. AppendOK(c, C[list[c]])' /\ RemoveOK(c, C[list[c]])'
  BY <1>2, <1>4, <1>6
<1> QED
  BY <1>1, <1>2, <1>3, <1>7, QuietStep

LEMMA HeadLocksShape ==
  ASSUME L!TypeOK, CallersInv, NEW C \in [Lists -> Seq(Process)], Linked(C), NEW c \in Core, L!HeadLocks(c)
  PROVE  Linked(C)'
<1>1. Only(c) /\ pc[c] = "head" /\ pc'[c] = "unlink"
  BY HeadLocksKeeps
<1>2. UNCHANGED <<next, tail, wait, off, item, list, node, arg, prev>> /\ list'[c] \in Lists
  BY DEF L!HeadLocks, L!Locals, L!TypeOK
<1>3. Hand(c)' = {}
  BY <1>1, <1>2 DEF Hand, Appending, Removed
<1>4. PICK s : s = C[list[c]]
  OBVIOUS
<1>5. AppendOK(c, s)' /\ RemoveOK(c, s)'
  BY <1>1 DEF AppendOK, RemoveOK, Appending
<1>6. AppendOK(c, C[list[c]])' /\ RemoveOK(c, C[list[c]])'
  BY <1>2, <1>4, <1>5
<1> QED
  BY <1>1, <1>2, <1>3, <1>6, QuietStep

LEMMA HeadUnlocksShape ==
  ASSUME L!TypeOK, CallersInv, NEW C \in [Lists -> Seq(Process)], Linked(C), NEW c \in Core, L!HeadUnlocks(c)
  PROVE  Linked(C)'
<1>1. Only(c) /\ pc[c] = "unlock2" /\ pc'[c] = "droptail"
  BY HeadUnlocksKeeps
<1>2. UNCHANGED <<next, tail, wait, off, item, list, node, arg, prev>> /\ list'[c] \in Lists
  BY DEF L!HeadUnlocks, L!Locals, L!TypeOK
<1>3. Hand(c)' = Hand(c) /\ Hand(c) \cap off = {}
  BY <1>1, <1>2 DEF Hand, Appending, Removed, Linked, Apart
<1>4. PICK s : s = C[list[c]]
  OBVIOUS
<1>5. RemoveOK(c, s)
  BY <1>4 DEF Linked
<1>6. AppendOK(c, s)' /\ RemoveOK(c, s)'
  BY <1>1, <1>2, <1>5 DEF AppendOK, RemoveOK, Appending
<1>7. AppendOK(c, C[list[c]])' /\ RemoveOK(c, C[list[c]])'
  BY <1>2, <1>4, <1>6
<1> QED
  BY <1>1, <1>2, <1>3, <1>7, QuietStep

(* A core in remove_list is at place k, and nobody up to there waits for arg. *)
Reached(c, s, k) ==
  /\ prev[c] = At(list[c], s, k)
  /\ next[prev[c]] = IF k = Len(s) THEN Nil ELSE s[k + 1]
  /\ \A j \in 1..k : wait[s[j]] # arg[c]

LEMMA SearchAt ==
  ASSUME L!TypeOK, NEW C \in [Lists -> Seq(Process)], Linked(C), NEW c \in Core, pc[c] = "search",
         NEW s, s = C[list[c]]
  PROVE  \E k \in 0..Len(s) : Reached(c, s, k)
<1>1. list[c] \in Lists
  BY DEF L!TypeOK
<1>2. Chained(next, list[c], s) /\ RemoveOK(c, s)
  BY <1>1 DEF Linked, Chains
<1>3. PICK k \in 0..Len(s) : prev[c] = At(list[c], s, k) /\ \A j \in 1..k : wait[s[j]] # arg[c]
  BY <1>2 DEF RemoveOK
<1>4. next[prev[c]] = IF k = Len(s) THEN Nil ELSE s[k + 1]
  BY <1>2, <1>3 DEF Chained
<1> QED
  BY <1>3, <1>4 DEF Reached

LEMMA SearchGoesOnShape ==
  ASSUME L!TypeOK, CallersInv, NEW C \in [Lists -> Seq(Process)], Linked(C), NEW c \in Core,
         L!SearchStep(c), GoesOn(c)
  PROVE  Linked(C)'
<1>1. /\ Only(c) /\ pc[c] = "search" /\ prev'[c] = next[prev[c]]
      /\ UNCHANGED <<next, tail, item, pc, list, arg>>
  BY SearchGoesOn
<1>2. UNCHANGED <<wait, off>> /\ list[c] \in Lists
  BY DEF L!SearchStep, L!TypeOK
<1>3. Hand(c)' = {}
  BY <1>1 DEF Hand, Appending, Removed
<1>4. PICK s \in Seq(Process) : s = C[list[c]]
  BY <1>2
<1>5. PICK k \in 0..Len(s) : Reached(c, s, k)
  BY <1>1, <1>4, SearchAt
<1>12. /\ prev[c] = At(list[c], s, k) /\ next[prev[c]] = IF k = Len(s) THEN Nil ELSE s[k + 1]
       /\ \A j \in 1..k : wait[s[j]] # arg[c]
  BY <1>5 DEF Reached
<1>6. k # Len(s) /\ k + 1 \in 0..Len(s) /\ next[prev[c]] = s[k + 1] /\ wait[s[k + 1]] # arg[c]
  BY <1>12 DEF GoesOn
<1>7. prev'[c] = At(list'[c], s, k + 1)
  BY <1>1, <1>5, <1>6 DEF At
<1>8. \A j \in 1..k + 1 : wait'[s[j]] # arg'[c]
  <2>1. \A j \in 1..k + 1 : j \in 1..k \/ j = k + 1
    BY <1>5
  <2> QED
    BY <1>1, <1>2, <1>12, <1>6, <2>1
<1>9. RemoveOK(c, s)'
  <2>1. \E m \in 0..Len(s) : prev'[c] = At(list'[c], s, m) /\ \A j \in 1..m : wait'[s[j]] # arg'[c]
    BY <1>6, <1>7, <1>8
  <2> QED
    BY <1>1, <2>1 DEF RemoveOK
<1>10. AppendOK(c, s)'
  BY <1>1 DEF AppendOK, Appending
<1>11. AppendOK(c, C[list[c]])' /\ RemoveOK(c, C[list[c]])'
  BY <1>1, <1>4, <1>9, <1>10
<1> QED
  BY <1>1, <1>2, <1>3, <1>11, QuietStep
-----------------------------------------------------------------------------
(* The steps that store a pointer. *)

(* What a core in a call may use of its list. *)
LEMMA OwnList ==
  ASSUME L!TypeOK, CallersInv, NEW C \in [Lists -> Seq(Process)], Linked(C), NEW c \in Core, Busy(c),
         NEW l, l = list[c], NEW s, s = C[l]
  PROVE  /\ l \in Lists /\ s \in Seq(Process) /\ Chained(next, l, s) /\ Once(s)
         /\ Elems(s) \cap Hand(c) = {} /\ Elems(s) \cap off = {} /\ Hand(c) \cap off = {}
         /\ next[l] = Nil <=> s = <<>>
         /\ pc[c] \notin {"settail", "fixtail"} => LastOf(s, tail[l])
         /\ AppendOK(c, s) /\ RemoveOK(c, s)
<1>1. l \in Lists /\ s \in Seq(Process)
  BY DEF L!TypeOK
<1>2. Chained(next, l, s) /\ Once(s)
  BY <1>1 DEF Linked, Chains
<1>3. Elems(s) \cap Hand(c) = {} /\ Elems(s) \cap off = {} /\ Hand(c) \cap off = {}
  BY <1>1 DEF Linked, Apart
<1>4. next[l] = Nil <=> s = <<>>
  <2>1. 0 \in 0..Len(s) /\ At(l, s, 0) = l
    BY <1>1 DEF At
  <2>2. next[l] = IF 0 = Len(s) THEN Nil ELSE s[0 + 1]
    BY <1>2, <2>1 DEF Chained
  <2>3. s # <<>> => s[1] \in Process /\ Len(s) # 0
    BY <1>1
  <2> QED
    BY <1>1, <2>2, <2>3, ListFacts
<1>5. pc[c] \notin {"settail", "fixtail"} => LastOf(s, tail[l])
  <2> SUFFICES ASSUME pc[c] \notin {"settail", "fixtail"} PROVE LastOf(s, tail[l])
    OBVIOUS
  <2>1. ASSUME NEW d \in Core, list[d] = l PROVE pc[d] \notin {"settail", "fixtail"}
    <3>1. CASE d = c
      BY <3>1
    <3>2. CASE d # c
      BY <2>1, <3>2, Exclusive DEF Busy
    <3> QED
      BY <3>1, <3>2
  <2> QED
    BY <1>1, <2>1 DEF Linked, TailsInv
<1>6. AppendOK(c, s) /\ RemoveOK(c, s)
  BY DEF Linked
<1> QED
  BY <1>1, <1>2, <1>3, <1>4, <1>5, <1>6

(* A step of c that changes no list, if it may change next of what it holds, or its tail. *)
LEMMA SameLists ==
  ASSUME L!TypeOK, CallersInv, NEW C \in [Lists -> Seq(Process)], Linked(C), NEW c \in Core, Only(c), Busy(c),
         NEW l, l = list[c], NEW s, s = C[l], list' = list, wait' = wait,
         \A m \in Lists : m # l => tail'[m] = tail[m],
         \A x \in Lists \cup Process : x \notin Hand(c) => next'[x] = next[x],
         Hand(c)' \cup off' \subseteq Hand(c) \cup off, Hand(c)' \cap off' = {},
         pc'[c] \notin {"settail", "fixtail"} => LastOf(s, tail'[l]),
         AppendOK(c, s)', RemoveOK(c, s)'
  PROVE  Linked(C)'
<1>1. /\ l \in Lists /\ s \in Seq(Process) /\ Chained(next, l, s) /\ Once(s)
      /\ Elems(s) \cap Hand(c) = {} /\ Elems(s) \cap off = {}
  BY OwnList
<1>2. Elems(s) \subseteq Process /\ Hand(c) \subseteq Process /\ l \notin Process
  BY <1>1, ListFacts DEF Elems, Hand
<1>3. \A x \in {l} \cup Elems(s) : next'[x] = next[x]
  BY <1>1, <1>2
<1>4. PICK ny : ny = next'
  OBVIOUS
<1>5. PICK nx : nx = next
  OBVIOUS
<1>6. Chained(nx, l, s) /\ \A x \in {l} \cup Elems(s) : ny[x] = nx[x]
  BY <1>1, <1>3, <1>4, <1>5
<1>7. Chained(ny, l, s)
  BY <1>1, <1>6, ChainFrame
<1>8. Chained(next', l, C[l])
  BY <1>4, <1>7
<1>9. Elems(s) \cap Hand(c)' = {} /\ Elems(s) \cap off' = {}
  BY <1>1
<1>10. AppendOK(c, C[list[c]])' /\ RemoveOK(c, C[list[c]])'
  OBVIOUS
<1> QED
  BY <1>1, <1>8, <1>9, <1>10, LinkStep

LEMMA AppendClearsShape ==
  ASSUME L!TypeOK, CallersInv, NEW C \in [Lists -> Seq(Process)], Linked(C), NEW c \in Core, L!AppendClears(c)
  PROVE  Linked(C)'
<1>1. Only(c) /\ Busy(c) /\ pc[c] = "clear" /\ pc'[c] = "link"
  BY AppendClearsKeeps
<1>2. PICK l : l = list[c]
  OBVIOUS
<1>3. PICK s : s = C[l]
  OBVIOUS
<1>4. LastOf(s, tail[l]) /\ AppendOK(c, s) /\ Hand(c) \cap off = {}
  BY <1>1, <1>2, <1>3, OwnList
<1>5. UNCHANGED <<tail, wait, off, item, list, node, arg, prev>> /\ next' = [next EXCEPT ![node[c]] = Nil]
  BY DEF L!AppendClears, L!Locals
<1>6. Hand(c)' = Hand(c) /\ node[c] \in Hand(c) /\ node[c] \in Process
  BY <1>1, <1>4, <1>5 DEF Hand, Appending, Removed, AppendOK
<1>7. next'[node[c]] = Nil /\ \A x \in Lists \cup Process : x \notin Hand(c) => next'[x] = next[x]
  BY <1>5, <1>6 DEF L!TypeOK
<1>8. AppendOK(c, s)' /\ RemoveOK(c, s)'
  BY <1>1, <1>4, <1>5, <1>7 DEF AppendOK, RemoveOK, Appending
<1> QED
  BY <1>1, <1>2, <1>3, <1>4, <1>5, <1>6, <1>7, <1>8, SameLists

LEMMA AppendSetsTailShape ==
  ASSUME L!TypeOK, CallersInv, NEW C \in [Lists -> Seq(Process)], Linked(C), NEW c \in Core, L!AppendSetsTail(c)
  PROVE  Linked(C)'
<1>1. Only(c) /\ Busy(c) /\ pc[c] = "settail" /\ pc'[c] = "unlock"
  BY AppendSetsTailKeeps
<1>2. PICK l : l = list[c]
  OBVIOUS
<1>3. PICK s : s = C[l]
  OBVIOUS
<1>4. AppendOK(c, s) /\ Hand(c) \cap off = {} /\ l \in Lists
  BY <1>1, <1>2, <1>3, OwnList
<1>5. UNCHANGED <<next, wait, off, item, list, node, arg, prev>> /\ tail' = [tail EXCEPT ![l] = node[c]]
  BY <1>2 DEF L!AppendSetsTail, L!Locals
<1>6. Hand(c)' = {}
  BY <1>1, <1>4, <1>5, ListFacts DEF Hand, Appending, Removed, AppendOK
<1>7. tail'[l] = node[c] /\ \A m \in Lists : m # l => tail'[m] = tail[m]
  BY <1>4, <1>5 DEF L!TypeOK
<1>8. LastOf(s, tail'[l])
  BY <1>1, <1>4, <1>7 DEF AppendOK, LastOf
<1>9. AppendOK(c, s)' /\ RemoveOK(c, s)'
  BY <1>1 DEF AppendOK, RemoveOK, Appending
<1> QED
  BY <1>1, <1>2, <1>3, <1>5, <1>6, <1>7, <1>8, <1>9, SameLists

LEMMA HeadDropsTailShape ==
  ASSUME L!TypeOK, CallersInv, NEW C \in [Lists -> Seq(Process)], Linked(C), NEW c \in Core, L!HeadDropsTail(c)
  PROVE  Linked(C)'
<1>1. Only(c) /\ Busy(c) /\ pc[c] = "droptail" /\ pc'[c] = "unlock"
  BY HeadDropsTailKeeps
<1>2. PICK l : l = list[c]
  OBVIOUS
<1>3. PICK s : s = C[l]
  OBVIOUS
<1>4. RemoveOK(c, s) /\ Hand(c) \cap off = {} /\ l \in Lists
  BY <1>1, <1>2, <1>3, OwnList
<1>5. UNCHANGED <<next, wait, off, item, list, node, arg, prev>> /\ tail' = [tail EXCEPT ![l] = Nil]
  BY <1>2 DEF L!HeadDropsTail, L!Locals
<1>6. Hand(c)' = Hand(c)
  BY <1>1, <1>5 DEF Hand, Appending, Removed
<1>7. \A m \in Lists : m # l => tail'[m] = tail[m]
  BY <1>5 DEF L!TypeOK
<1>8. LastOf(s, tail'[l])
  BY <1>1, <1>4 DEF RemoveOK, LastOf
<1>9. AppendOK(c, s)' /\ RemoveOK(c, s)'
  BY <1>1 DEF AppendOK, RemoveOK, Appending
<1> QED
  BY <1>1, <1>2, <1>3, <1>4, <1>5, <1>6, <1>7, <1>8, <1>9, SameLists

LEMMA FixTailShape ==
  ASSUME L!TypeOK, CallersInv, NEW C \in [Lists -> Seq(Process)], Linked(C), NEW c \in Core, L!FixTail(c)
  PROVE  Linked(C)'
<1>1. Only(c) /\ Busy(c) /\ pc[c] = "fixtail" /\ pc'[c] = "held"
  BY FixTailKeeps
<1>2. PICK l : l = list[c]
  OBVIOUS
<1>3. PICK s : s = C[l]
  OBVIOUS
<1>4. RemoveOK(c, s) /\ l \in Lists /\ (next[l] = Nil <=> s = <<>>)
  BY <1>1, <1>2, <1>3, OwnList
<1>5. /\ UNCHANGED <<next, wait, item, list, node, arg, prev>> /\ off' = off \cup ({item[c]} \cap Process)
      /\ tail' = [tail EXCEPT ![l] = IF next[l] = Nil THEN Nil
                                     ELSE IF next[item[c]] = Nil THEN prev[c] ELSE @]
  BY <1>2 DEF L!FixTail, L!Locals, L!HandOver, L!is_list_empty
<1>6. Hand(c)' = {} /\ off' \subseteq Hand(c) \cup off
  BY <1>1, <1>5 DEF Hand, Appending, Removed
<1>7. /\ \A m \in Lists : m # l => tail'[m] = tail[m]
      /\ tail'[l] = IF next[l] = Nil THEN Nil ELSE IF next[item[c]] = Nil THEN prev[c] ELSE tail[l]
  BY <1>4, <1>5 DEF L!TypeOK
<1>8. LastOf(s, tail'[l])
  BY <1>1, <1>2, <1>4, <1>7 DEF RemoveOK, LastOf
<1>9. AppendOK(c, s)' /\ RemoveOK(c, s)'
  BY <1>1 DEF AppendOK, RemoveOK, Appending
<1> QED
  BY <1>1, <1>2, <1>3, <1>5, <1>6, <1>7, <1>8, <1>9, SameLists
(* A step of c that makes t of its list. *)
LEMMA NewList ==
  ASSUME L!TypeOK, CallersInv, NEW C \in [Lists -> Seq(Process)], Linked(C), NEW c \in Core, Only(c), Busy(c),
         NEW l, l = list[c], NEW s, s = C[l], NEW t \in Seq(Process),
         UNCHANGED <<list, wait, tail, off>>,
         \A x \in Lists \cup Process : x \notin {l} \cup Elems(s) \cup Hand(c) => next'[x] = next[x],
         Chained(next', l, t), Once(t),
         Elems(t) \cup Hand(c)' \subseteq Elems(s) \cup Hand(c), Elems(t) \cap Hand(c)' = {},
         pc'[c] \notin {"settail", "fixtail"} => LastOf(t, tail[l]),
         AppendOK(c, t)', RemoveOK(c, t)'
  PROVE  [C EXCEPT ![l] = t] \in [Lists -> Seq(Process)] /\ Linked([C EXCEPT ![l] = t])'
<1>1. /\ l \in Lists /\ s \in Seq(Process)
      /\ Elems(s) \cap off = {} /\ Hand(c) \cap off = {}
  BY OwnList
<1>2. PICK D : D = [C EXCEPT ![l] = t]
  OBVIOUS
<1>3. D \in [Lists -> Seq(Process)] /\ D[l] = t /\ \A m \in Lists : m # l => D[m] = C[m]
  BY <1>1, <1>2
<1>4. Elems(t) \cap off' = {} /\ Hand(c)' \cap off' = {}
  BY <1>1
<1>5. Elems(t) \cup Hand(c)' \cup off' \subseteq Elems(s) \cup Hand(c) \cup off
  OBVIOUS
<1>6. AppendOK(c, D[list[c]])' /\ RemoveOK(c, D[list[c]])'
  BY <1>3
<1>7. Linked(D)'
  BY <1>1, <1>3, <1>4, <1>5, <1>6, LinkStep, SMTT(30)
<1> QED
  BY <1>2, <1>3, <1>7

LEMMA AppendLinksShape ==
  ASSUME L!TypeOK, CallersInv, NEW C \in [Lists -> Seq(Process)], Linked(C), NEW c \in Core, L!AppendLinks(c),
         NEW l, l = list[c], NEW p, p = node[c], NEW t, t = Append(C[l], p)
  PROVE  p \in Process /\ [C EXCEPT ![l] = t] \in [Lists -> Seq(Process)] /\ Linked([C EXCEPT ![l] = t])'
<1>1. Only(c) /\ Busy(c) /\ pc[c] = "link" /\ pc'[c] = "settail"
  BY AppendLinksKeeps
<1>2. PICK s : s = C[l]
  OBVIOUS
<1>3. /\ l \in Lists /\ s \in Seq(Process) /\ Chained(next, l, s) /\ Once(s)
      /\ Elems(s) \cap Hand(c) = {} /\ (next[l] = Nil <=> s = <<>>)
      /\ LastOf(s, tail[l]) /\ AppendOK(c, s)
  BY <1>1, <1>2, OwnList, SMTT(30)
<1>4. p \in Process /\ next[p] = Nil /\ item[c] = Pending /\ p \in Hand(c)
  BY <1>1, <1>3 DEF AppendOK, Appending, Hand
<1>5. /\ UNCHANGED <<tail, wait, off, item, list, node, arg, prev>>
      /\ next' = [next EXCEPT ![IF next[l] = Nil THEN l ELSE tail[l]] = p]
  BY DEF L!AppendLinks, L!Locals, L!is_list_empty
<1>6. (IF next[l] = Nil THEN l ELSE tail[l]) = At(l, s, Len(s))
  BY <1>3 DEF LastOf, At
<1>7. PICK nx : nx = next
  OBVIOUS
<1>8. PICK ny : ny = next'
  OBVIOUS
<1>9. /\ nx \in Pointers /\ Chained(nx, l, s) /\ p \notin Elems(s) /\ nx[p] = Nil
      /\ LinksLast(nx, ny, l, s, p)
  BY <1>3, <1>4, <1>5, <1>6, <1>7, <1>8 DEF L!TypeOK, Pointers, LinksLast
<1>10. t \in Seq(Process) /\ Chained(ny, l, t) /\ Once(t) /\ Elems(t) = Elems(s) \cup {p}
  <2>1. /\ Append(s, p) \in Seq(Process) /\ Chained(ny, l, Append(s, p)) /\ Once(Append(s, p))
        /\ Elems(Append(s, p)) = Elems(s) \cup {p}
    <3>1. l \in Lists /\ s \in Seq(Process) /\ Once(s) /\ p \in Process
      BY <1>3, <1>4
    <3> QED
      BY <1>9, <3>1, ChainAppend
  <2> QED
    BY <1>2, <2>1
<1>11. Chained(next', l, t)
  BY <1>8, <1>10
<1>12. At(l, s, Len(s)) \in {l} \cup Elems(s)
  <2>1. Len(s) \in 0..Len(s)
    BY <1>3
  <2> QED
    BY <1>3, <2>1, PlacesDiffer
<1>13. \A x \in Lists \cup Process : x \notin {l} \cup Elems(s) \cup Hand(c) => next'[x] = next[x]
  BY <1>5, <1>6, <1>12 DEF L!TypeOK
<1>14. Hand(c)' = {}
  BY <1>1 DEF Hand, Appending, Removed
<1>15. t # <<>> /\ t[Len(t)] = p
  BY <1>2, <1>3, <1>4
<1>16. AppendOK(c, t)' /\ RemoveOK(c, t)'
  BY <1>1, <1>4, <1>5, <1>15 DEF AppendOK, RemoveOK, Appending
<1>17. [C EXCEPT ![l] = t] \in [Lists -> Seq(Process)] /\ Linked([C EXCEPT ![l] = t])'
  <2>1. Elems(t) \cup Hand(c)' \subseteq Elems(s) \cup Hand(c) /\ Elems(t) \cap Hand(c)' = {}
    BY <1>4, <1>10, <1>14
  <2>2. UNCHANGED <<list, wait, tail, off>> /\ pc'[c] \in {"settail", "fixtail"}
    BY <1>1, <1>5
  <2>3. t \in Seq(Process) /\ Once(t) /\ Only(c) /\ Busy(c)
    BY <1>1, <1>10
  <2> QED
    BY <1>2, <1>11, <1>13, <1>16, <2>1, <2>2, <2>3, NewList
<1> QED
  BY <1>4, <1>17

LEMMA HeadFindsNoneShape ==
  ASSUME L!TypeOK, CallersInv, NEW C \in [Lists -> Seq(Process)], Linked(C), NEW c \in Core,
         L!HeadUnlinks(c), next[list[c]] = Nil
  PROVE  Linked(C)'
<1>1. Only(c) /\ Busy(c) /\ pc[c] = "unlink" /\ pc'[c] = "unlock" /\ item'[c] = Nil /\ next' = next
  BY HeadUnlinksKeeps
<1>2. PICK l : l = list[c]
  OBVIOUS
<1>3. PICK s : s = C[l]
  OBVIOUS
<1>4. LastOf(s, tail[l])
  BY <1>1, <1>2, <1>3, OwnList
<1>5. UNCHANGED <<tail, wait, off, list>>
  BY DEF L!HeadUnlinks, L!Locals
<1>6. Hand(c)' = {}
  BY <1>1, ListFacts DEF Hand, Appending, Removed
<1>7. AppendOK(c, s)' /\ RemoveOK(c, s)'
  BY <1>1 DEF AppendOK, RemoveOK, Appending
<1> QED
  BY <1>1, <1>2, <1>3, <1>4, <1>5, <1>6, <1>7, SameLists

LEMMA HeadUnlinksShape ==
  ASSUME L!TypeOK, CallersInv, NEW C \in [Lists -> Seq(Process)], Linked(C), NEW c \in Core, L!HeadUnlinks(c),
         next[list[c]] # Nil, NEW l, l = list[c], NEW t, t = Without(C[l], 1)
  PROVE  [C EXCEPT ![l] = t] \in [Lists -> Seq(Process)] /\ Linked([C EXCEPT ![l] = t])'
<1>1. /\ Only(c) /\ Busy(c) /\ pc[c] = "unlink" /\ item'[c] = next[l]
      /\ next' = [next EXCEPT ![l] = next[next[l]]]
      /\ pc'[c] = IF next[next[l]] = Nil THEN "unlock2" ELSE "unlock"
  BY HeadUnlinksKeeps
<1>2. PICK s : s = C[l]
  OBVIOUS
<1>3. /\ l \in Lists /\ s \in Seq(Process) /\ Chained(next, l, s) /\ Once(s)
      /\ Elems(s) \cap Hand(c) = {} /\ s # <<>> /\ LastOf(s, tail[l])
  BY <1>1, <1>2, OwnList
<1>4. 1 \in 1..Len(s) /\ 0 \in 0..Len(s) /\ 1 \in 0..Len(s) /\ s[1] \in Process /\ At(l, s, 1 - 1) = l
  BY <1>3 DEF At
<1>5. next[l] = s[1] /\ (next[s[1]] = Nil <=> Len(s) = 1)
  <2>1. At(l, s, 0) = l /\ At(l, s, 1) = s[1] /\ Len(s) # 0 /\ Len(s) \in Nat
    BY <1>3 DEF At
  <2>2. next[l] = s[1]
    BY <1>3, <1>4, <2>1 DEF Chained
  <2>3. next[s[1]] = IF 1 = Len(s) THEN Nil ELSE s[1 + 1]
    BY <1>3, <1>4, <2>1 DEF Chained
  <2>5. Len(s) # 1 => 1 + 1 \in 1..Len(s)
    <3>1. \A n \in Nat : n # 0 /\ n # 1 => 1 + 1 \in 1..n
      OBVIOUS
    <3> QED
      BY <2>1, <3>1
  <2>4. Len(s) # 1 => s[1 + 1] \in Process
    BY <1>3, <2>5
  <2> QED
    BY <2>2, <2>3, <2>4, ListFacts
<1>6. /\ t \in Seq(Process) /\ Len(t) = Len(s) - 1 /\ Once(t) /\ Elems(t) = Elems(s) \ {s[1]}
  BY <1>2, <1>3, <1>4, WithoutIs
<1>7. PICK nx : nx = next
  OBVIOUS
<1>8. PICK ny : ny = next'
  OBVIOUS
<1>9. nx \in Pointers /\ Chained(nx, l, s) /\ ny = [nx EXCEPT ![At(l, s, 1 - 1)] = nx[s[1]]]
  BY <1>1, <1>3, <1>4, <1>5, <1>7, <1>8 DEF L!TypeOK, Pointers
<1>10. Chained(ny, l, Without(s, 1))
  BY <1>3, <1>4, <1>9, ChainRemove
<1>11. Chained(next', l, t)
  BY <1>2, <1>8, <1>10
<1>12. UNCHANGED <<tail, wait, off, list>>
  BY DEF L!HeadUnlinks, L!Locals
<1>13. \A x \in Lists \cup Process : x \notin {l} \cup Elems(s) \cup Hand(c) => next'[x] = next[x]
  BY <1>1 DEF L!TypeOK
<1>14. Hand(c)' = {s[1]} /\ s[1] \in Elems(s)
  BY <1>1, <1>4, <1>5 DEF Hand, Appending, Removed, Elems
<1>15. LastOf(t, tail[l])
  <2> SUFFICES ASSUME t # <<>> PROVE t[Len(t)] = tail[l]
    BY DEF LastOf
  <2>1. Len(t) \in 1..Len(s) - 1 /\ ~ (Len(t) < 1) /\ Len(t) + 1 = Len(s)
    BY <1>3, <1>6
  <2>2. t[Len(t)] = s[Len(t) + 1]
    BY <1>2, <2>1 DEF Without
  <2> QED
    BY <1>3, <2>1, <2>2 DEF LastOf
<1>16. pc'[c] = "unlock2" => t = <<>>
  <2>1. \A u \in Seq(Process) : Len(u) = 0 => u = <<>>
    OBVIOUS
  <2>2. pc'[c] = "unlock2" => Len(t) = 0
    <3>1. pc'[c] = "unlock2" => next[next[l]] = Nil
      BY <1>1
    <3>2. pc'[c] = "unlock2" => Len(s) = 1
      BY <1>5, <3>1
    <3>3. Len(s) = 1 => Len(t) = 0
      BY <1>6
    <3> QED
      BY <3>2, <3>3, Zenon
  <2> QED
    BY <1>6, <2>1, <2>2
<1>17. AppendOK(c, t)' /\ RemoveOK(c, t)'
  BY <1>1, <1>16 DEF AppendOK, RemoveOK, Appending
<1>18. Elems(t) \cup Hand(c)' \subseteq Elems(s) \cup Hand(c) /\ Elems(t) \cap Hand(c)' = {}
  BY <1>6, <1>14
<1>19. t \in Seq(Process) /\ Once(t) /\ Only(c) /\ Busy(c)
  BY <1>1, <1>6
<1> QED
  BY <1>2, <1>11, <1>12, <1>13, <1>15, <1>17, <1>18, <1>19, NewList

(* The step takes place k + 1 out of the list s of c, and nobody before it waits for arg. *)
TakesOut(c, C, l, s, k) ==
  /\ Reached(c, s, k) /\ k + 1 \in 1..Len(s) /\ next[prev[c]] = s[k + 1]
  /\ [C EXCEPT ![l] = Without(s, k + 1)] \in [Lists -> Seq(Process)]
  /\ Linked([C EXCEPT ![l] = Without(s, k + 1)])'

LEMMA SearchFindsShape ==
  ASSUME L!TypeOK, CallersInv, NEW C \in [Lists -> Seq(Process)], Linked(C), NEW c \in Core,
         L!SearchStep(c), Matches(c), NEW l, l = list[c],
         NEW s, s = C[l]
  PROVE  \E k \in 0..Len(s) : TakesOut(c, C, l, s, k)
<1>1. /\ Only(c) /\ Busy(c) /\ pc[c] = "search" /\ pc'[c] = "fixtail"
      /\ item' = [item EXCEPT ![c] = next[prev[c]]] /\ UNCHANGED <<tail, prev>>
      /\ next' = [next EXCEPT ![prev[c]] = next[next[prev[c]]]]
  BY SearchFinds
<1>3. /\ l \in Lists /\ s \in Seq(Process) /\ Chained(next, l, s) /\ Once(s)
      /\ Elems(s) \cap Hand(c) = {} /\ LastOf(s, tail[l])
  BY <1>1, OwnList
<1>0. PICK k \in 0..Len(s) : Reached(c, s, k)
  BY <1>1, SearchAt
<1>2. PICK t : t = Without(s, k + 1)
  OBVIOUS
<1>4. prev[c] = At(l, s, k) /\ next[prev[c]] = IF k = Len(s) THEN Nil ELSE s[k + 1]
  BY <1>0 DEF Reached
<1>5. /\ k \in 0..Len(s) /\ k + 1 \in 1..Len(s) /\ k + 1 \in 0..Len(s) /\ next[prev[c]] = s[k + 1]
      /\ (k + 1) - 1 = k /\ s[k + 1] \in Process
  BY <1>0, <1>3, <1>4 DEF Matches
<1>6. /\ t \in Seq(Process) /\ Len(t) = Len(s) - 1 /\ Once(t) /\ Elems(t) = Elems(s) \ {s[k + 1]}
  BY <1>2, <1>3, <1>5, WithoutIs
<1>7. PICK nx : nx = next
  OBVIOUS
<1>8. PICK ny : ny = next'
  OBVIOUS
<1>9. nx \in Pointers /\ Chained(nx, l, s) /\ ny = [nx EXCEPT ![At(l, s, (k + 1) - 1)] = nx[s[k + 1]]]
  BY <1>1, <1>3, <1>4, <1>5, <1>7, <1>8 DEF L!TypeOK, Pointers
<1>10. Chained(ny, l, Without(s, k + 1))
  BY <1>3, <1>5, <1>9, ChainRemove
<1>11. Chained(next', l, t)
  BY <1>2, <1>8, <1>10
<1>12. UNCHANGED <<tail, wait, off, list, arg>>
  BY DEF L!SearchStep
<1>13. /\ At(l, s, k) \in {l} \cup Elems(s) /\ At(l, s, k + 1) = s[k + 1]
       /\ At(l, s, k + 1) # At(l, s, k)
  <2>1. k + 1 # 0 /\ k + 1 # k
    BY <1>5
  <2>2. At(l, s, k + 1) = s[k + 1]
    BY <2>1 DEF At
  <2> QED
    BY <1>3, <1>5, <2>1, <2>2, PlacesDiffer
<1>14. \A x \in Lists \cup Process : x \notin {l} \cup Elems(s) \cup Hand(c) => next'[x] = next[x]
  BY <1>1, <1>4, <1>13 DEF L!TypeOK
<1>15. item'[c] = s[k + 1] /\ Hand(c)' = {s[k + 1]} /\ s[k + 1] \in Elems(s)
  BY <1>1, <1>5 DEF Hand, Appending, Removed, Elems, L!TypeOK
<1>16. next'[s[k + 1]] = next[s[k + 1]]
  BY <1>1, <1>4, <1>5, <1>13 DEF L!TypeOK
<1>17. next[s[k + 1]] = Nil <=> k + 1 = Len(s)
  <2>1. next[s[k + 1]] = IF k + 1 = Len(s) THEN Nil ELSE s[k + 1 + 1]
    BY <1>3, <1>5, <1>13 DEF Chained
  <2>2. k + 1 # Len(s) => s[k + 1 + 1] \in Process
    BY <1>3, <1>5
  <2> QED
    BY <2>1, <2>2, ListFacts
<1>18. k + 1 = Len(s) => LastOf(t, prev[c])
  <2> SUFFICES ASSUME k + 1 = Len(s), t # <<>> PROVE t[Len(t)] = prev[c]
    BY DEF LastOf
  <2>1. Len(t) = k /\ k \in 1..Len(s) - 1 /\ k < k + 1 /\ k # 0
    BY <1>3, <1>5, <1>6
  <2>2. t[k] = s[k]
    BY <1>2, <2>1 DEF Without
  <2> QED
    BY <1>4, <2>1, <2>2 DEF At
<1>19. k + 1 # Len(s) => LastOf(t, tail[l])
  <2> SUFFICES ASSUME k + 1 # Len(s) PROVE t[Len(t)] = tail[l]
    BY DEF LastOf
  <2>1. Len(t) \in 1..Len(s) - 1 /\ ~ (Len(t) < k + 1) /\ Len(t) + 1 = Len(s) /\ s # <<>>
    BY <1>3, <1>5, <1>6
  <2>2. t[Len(t)] = s[Len(t) + 1]
    BY <1>2, <2>1 DEF Without
  <2> QED
    BY <1>3, <2>1, <2>2 DEF LastOf
<1>20. AppendOK(c, t)'
  BY <1>1 DEF AppendOK, Appending
<1>21. RemoveOK(c, t)'
  <2>1. /\ item'[c] \in Process
        /\ next'[item'[c]] = Nil => LastOf(t, prev'[c])
        /\ next'[item'[c]] # Nil => LastOf(t, tail'[list'[c]])
    BY <1>1, <1>5, <1>12, <1>15, <1>16, <1>17, <1>18, <1>19
  <2> QED
    BY <1>1, <2>1 DEF RemoveOK, LastOf
<1>22. Elems(t) \cup Hand(c)' \subseteq Elems(s) \cup Hand(c) /\ Elems(t) \cap Hand(c)' = {}
  BY <1>6, <1>15
<1>23. [C EXCEPT ![l] = t] \in [Lists -> Seq(Process)] /\ Linked([C EXCEPT ![l] = t])'
  BY <1>1, <1>6, <1>11, <1>12, <1>14, <1>20, <1>21, <1>22, NewList
<1>24. TakesOut(c, C, l, s, k)
  BY <1>0, <1>2, <1>5, <1>23 DEF TakesOut
<1> QED
  BY <1>24
-----------------------------------------------------------------------------
(* The lists as the abstract specification sees them. *)

Content == [l \in Lists |-> L!From(l)]

LEMMA ContentIs ==
  ASSUME NEW C \in [Lists -> Seq(Process)], Chains(C)
  PROVE  Content = C
<1>1. ASSUME NEW l \in Lists PROVE L!From(l) = C[l]
  <2>1. PICK nx : nx = next
    OBVIOUS
  <2>2. PICK s \in Seq(Process) : s = C[l]
    OBVIOUS
  <2>3. Chained(nx, l, s) /\ Once(s)
    BY <2>1, <2>2 DEF Chains
  <2>4. WalkOf(nx, l) = s
    BY <2>3, WalkMeetsAll
  <2> QED
    BY <2>1, <2>2, <2>4, FromIsWalk
<1> QED
  BY <1>1 DEF Content

LEMMA ContentNext ==
  ASSUME NEW C \in [Lists -> Seq(Process)], Chains(C)'
  PROVE  Content' = C
<1>1. ASSUME NEW l \in Lists PROVE L!From(l)' = C[l]
  <2>1. PICK nx : nx = next'
    OBVIOUS
  <2>2. PICK s \in Seq(Process) : s = C[l]
    OBVIOUS
  <2>3. Chained(nx, l, s) /\ Once(s)
    BY <2>1, <2>2 DEF Chains
  <2>4. WalkOf(nx, l) = s
    BY <2>3, WalkMeetsAll
  <2> QED
    BY <2>1, <2>2, <2>4, FromIsWalk
<1>2. Content' = [l \in Lists |-> L!From(l)']
  BY DEF Content
<1> QED
  BY <1>1, <1>2

Same == Content' = Content /\ item' = item

LEMMA SameQueues == ASSUME Same PROVE UNCHANGED L!Q!queues
BY DEF Same, Content, L!Q!queues

LEMMA BeginsCall ==
  ASSUME NEW c \in Core, item' = [item EXCEPT ![c] = Pending], Content' = Content
  PROVE  L!Q!Step
<1>1. L!Q!Begin(c)
  BY DEF L!Q!Begin, L!Q!Returns, Content
<1> QED
  BY <1>1 DEF L!Q!Step

LEMMA AppendsTail ==
  ASSUME NEW l \in Lists, NEW p \in Process, Content' = [Content EXCEPT ![l] = Append(Content[l], p)],
         wait' = wait, item' = item
  PROVE  L!Q!Step
<1>1. L!Q!Append_tail(l, p)
  BY DEF L!Q!Append_tail, Content
<1> QED
  BY <1>1 DEF L!Q!Step

LEMMA RemovesHead ==
  ASSUME NEW c \in Core, NEW l \in Lists, Content[l] # <<>>, item' = [item EXCEPT ![c] = Head(Content[l])],
         Content' = [Content EXCEPT ![l] = Tail(Content[l])], wait' = wait
  PROVE  L!Q!Step
<1>1. L!Q!Remove_head(c, l)
  BY DEF L!Q!Remove_head, L!Q!Returns, Content
<1> QED
  BY <1>1 DEF L!Q!Step

LEMMA FindsNone ==
  ASSUME NEW c \in Core, NEW l \in Lists, Content[l] = <<>>, item' = [item EXCEPT ![c] = Nil],
         Content' = Content, wait' = wait
  PROVE  L!Q!Step
<1>1. L!Q!Find_none(c, l)
  BY DEF L!Q!Find_none, L!Q!Returns, Content
<1> QED
  BY <1>1 DEF L!Q!Step

LEMMA FindsNoMatch ==
  ASSUME NEW c \in Core, NEW l \in Lists, NEW w \in Event,
         \A k \in DOMAIN Content[l] : wait[Content[l][k]] # w,
         item' = [item EXCEPT ![c] = Nil], Content' = Content, wait' = wait
  PROVE  L!Q!Step
<1>1. L!Q!Find_no_match(c, l, w)
  BY DEF L!Q!Find_no_match, L!Q!Returns, L!Q!ToSet, Content
<1> QED
  BY <1>1 DEF L!Q!Step

LEMMA RemovesFirst ==
  ASSUME NEW c \in Core, NEW l \in Lists, NEW w \in Event, NEW s \in Seq(Process), s = Content[l],
         NEW k \in 1..Len(s), wait[s[k]] = w, \A j \in 1..k - 1 : wait[s[j]] # w,
         item' = [item EXCEPT ![c] = s[k]], wait' = wait,
         Content' = [Content EXCEPT ![l] = SubSeq(s, 1, k - 1) \o SubSeq(s, k + 1, Len(s))]
  PROVE  L!Q!Step
<1> DEFINE I == {j \in 1..Len(s) : wait[s[j]] = w}
<1>1. k \in I /\ \A j \in I : k <= j
  OBVIOUS
<1>2. L!Q!Min(I) = k
  <2>1. \A j \in I : (\A m \in I : j <= m) => j = k
    BY <1>1
  <2> QED
    BY <1>1, <2>1 DEF L!Q!Min
<1>3. L!Q!SelectInSeq(s, LAMBDA p : wait[p] = w) = k
  BY <1>1, <1>2 DEF L!Q!SelectInSeq
<1>4. k # 0 /\ L!Q!RemoveAt(s, k) = SubSeq(s, 1, k - 1) \o SubSeq(s, k + 1, Len(s))
  BY DEF L!Q!RemoveAt
<1>5. L!Q!Remove_first(c, l, w)
  BY <1>3, <1>4 DEF L!Q!Remove_first, L!Q!Returns, Content
<1> QED
  BY <1>5 DEF L!Q!Step

(* Two ways to leave out a place. *)
LEMMA WithoutFirst ==
  ASSUME NEW s \in Seq(Process), s # <<>>
  PROVE  Without(s, 1) = Tail(s)
<1>1. Len(s) \in Nat /\ Len(s) >= 1
  OBVIOUS
<1>2. Tail(s) \in Seq(Process) /\ Len(Tail(s)) = Len(s) - 1 /\ \A j \in 1..Len(s) - 1 : Tail(s)[j] = s[j + 1]
  BY HeadTailProperties
<1>3. Without(s, 1) \in Seq(Process) /\ Len(Without(s, 1)) = Len(s) - 1
  BY <1>1, WithoutIs
<1>4. \A j \in 1..Len(s) - 1 : Without(s, 1)[j] = s[j + 1]
  BY <1>1 DEF Without
<1> QED
  BY <1>2, <1>3, <1>4, SeqEqual

LEMMA WithoutCut ==
  ASSUME NEW s \in Seq(Process), NEW k \in 1..Len(s)
  PROVE  Without(s, k) = SubSeq(s, 1, k - 1) \o SubSeq(s, k + 1, Len(s))
<1> DEFINE a == SubSeq(s, 1, k - 1)
           b == SubSeq(s, k + 1, Len(s))
<1>1. /\ Len(s) \in Nat /\ k - 1 \in 0..Len(s) /\ k + 1 \in Nat \ {0} /\ Len(s) \in 0..Len(s)
      /\ 1 <= (k - 1) + 1 /\ k + 1 <= Len(s) + 1
  OBVIOUS
<1>2. a \in Seq(Process) /\ Len(a) = k - 1 /\ \A j \in 1..k - 1 : a[j] = s[j]
  <2>1. /\ a \in Seq(Process) /\ Len(a) = (k - 1) - 1 + 1
        /\ \A j \in 1..((k - 1) - 1 + 1) : a[j] = s[1 + j - 1]
    BY <1>1, Cut
  <2> QED
    BY <1>1, <2>1
<1>3. b \in Seq(Process) /\ Len(b) = Len(s) - k /\ \A j \in 1..Len(s) - k : b[j] = s[k + j]
  <2>1. /\ b \in Seq(Process) /\ Len(b) = Len(s) - (k + 1) + 1
        /\ \A j \in 1..(Len(s) - (k + 1) + 1) : b[j] = s[(k + 1) + j - 1]
    BY <1>1, Cut
  <2> QED
    BY <1>1, <2>1
<1> HIDE DEF a, b
<1>4. /\ a \o b \in Seq(Process) /\ Len(a \o b) = Len(s) - 1
      /\ \A j \in 1..Len(a) : (a \o b)[j] = a[j]
      /\ \A j \in Len(a) + 1..Len(a) + Len(b) : (a \o b)[j] = b[j - Len(a)]
  <2>1. a \in Seq(Process) /\ b \in Seq(Process)
    BY <1>2, <1>3
  <2>2. /\ a \o b \in Seq(Process) /\ Len(a \o b) = Len(a) + Len(b)
        /\ \A j \in 1..Len(a) : (a \o b)[j] = a[j]
        /\ \A j \in Len(a) + 1..Len(a) + Len(b) : (a \o b)[j] = b[j - Len(a)]
    BY <2>1, Joined
  <2>3. Len(a) + Len(b) = Len(s) - 1
    BY <1>1, <1>2, <1>3
  <2> QED
    BY <2>2, <2>3
<1>5. ASSUME NEW j \in 1..Len(s) - 1 PROVE (a \o b)[j] = Without(s, k)[j]
  <2>1. CASE j < k
    <3>1. j \in 1..k - 1
      BY <2>1
    <3> QED
      BY <1>2, <1>4, <2>1, <3>1 DEF Without
  <2>2. CASE ~ (j < k)
    <3>1. j \in Len(a) + 1..Len(a) + Len(b) /\ j - Len(a) = j - k + 1 /\ j - k + 1 \in 1..Len(s) - k
          /\ k + (j - k + 1) = j + 1
      BY <1>1, <1>2, <1>3, <2>2
    <3>2. (a \o b)[j] = s[j + 1]
      BY <1>3, <1>4, <3>1
    <3> QED
      BY <2>2, <3>2 DEF Without
  <2> QED
    BY <2>1, <2>2
<1>6. Without(s, k) \in Seq(Process) /\ Len(Without(s, k)) = Len(s) - 1
  BY WithoutIs
<1>7. Without(s, k) = a \o b
  BY <1>4, <1>5, <1>6, SeqEqual
<1> QED
  BY <1>7 DEF a, b
-----------------------------------------------------------------------------
(* Every step keeps the invariant, and is a step of the abstract lists or none. *)

Advance == ListsInv' /\ (L!Q!Step \/ UNCHANGED L!Q!queues)

LEMMA Kept ==
  ASSUME NEW C \in [Lists -> Seq(Process)], Linked(C), NEW D \in [Lists -> Seq(Process)],
         L!TypeOK', CallersInv', Linked(D)'
  PROVE  ListsInv' /\ Content = C /\ Content' = D
<1>1. Chains(C) /\ Chains(D)'
  BY DEF Linked
<1>2. Content = C /\ Content' = D
  BY <1>1, ContentIs, ContentNext
<1>3. ListsInv'
  BY DEF ListsInv
<1> QED
  BY <1>2, <1>3

LEMMA StaysSame ==
  ASSUME NEW C \in [Lists -> Seq(Process)], Linked(C), L!TypeOK', CallersInv', Linked(C)', item' = item
  PROVE  Advance
<1>1. ListsInv' /\ Same
  BY Kept DEF Same
<1> QED
  BY <1>1, SameQueues DEF Advance

LEMMA OnlyBegins ==
  ASSUME NEW C \in [Lists -> Seq(Process)], Linked(C), L!TypeOK', CallersInv', Linked(C)',
         NEW c \in Core, item' = [item EXCEPT ![c] = Pending]
  PROVE  Advance
<1>1. ListsInv' /\ Content' = Content
  BY Kept
<1> QED
  BY <1>1, BeginsCall DEF Advance

LEMMA CallAdvances ==
  ASSUME L!TypeOK, CallersInv, NEW C \in [Lists -> Seq(Process)], Linked(C), NEW c \in Core,
         \/ L!Enter(c) \/ L!Leave(c) \/ L!RemoveListHead(c)
         \/ \E p \in Process : L!Start(c, p)
         \/ \E l \in Lists, p \in Process : L!AppendReady(c, l, p)
         \/ \E l \in Lists, p \in Process, w \in Event : L!AppendWait(c, l, p, w)
         \/ \E l \in Lists, w \in Event : L!RemoveList(c, l, w)
  PROVE  Advance
<1>1. CASE L!Enter(c)
  <2>1. L!TypeOK' /\ CallersInv' /\ Linked(C)'
    BY <1>1, EnterKeeps, EnterShape
  <2>2. item' = item
    BY <1>1 DEF L!Enter
  <2> QED
    BY <2>1, <2>2, StaysSame
<1>2. CASE L!Leave(c)
  <2>1. L!TypeOK' /\ CallersInv' /\ Linked(C)'
    BY <1>2, LeaveKeeps, LeaveShape
  <2>2. item' = [item EXCEPT ![c] = Pending]
    BY <1>2 DEF L!Leave, L!Call
  <2> QED
    BY <2>1, <2>2, OnlyBegins
<1>3. CASE L!RemoveListHead(c)
  <2>1. L!TypeOK' /\ CallersInv' /\ Linked(C)'
    BY <1>3, RemoveHeadKeeps, RemoveHeadShape
  <2>2. item' = [item EXCEPT ![c] = Pending]
    BY <1>3 DEF L!RemoveListHead, L!Call
  <2> QED
    BY <2>1, <2>2, OnlyBegins
<1>4. ASSUME NEW p \in Process, L!Start(c, p) PROVE Advance
  <2>1. L!TypeOK' /\ CallersInv' /\ Linked(C)'
    BY <1>4, StartKeeps, StartShape
  <2>2. item' = [item EXCEPT ![c] = Pending]
    BY <1>4 DEF L!Start, L!Call
  <2> QED
    BY <2>1, <2>2, OnlyBegins
<1>5. ASSUME NEW l \in Lists, NEW p \in Process, L!AppendReady(c, l, p) PROVE Advance
  <2>1. L!TypeOK' /\ CallersInv' /\ Linked(C)'
    BY <1>5, AppendReadyKeeps, AppendReadyShape
  <2>2. item' = [item EXCEPT ![c] = Pending]
    BY <1>5 DEF L!AppendReady, L!Call
  <2> QED
    BY <2>1, <2>2, OnlyBegins
<1>6. ASSUME NEW l \in Lists, NEW p \in Process, NEW w \in Event, L!AppendWait(c, l, p, w) PROVE Advance
  <2>1. L!TypeOK' /\ CallersInv' /\ Linked(C)'
    BY <1>6, AppendWaitKeeps, AppendWaitShape
  <2>2. item' = [item EXCEPT ![c] = Pending]
    BY <1>6 DEF L!AppendWait, L!Call
  <2> QED
    BY <2>1, <2>2, OnlyBegins
<1>7. ASSUME NEW l \in Lists, NEW w \in Event, L!RemoveList(c, l, w) PROVE Advance
  <2>1. L!TypeOK' /\ CallersInv' /\ Linked(C)'
    BY <1>7, RemoveListKeeps, RemoveListShape
  <2>2. item' = [item EXCEPT ![c] = Pending]
    BY <1>7 DEF L!RemoveList, L!Call
  <2> QED
    BY <2>1, <2>2, OnlyBegins
<1> QED
  BY <1>1, <1>2, <1>3, <1>4, <1>5, <1>6, <1>7

LEMMA InnerAdvances ==
  ASSUME L!TypeOK, CallersInv, NEW C \in [Lists -> Seq(Process)], Linked(C), NEW c \in Core,
         \/ L!AppendLocks(c) \/ L!AppendClears(c) \/ L!AppendSetsTail(c) \/ L!Unlock(c)
         \/ L!HeadLocks(c) \/ L!HeadUnlocks(c) \/ L!HeadDropsTail(c) \/ L!FixTail(c)
  PROVE  Advance
<1>1. item' = item
  BY DEF L!AppendLocks, L!AppendClears, L!AppendSetsTail, L!Unlock, L!HeadLocks, L!HeadUnlocks,
         L!HeadDropsTail, L!FixTail
<1>2. L!TypeOK' /\ CallersInv' /\ Linked(C)'
  <2>1. CASE L!AppendLocks(c)
    BY <2>1, AppendLocksKeeps, AppendLocksShape
  <2>2. CASE L!AppendClears(c)
    BY <2>2, AppendClearsKeeps, AppendClearsShape
  <2>3. CASE L!AppendSetsTail(c)
    BY <2>3, AppendSetsTailKeeps, AppendSetsTailShape
  <2>4. CASE L!Unlock(c)
    BY <2>4, UnlockKeeps, UnlockShape
  <2>5. CASE L!HeadLocks(c)
    BY <2>5, HeadLocksKeeps, HeadLocksShape
  <2>6. CASE L!HeadUnlocks(c)
    BY <2>6, HeadUnlocksKeeps, HeadUnlocksShape
  <2>7. CASE L!HeadDropsTail(c)
    BY <2>7, HeadDropsTailKeeps, HeadDropsTailShape
  <2>8. CASE L!FixTail(c)
    BY <2>8, FixTailKeeps, FixTailShape
  <2> QED
    BY <2>1, <2>2, <2>3, <2>4, <2>5, <2>6, <2>7, <2>8
<1> QED
  BY <1>1, <1>2, StaysSame

LEMMA AppendAdvances ==
  ASSUME L!TypeOK, CallersInv, NEW C \in [Lists -> Seq(Process)], Linked(C), NEW c \in Core, L!AppendLinks(c)
  PROVE  Advance
<1>1. PICK l \in Lists : l = list[c]
  BY DEF L!TypeOK
<1>2. PICK p : p = node[c]
  OBVIOUS
<1>3. PICK t : t = Append(C[l], p)
  OBVIOUS
<1>4. PICK D : D = [C EXCEPT ![l] = t]
  OBVIOUS
<1>5. p \in Process /\ D \in [Lists -> Seq(Process)] /\ Linked(D)'
  BY <1>1, <1>2, <1>3, <1>4, AppendLinksShape
<1>6. L!TypeOK' /\ CallersInv'
  BY AppendLinksKeeps
<1>7. ListsInv' /\ Content = C /\ Content' = D
  BY <1>5, <1>6, Kept
<1>8. Content' = [Content EXCEPT ![l] = Append(Content[l], p)]
  BY <1>3, <1>4, <1>7
<1>9. wait' = wait /\ item' = item
  BY DEF L!AppendLinks
<1> QED
  BY <1>5, <1>7, <1>8, <1>9, AppendsTail DEF Advance

LEMMA HeadAdvances ==
  ASSUME L!TypeOK, CallersInv, NEW C \in [Lists -> Seq(Process)], Linked(C), NEW c \in Core, L!HeadUnlinks(c)
  PROVE  Advance
<1>1. PICK l \in Lists : l = list[c]
  BY DEF L!TypeOK
<1>2. PICK s \in Seq(Process) : s = C[l]
  OBVIOUS
<1>3. L!TypeOK' /\ CallersInv' /\ Busy(c)
  BY HeadUnlinksKeeps
<1>4. wait' = wait /\ item' = [item EXCEPT ![c] = next[l]]
  BY <1>1 DEF L!HeadUnlinks
<1>5. Chained(next, l, s) /\ (next[l] = Nil <=> s = <<>>)
  BY <1>1, <1>2, <1>3, OwnList
<1>6. CASE next[l] = Nil
  <2>1. Linked(C)'
    BY <1>1, <1>6, HeadFindsNoneShape
  <2>2. ListsInv' /\ Content = C /\ Content' = Content
    BY <1>3, <2>1, Kept
  <2>3. Content[l] = <<>> /\ item' = [item EXCEPT ![c] = Nil]
    BY <1>2, <1>4, <1>5, <1>6, <2>2
  <2> QED
    BY <1>4, <2>2, <2>3, FindsNone DEF Advance
<1>7. CASE next[l] # Nil
  <2>1. PICK t : t = Without(C[l], 1)
    OBVIOUS
  <2>2. PICK D : D = [C EXCEPT ![l] = t]
    OBVIOUS
  <2>3. D \in [Lists -> Seq(Process)] /\ Linked(D)'
    BY <1>1, <1>7, <2>1, <2>2, HeadUnlinksShape
  <2>4. ListsInv' /\ Content = C /\ Content' = D
    BY <1>3, <2>3, Kept
  <2>5. s # <<>> /\ next[l] = s[1]
    <3>1. s # <<>> /\ Len(s) # 0 /\ 0 \in 0..Len(s) /\ At(l, s, 0) = l
      BY <1>5, <1>7 DEF At
    <3> QED
      BY <1>5, <3>1 DEF Chained
  <2>6. t = Tail(s)
    BY <1>2, <2>1, <2>5, WithoutFirst
  <2>7. Content[l] # <<>> /\ Content' = [Content EXCEPT ![l] = Tail(Content[l])]
    BY <1>2, <2>2, <2>4, <2>5, <2>6
  <2>8. item' = [item EXCEPT ![c] = Head(Content[l])]
    BY <1>2, <1>4, <2>4, <2>5
  <2> QED
    BY <1>4, <2>4, <2>7, <2>8, RemovesHead DEF Advance
<1> QED
  BY <1>6, <1>7

LEMMA SearchAdvances ==
  ASSUME L!TypeOK, CallersInv, NEW C \in [Lists -> Seq(Process)], Linked(C), NEW c \in Core, L!SearchStep(c)
  PROVE  Advance
<1>1. PICK l \in Lists : l = list[c]
  BY DEF L!TypeOK
<1>2. PICK s \in Seq(Process) : s = C[l]
  OBVIOUS
<1>3. PICK w \in Event : w = arg[c]
  BY DEF L!TypeOK
<1>4. wait' = wait /\ pc[c] = "search"
  BY DEF L!SearchStep, L!Search, L!Goto
<1>5. PICK k \in 0..Len(s) : Reached(c, s, k)
  BY <1>1, <1>2, <1>4, SearchAt
<1>6. next[prev[c]] = (IF k = Len(s) THEN Nil ELSE s[k + 1]) /\ \A j \in 1..k : wait[s[j]] # w
  BY <1>3, <1>5 DEF Reached
<1>7. CASE Ends(c)
  <2>1. L!TypeOK' /\ CallersInv' /\ Linked(C)' /\ item' = [item EXCEPT ![c] = Nil]
    BY <1>7, SearchEnds, SearchEndsShape
  <2>2. ListsInv' /\ Content = C /\ Content' = Content
    BY <2>1, Kept
  <2>3. k = Len(s)
    <3>1. \A j \in 1..Len(s) : s[j] # Nil
      BY ListFacts
    <3>2. k # Len(s) => k + 1 \in 1..Len(s)
      BY <1>5
    <3> QED
      BY <1>6, <1>7, <3>1, <3>2 DEF Ends
  <2>4. \A j \in DOMAIN Content[l] : wait[Content[l][j]] # w
    BY <1>2, <1>6, <2>2, <2>3
  <2> QED
    BY <1>4, <2>1, <2>2, <2>4, FindsNoMatch DEF Advance
<1>8. CASE GoesOn(c)
  <2>1. L!TypeOK' /\ CallersInv' /\ Linked(C)' /\ item' = item
    BY <1>8, SearchGoesOn, SearchGoesOnShape
  <2> QED
    BY <2>1, StaysSame
<1>9. CASE Matches(c)
  <2>0. PICK n \in 0..Len(s) : TakesOut(c, C, l, s, n)
    BY <1>1, <1>2, <1>9, SearchFindsShape
  <2>1. PICK t : t = Without(s, n + 1)
    OBVIOUS
  <2>2. PICK D : D = [C EXCEPT ![l] = t]
    OBVIOUS
  <2>3. /\ n + 1 \in 1..Len(s) /\ next[prev[c]] = s[n + 1]
        /\ D \in [Lists -> Seq(Process)] /\ Linked(D)'
    BY <2>0, <2>1, <2>2 DEF TakesOut
  <2>4. L!TypeOK' /\ CallersInv' /\ item' = [item EXCEPT ![c] = s[n + 1]]
    BY <1>9, <2>3, SearchFinds
  <2>5. ListsInv' /\ Content = C /\ Content' = D
    BY <2>3, <2>4, Kept
  <2>6. PICK m \in 1..Len(s) : m = n + 1
    BY <2>3
  <2>7. wait[s[m]] = w /\ \A j \in 1..m - 1 : wait[s[j]] # w
    <3>1. wait[s[m]] = w
      BY <1>3, <1>9, <2>3, <2>6 DEF Matches
    <3>2. m - 1 = n
      BY <2>0, <2>6
    <3> QED
      BY <1>3, <2>0, <3>1, <3>2 DEF TakesOut, Reached
  <2>8. t = SubSeq(s, 1, m - 1) \o SubSeq(s, m + 1, Len(s))
    BY <2>1, <2>6, WithoutCut
  <2>9. Content' = [Content EXCEPT ![l] = SubSeq(s, 1, m - 1) \o SubSeq(s, m + 1, Len(s))]
    BY <2>2, <2>5, <2>8
  <2>10. s = Content[l] /\ item' = [item EXCEPT ![c] = s[m]]
    BY <1>2, <2>4, <2>5, <2>6
  <2>11. L!Q!Step
    BY <1>4, <2>7, <2>9, <2>10, RemovesFirst
  <2> QED
    BY <2>5, <2>11 DEF Advance
<1> QED
  BY <1>7, <1>8, <1>9 DEF Ends, GoesOn, Matches

LEMMA ListsAdvance ==
  ASSUME ListsInv, L!Next
  PROVE  Advance
<1>1. L!TypeOK /\ CallersInv
  BY DEF ListsInv
<1>2. PICK C \in [Lists -> Seq(Process)] : Linked(C)
  BY DEF ListsInv
<1>3. PICK c \in Core :
         \/ L!Enter(c) \/ L!Leave(c) \/ L!RemoveListHead(c)
         \/ L!append_list_tail(c) \/ L!remove_list_head(c) \/ L!remove_list(c) \/ L!Unlock(c)
         \/ \E p \in Process : L!Start(c, p)
         \/ \E l \in Lists, p \in Process : L!AppendReady(c, l, p)
         \/ \E l \in Lists, p \in Process, w \in Event : L!AppendWait(c, l, p, w)
         \/ \E l \in Lists, w \in Event : L!RemoveList(c, l, w)
  BY DEF L!Next
<1>4. CASE L!append_list_tail(c)
  BY <1>1, <1>2, <1>4, InnerAdvances, AppendAdvances DEF L!append_list_tail
<1>5. CASE L!remove_list_head(c)
  BY <1>1, <1>2, <1>5, InnerAdvances, HeadAdvances DEF L!remove_list_head
<1>6. CASE L!remove_list(c)
  BY <1>1, <1>2, <1>6, InnerAdvances, SearchAdvances DEF L!remove_list
<1>7. CASE L!Unlock(c)
  BY <1>1, <1>2, <1>7, InnerAdvances
<1> QED
  BY <1>1, <1>2, <1>3, <1>4, <1>5, <1>6, <1>7, CallAdvances

LEMMA ListsBegin ==
  ASSUME L!Init
  PROVE  ListsInv /\ L!Q!Init
<1> DEFINE C == [l \in Lists |-> <<>>]
<1>1. C \in [Lists -> Seq(Process)]
  OBVIOUS
<1>2. L!TypeOK
  BY EventExists DEF L!Init, L!TypeOK, L!Labels, Lists
<1>3. \A c \in Core : pc[c] = "out" /\ Hand(c) = {} /\ ~ Busy(c)
  BY DEF L!Init, Hand, Appending, Removed, Busy
<1>4. CallersInv
  BY <1>3, ListFacts DEF CallersInv, L!Init
<1>5. \A l \in Lists : C[l] = <<>> /\ Elems(C[l]) = {} /\ Len(C[l]) = 0
  BY DEF Elems
<1> HIDE DEF C
<1>6. Chains(C)
  BY <1>5 DEF Chains, Chained, Once, At, L!Init
<1>7. Apart(C)
  BY <1>3, <1>5 DEF Apart
<1>8. TailsInv(C)
  BY <1>5 DEF TailsInv, LastOf
<1>9. \A c \in Core : AppendOK(c, C[list[c]]) /\ RemoveOK(c, C[list[c]])
  BY <1>3 DEF AppendOK, RemoveOK, Appending
<1>10. Linked(C)
  BY <1>6, <1>7, <1>8, <1>9 DEF Linked
<1>11. Content = C
  BY <1>1, <1>6, ContentIs
<1>12. L!Q!Init
  BY <1>11 DEF L!Q!Init, L!Init, Content, C
<1> QED
  BY <1>1, <1>2, <1>4, <1>10, <1>12 DEF ListsInv

(* The lists keep their invariant, and with it their types. *)
LEMMA ListsInvariance == MCSpec => []ListsInv
<1>1. MCInit => ListsInv
  BY ListsBegin DEF MCInit
<1>2. ListsInv /\ [MCNext]_mcvars => ListsInv'
  <2> SUFFICES ASSUME ListsInv, [MCNext]_mcvars PROVE ListsInv'
    OBVIOUS
  <2>1. CASE L!Next
    BY <2>1, ListsAdvance DEF Advance
  <2>2. CASE UNCHANGED lists
    <3>1. /\ next' = next /\ tail' = tail /\ wait' = wait /\ owner' = owner /\ started' = started
          /\ off' = off /\ pc' = pc /\ list' = list /\ node' = node /\ arg' = arg /\ item' = item
          /\ prev' = prev /\ list_lock' = list_lock
      BY <2>2 DEF lists
    <3>2. L!TypeOK' /\ CallersInv'
      BY <3>1 DEF ListsInv, L!TypeOK, CallersInv, Busy
    <3>3. PICK C \in [Lists -> Seq(Process)] : Linked(C)
      BY DEF ListsInv
    <3>4. \A c \in Core : Hand(c)' = Hand(c)
      BY <3>1 DEF Hand
    <3>5. Chains(C)' /\ Apart(C)' /\ TailsInv(C)'
      BY <3>1, <3>3, <3>4 DEF Linked, Chains, Apart, TailsInv
    <3>6. \A c \in Core : AppendOK(c, C[list[c]])' /\ RemoveOK(c, C[list[c]])'
      BY <3>1, <3>3 DEF Linked, AppendOK, RemoveOK
    <3>7. Linked(C)'
      BY <3>5, <3>6 DEF Linked
    <3> QED
      BY <3>2, <3>7 DEF ListsInv
  <2>3. L!Next \/ UNCHANGED lists
    BY DEF MCNext, mcvars
  <2> QED
    BY <2>1, <2>2, <2>3
<1> QED
  BY <1>1, <1>2, PTL DEF MCSpec

(***************************************************************************)
(* The process lists of lib.c implement queues: each call of               *)
(* append_list_tail, remove_list_head and remove_list takes effect in one  *)
(* of its stores, as on sequences, for any number of cores, lists,         *)
(* processes and events, although remove_list takes no list_lock and       *)
(* remove_list_head releases it twice.  Callers hold process_lock, or are  *)
(* in their start-up with a list of their own.                             *)
(***************************************************************************)
THEOREM ListsAreQueues == MCSpec => ImplementsQueues
<1>1. MCInit => L!Q!Init
  BY ListsBegin DEF MCInit
<1>2. ListsInv /\ [MCNext]_mcvars => [part = "lists" => L!Q!Step]_(L!Q!queues)
  <2> SUFFICES ASSUME ListsInv, [MCNext]_mcvars
               PROVE  (part = "lists" => L!Q!Step) \/ UNCHANGED L!Q!queues
    OBVIOUS
  <2>1. CASE L!Next
    BY <2>1, ListsAdvance DEF Advance
  <2>2. CASE UNCHANGED lists
    <3>1. next' = next /\ item' = item
      BY <2>2 DEF lists
    <3>2. Content' = Content
      BY <3>1, FromIsWalk DEF Content
    <3>3. Same
      BY <3>1, <3>2 DEF Same
    <3> QED
      BY <3>3, SameQueues
  <2>3. L!Next \/ UNCHANGED lists
    BY DEF MCNext, mcvars
  <2> QED
    BY <2>1, <2>2, <2>3
<1> QED
  BY <1>1, <1>2, ListsInvariance, PTL DEF MCSpec, ImplementsQueues
=============================================================================
