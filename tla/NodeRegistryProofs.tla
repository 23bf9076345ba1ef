------------------------- MODULE NodeRegistryProofs -------------------------
(***************************************************************************)
(* Proofs about NodeRegistry for every set of hosts, addresses and ids and *)
(* every sequence of .res entries.  First the loops over a list, which the *)
(* model writes as recursive functions: each has a run, and induction over *)
(* its steps (Climb, from the least element of a set of numbers) says what *)
(* it makes of its list.  Then the invariants: the types and what          *)
(* list_nodes writes for any number of requests at a time, the rest for    *)
(* requests that do not overlap (two that do lose updates).                *)
(***************************************************************************)
EXTENDS NodeRegistry, SequenceTheorems, WellFoundedInduction, TLAPS

(* The order of the natural numbers.                                        *)
Below == {p \in Nat \X Nat : p[1] < p[2]}

(* A set of natural numbers has a least element, and Min is that element.   *)
LEMMA LeastNatural ==
  ASSUME NEW T \in SUBSET Nat, T # {}
  PROVE  Min(T) \in T /\ \A k \in T : Min(T) <= k
<1>1. IsWellFoundedOn(Below, Nat)
  BY Zenon, NatLessThanWellFounded DEF OpToRel, Below
<1>2. PICK m \in T : \A k \in T : ~(<<k, m>> \in Below)
  BY <1>1, WFMin
<1>3. ASSUME NEW k \in T
      PROVE  m <= k
  <2>1. m \in Nat /\ k \in Nat /\ ~(<<k, m>> \in Below)
    BY <1>2
  <2>2. QED
    BY <2>1 DEF Below
<1>4. \E x \in T : \A y \in T : x <= y
  BY <1>3
<1>5. QED
  BY <1>4 DEF Min

(* What holds at 0 and goes on from each number to the next holds up to N.  *)
LEMMA Climb ==
  ASSUME NEW N \in Nat, NEW S, 0 \in S, \A k \in 1..N : k - 1 \in S => k \in S
  PROVE  \A k \in 0..N : k \in S
<1> DEFINE Out == {k \in 0..N : k \notin S}
<1>1. SUFFICES ASSUME Out # {}
               PROVE  FALSE
  OBVIOUS
<1>2. Out \in SUBSET Nat
  OBVIOUS
<1>3. Min(Out) \in Out /\ \A k \in Out : Min(Out) <= k
  BY <1>1, <1>2, LeastNatural
<1> DEFINE m == Min(Out)
<1>4. m \in 0..N /\ m \notin S /\ m # 0
  BY <1>3
<1>5. m - 1 \in 0..N /\ m \in 1..N /\ ~(m <= m - 1)
  BY <1>4
<1>6. m - 1 \in S
  BY <1>3, <1>5
<1>7. QED
  BY <1>4, <1>5, <1>6

(* The runs of a loop of N steps from base, whose step k is body[k, .].      *)
Bodies(N, A) == [(1..N) \X A -> A]
Runs(N, A, base, body) ==
  {f \in [0..N -> A] : f[0] = base /\ \A k \in 1..N : f[k] = body[<<k, f[k - 1]>>]}

LEMMA LoopRuns ==
  ASSUME NEW N \in Nat, NEW A, NEW base \in A, NEW body \in Bodies(N, A)
  PROVE  Runs(N, A, base, body) # {}
<1> DEFINE S == {n \in 0..N : Runs(n, A, base, body) # {}}
<1>1. 0 \in S
  <2>1. [k \in 0..0 |-> base] \in Runs(0, A, base, body)
    BY DEF Runs
  <2>2. QED
    BY <2>1
<1>2. ASSUME NEW n \in 1..N, n - 1 \in S
      PROVE  n \in S
  <2>1. PICK f \in [0..(n-1) -> A] :
          f[0] = base /\ \A k \in 1..(n-1) : f[k] = body[<<k, f[k - 1]>>]
    BY <1>2 DEF Runs
  <2> DEFINE h == [k \in 0..n |-> IF k = n THEN body[<<n, f[n - 1]>>] ELSE f[k]]
  <2>2. f[n - 1] \in A /\ body[<<n, f[n - 1]>>] \in A
    BY <2>1 DEF Bodies
  <2>3. h \in [0..n -> A]
    <3>1. \A k \in 0..n : k = n \/ k \in 0..(n-1)
      OBVIOUS
    <3>2. QED
      BY <2>1, <2>2, <3>1
  <2>4. h[0] = base
    BY <2>1
  <2>5. ASSUME NEW k \in 1..n
        PROVE  h[k] = body[<<k, h[k - 1]>>]
    <3>1. k - 1 \in 0..n /\ k - 1 # n /\ k \in 0..n
      OBVIOUS
    <3>2. h[k - 1] = f[k - 1]
      BY <3>1
    <3>3. CASE k = n
      BY <3>1, <3>2, <3>3
    <3>4. CASE k # n
      <4>1. k \in 1..(n-1)
        BY <3>4
      <4>2. h[k] = f[k]
        BY <3>1, <3>4
      <4>3. QED
        BY <2>1, <3>2, <4>1, <4>2
    <3>5. QED
      BY <3>3, <3>4
  <2>6. h \in Runs(n, A, base, body)
    BY <2>3, <2>4, <2>5 DEF Runs
  <2>7. n \in 0..N
    OBVIOUS
  <2>8. QED
    BY <2>6, <2>7
<1>3. N \in S
  <2> HIDE DEF S
  <2>1. \A k \in 1..N : k - 1 \in S => k \in S
    BY <1>2
  <2>2. \A k \in 0..N : k \in S
    BY <1>1, <2>1, Climb
  <2>3. QED
    BY <2>2
<1>4. QED
  BY <1>3

(* A run whose every step stays in A never leaves it.                       *)
LEMMA LoopStays ==
  ASSUME NEW N \in Nat, NEW A, NEW f, f[0] \in A,
         \A k \in 1..N : f[k - 1] \in A => f[k] \in A
  PROVE  \A k \in 0..N : f[k] \in A
<1> DEFINE S == {k \in 0..N : f[k] \in A}
<1>1. 0 \in S
  OBVIOUS
<1>2. \A k \in 1..N : k - 1 \in S => k \in S
  OBVIOUS
<1>3. \A k \in 0..N : k \in S
  <2> HIDE DEF S
  <2>1. QED
    BY <1>1, <1>2, Climb
<1>4. QED
  BY <1>3

Lists == Seq(NodeRec)

LEMMA ListFacts ==
  ASSUME NEW nodes \in Lists
  PROVE  /\ Len(nodes) \in Nat /\ DOMAIN nodes = 1..Len(nodes)
         /\ \A k \in DOMAIN nodes : nodes[k] \in NodeRec
         /\ ToSet(nodes) \subseteq NodeRec
         /\ \A K \in SUBSET DOMAIN nodes : K \in SUBSET Nat
BY DEF Lists, ToSet

(* t is nodes with n at one of the positions K, or after all others.         *)
PutAt(t, nodes, K, n) ==
  \E i \in DOMAIN t :
    /\ t[i] = n
    /\ IF K = {} THEN i \notin DOMAIN nodes ELSE i \in K
    /\ DOMAIN t = DOMAIN nodes \cup {i}
    /\ \A j \in DOMAIN nodes : j # i => t[j] = nodes[j]

LEMMA PutFacts ==
  ASSUME NEW nodes \in Lists, NEW K \in SUBSET DOMAIN nodes, NEW n \in NodeRec
  PROVE  Put(nodes, K, n) \in Lists /\ PutAt(Put(nodes, K, n), nodes, K, n)
<1>1. Len(nodes) \in Nat /\ DOMAIN nodes = 1..Len(nodes) /\ nodes \in Seq(NodeRec)
  BY ListFacts DEF Lists
<1>2. CASE K = {}
  <2>1. Put(nodes, K, n) = Append(nodes, n)
    BY <1>2 DEF Put
  <2>2. /\ Append(nodes, n) \in Seq(NodeRec) /\ Len(Append(nodes, n)) = Len(nodes) + 1
        /\ \A i \in 1..Len(nodes) : Append(nodes, n)[i] = nodes[i]
        /\ Append(nodes, n)[Len(nodes) + 1] = n
    BY <1>1, AppendProperties
  <2>3. DOMAIN Append(nodes, n) = (1..Len(nodes)) \cup {Len(nodes) + 1}
    BY <1>1, <2>2
  <2>4. Len(nodes) + 1 \notin 1..Len(nodes)
    BY <1>1
  <2>5. QED
    BY <1>1, <1>2, <2>1, <2>2, <2>3, <2>4 DEF Lists, PutAt
<1>3. CASE K # {}
  <2>1. Put(nodes, K, n) = [nodes EXCEPT ![Min(K)] = n]
    BY <1>3 DEF Put
  <2>2. Min(K) \in K
    BY <1>1, <1>3, LeastNatural
  <2>3. QED
    <3> DEFINE i == Min(K)
    <3> HIDE DEF i
    <3>1. i \in K /\ Put(nodes, K, n) = [nodes EXCEPT ![i] = n]
      BY <2>1, <2>2 DEF i
    <3>2. QED
      BY <1>1, <1>3, <3>1 DEF Lists, PutAt
<1>4. QED
  BY <1>2, <1>3

LEMMA SortInFacts ==
  ASSUME NEW nodes \in Lists, NEW n \in NodeRec
  PROVE  /\ SortIn(nodes, n) \in Lists
         /\ \E i \in 1..Len(nodes) + 1 :
              /\ DOMAIN SortIn(nodes, n) = 1..Len(nodes) + 1
              /\ \A j \in 1..Len(nodes) + 1 :
                   SortIn(nodes, n)[j]
                     = IF j < i THEN nodes[j] ELSE IF j = i THEN n ELSE nodes[j - 1]
<1> DEFINE later == {k \in DOMAIN nodes : Before(n, nodes[k])}
           len == Len(nodes)
<1>1. len \in Nat /\ DOMAIN nodes = 1..len /\ nodes \in Seq(NodeRec)
  BY ListFacts DEF Lists
<1>2. CASE later = {}
  <2>1. SortIn(nodes, n) = Append(nodes, n)
    BY <1>2 DEF SortIn
  <2>2. /\ Append(nodes, n) \in Seq(NodeRec) /\ Len(Append(nodes, n)) = len + 1
        /\ \A i \in 1..len : Append(nodes, n)[i] = nodes[i]
        /\ Append(nodes, n)[len + 1] = n
    BY <1>1, AppendProperties
  <2>3. len + 1 \in 1..len + 1 /\ DOMAIN Append(nodes, n) = 1..len + 1
    BY <1>1, <2>2
  <2>4. ASSUME NEW j \in 1..len + 1
        PROVE  Append(nodes, n)[j]
                 = IF j < len + 1 THEN nodes[j] ELSE IF j = len + 1 THEN n ELSE nodes[j - 1]
    <3>1. j \in 1..len \/ j = len + 1
      BY <1>1
    <3>2. QED
      BY <1>1, <2>2, <3>1
  <2>5. QED
    BY <2>1, <2>2, <2>3, <2>4 DEF Lists
<1>3. CASE later # {}
  <2> DEFINE i == Min(later)
  <2>1. i \in 1..len
    <3>1. later \in SUBSET Nat
      BY <1>1
    <3>2. Min(later) \in later
      <4> HIDE DEF later
      <4>1. QED
        BY <1>3, <3>1, LeastNatural
    <3>3. QED
      BY <1>1, <3>2
  <2>2. SortIn(nodes, n) = InsertAt(nodes, i, n)
    BY <1>3 DEF SortIn
  <2> HIDE DEF i
  <2> DEFINE front == SubSeq(nodes, 1, i - 1)
             back  == SubSeq(nodes, i, len)
  <2>3. /\ front \in Seq(NodeRec) /\ Len(front) = i - 1
        /\ \A j \in 1..i - 1 : front[j] = nodes[j]
    <3>1. \A j \in 1..i - 1 : nodes[j] \in NodeRec
      BY <1>1, <2>1
    <3>2. i - 1 \in Int /\ (1 <= i - 1 \/ i - 1 = 0) /\ (i - 1) - 1 + 1 = i - 1
      BY <1>1, <2>1
    <3>3. front \in Seq(NodeRec) /\ Len(front) = IF 1 <= i - 1 THEN (i - 1) - 1 + 1 ELSE 0
      BY <3>1, <3>2, SubSeqProperties
    <3>4. \A j \in 1..(i - 1) - 1 + 1 : front[j] = nodes[1 + j - 1]
      BY <3>1, <3>2, SubSeqProperties
    <3>5. QED
      BY <1>1, <2>1, <3>2, <3>3, <3>4
  <2>4. /\ back \in Seq(NodeRec) /\ Len(back) = len - i + 1
        /\ \A j \in 1..len - i + 1 : back[j] = nodes[i + j - 1]
    <3>1. \A j \in i..len : nodes[j] \in NodeRec
      BY <1>1, <2>1
    <3>2. i \in Int /\ len \in Int /\ i <= len
      BY <1>1, <2>1
    <3>3. QED
      BY <3>1, <3>2, SubSeqProperties
  <2> DEFINE first == front \o <<n>>
             all   == first \o back
  <2>5. /\ first \in Seq(NodeRec) /\ Len(first) = i
        /\ \A j \in 1..i : first[j] = IF j < i THEN nodes[j] ELSE n
    <3>1. <<n>> \in Seq(NodeRec) /\ Len(<<n>>) = 1 /\ <<n>>[1] = n
      OBVIOUS
    <3>2. /\ first \in Seq(NodeRec) /\ Len(first) = Len(front) + Len(<<n>>)
          /\ \A j \in 1..Len(front) + Len(<<n>>) :
               first[j] = IF j <= Len(front) THEN front[j] ELSE <<n>>[j - Len(front)]
      <4> HIDE DEF front
      <4>1. QED
        BY <2>3, <3>1, ConcatProperties
    <3> HIDE DEF front, first
    <3>3. Len(front) + Len(<<n>>) = i
      BY <2>1, <2>3, <3>1
    <3>4. ASSUME NEW j \in 1..i
          PROVE  first[j] = IF j < i THEN nodes[j] ELSE n
      <4>1. CASE j < i
        <5>1. j \in 1..i - 1 /\ j <= Len(front)
          BY <2>1, <2>3, <4>1
        <5>2. QED
          BY <2>3, <3>2, <3>3, <4>1, <5>1
      <4>2. CASE j = i
        <5>1. ~(j <= Len(front)) /\ j - Len(front) = 1
          BY <2>1, <2>3, <4>2
        <5>2. QED
          BY <2>1, <3>1, <3>2, <3>3, <4>2, <5>1
      <4>3. QED
        BY <2>1, <4>1, <4>2
    <3>5. QED
      BY <3>2, <3>3, <3>4
  <2>6. /\ all \in Seq(NodeRec) /\ Len(all) = Len(first) + Len(back)
        /\ \A j \in 1..Len(first) + Len(back) :
             all[j] = IF j <= Len(first) THEN first[j] ELSE back[j - Len(first)]
    <3> HIDE DEF first, back
    <3>1. QED
      BY <2>4, <2>5, ConcatProperties
  <2>7. InsertAt(nodes, i, n) = all
    BY DEF InsertAt
  <2> HIDE DEF front, back, first, all
  <2>8. Len(first) + Len(back) = len + 1
    BY <1>1, <2>1, <2>4, <2>5
  <2>9. ASSUME NEW j \in 1..len + 1
        PROVE  all[j] = IF j < i THEN nodes[j] ELSE IF j = i THEN n ELSE nodes[j - 1]
    <3>1. CASE j <= i
      <4>1. j \in 1..i /\ j <= Len(first)
        BY <1>1, <2>1, <2>5, <3>1
      <4>2. QED
        BY <2>1, <2>5, <2>6, <2>8, <3>1, <4>1
    <3>2. CASE i < j
      <4>1. /\ ~(j <= Len(first)) /\ j - i \in 1..len - i + 1 /\ i + (j - i) - 1 = j - 1
            /\ ~(j < i) /\ j # i
        BY <1>1, <2>1, <2>5, <3>2
      <4>2. all[j] = back[j - i] /\ back[j - i] = nodes[i + (j - i) - 1]
        BY <2>4, <2>5, <2>6, <2>8, <4>1
      <4>3. QED
        BY <4>1, <4>2
    <3>3. QED
      BY <1>1, <2>1, <3>1, <3>2
  <2>10. DOMAIN all = 1..len + 1 /\ i \in 1..len + 1
    BY <1>1, <2>1, <2>6, <2>8
  <2>11. QED
    BY <2>2, <2>6, <2>7, <2>9, <2>10 DEF Lists
<1>4. QED
  BY <1>2, <1>3

(* An entry of a .res file takes its host's name for an id, or the id of a   *)
(* node of the store with its host or its address.                          *)
Entry == [host: Host, ip: Ip]

LEMMA ResFacts ==
  DOMAIN Res = 1..Len(Res) /\ Len(Res) \in Nat /\ \A k \in DOMAIN Res : Res[k] \in Entry
<1>1. Res \in Seq(Entry)
  BY RegistryAssumption DEF Entry
<1>2. QED
  BY <1>1, LenProperties, ElementOfSeq

LEMMA IdForFacts ==
  ASSUME NEW existing \in Lists, NEW e \in Entry
  PROVE  /\ \/ IdFor(existing, e) = e.host
            \/ \E x \in ToSet(existing) :
                 IdFor(existing, e) = x.id /\ (x.host = e.host \/ x.ip = e.ip)
         /\ Found(existing, e) \in NodeRec
<1>1. DOMAIN existing \in SUBSET Nat /\ \A k \in DOMAIN existing : existing[k] \in NodeRec
  BY ListFacts
<1> DEFINE Chosen(K) == K # {} => Min(K) \in K
<1>2. Chosen(OfHost(existing, e.host)) /\ Chosen(OfIp(existing, e.ip))
  BY <1>1, LeastNatural DEF OfHost, OfIp
<1>3. \/ IdFor(existing, e) = e.host
      \/ \E k \in DOMAIN existing :
           /\ IdFor(existing, e) = existing[k].id
           /\ existing[k].host = e.host \/ existing[k].ip = e.ip
  BY <1>2 DEF IdFor, OfHost, OfIp
<1>4. IdFor(existing, e) \in Uuid \cup Host
  BY <1>1, <1>3 DEF Entry, NodeRec
<1>5. QED
  BY <1>3, <1>4 DEF ToSet, Found, Entry, NodeRec

(* The loop of delete.                                                      *)
LEMMA WithoutLoop ==
  ASSUME NEW nodes \in Lists, NEW n
  PROVE  \E f \in [0..Len(nodes) -> Lists] :
           /\ f[0] = <<>>
           /\ \A k \in 1..Len(nodes) :
                f[k] = IF nodes[k].id # n.id THEN Append(f[k - 1], nodes[k]) ELSE f[k - 1]
           /\ Without(nodes, n) = f[Len(nodes)]
<1> DEFINE N == Len(nodes)
           base == <<>>
           step(k, s) == IF nodes[k].id # n.id THEN Append(s, nodes[k]) ELSE s
           body == [x \in (1..N) \X Lists |-> step(x[1], x[2])]
           Eq(f) == f = [k \in 0..N |->
             IF k = 0 THEN <<>>
             ELSE IF nodes[k].id # n.id THEN Append(f[k - 1], nodes[k]) ELSE f[k - 1]]
           run == CHOOSE f : Eq(f)
<1>1. N \in Nat /\ base \in Lists
  BY DEF Lists
<1>2. \A k \in 1..N : \A s \in Lists : step(k, s) \in Lists
  BY DEF Lists
<1>3. body \in Bodies(N, Lists)
  <2> HIDE DEF N, step
  <2>1. QED
    BY <1>2 DEF Bodies
<1>4. Runs(N, Lists, base, body) # {}
  <2> HIDE DEF N, base, body
  <2>1. QED
    BY <1>1, <1>3, LoopRuns
<1>5. \E f : Eq(f)
  <2>1. PICK f \in Runs(N, Lists, base, body) : TRUE
    BY <1>4
  <2>2. /\ f \in [0..N -> Lists] /\ f[0] = base
        /\ \A k \in 1..N : f[k] = body[<<k, f[k - 1]>>]
    <3> HIDE DEF N, base, body
    <3>1. QED
      BY <2>1 DEF Runs
  <2>3. ASSUME NEW k \in 0..N, k # 0
        PROVE  f[k] = step(k, f[k - 1])
    <3> HIDE DEF N, step
    <3>1. k - 1 \in 0..N /\ k \in 1..N
      BY <1>1, <2>3
    <3>2. <<k, f[k - 1]>> \in (1..N) \X Lists
      BY <2>2, <3>1
    <3>3. QED
      BY <2>2, <3>1, <3>2
  <2>4. f = [k \in 0..N |-> IF k = 0 THEN base ELSE step(k, f[k - 1])]
    <3> HIDE DEF N, step, base, body
    <3>1. QED
      BY <2>2, <2>3
  <2>5. Eq(f)
    BY <2>4
  <2>6. QED
    BY <2>5
<1>6. Eq(run)
  BY <1>5
<1>7. Without(nodes, n) = run[N]
  BY DEF Without
<1>8. run = [k \in 0..N |-> IF k = 0 THEN base ELSE step(k, run[k - 1])]
  <2> HIDE DEF run
  <2>1. QED
    BY <1>6
<1>9. run = [k \in 0..N |-> run[k]] /\ run[0] = base /\ \A k \in 1..N : run[k] = step(k, run[k - 1])
  <2> HIDE DEF N, base, step, run
  <2>1. 0 \in 0..N /\ \A k \in 1..N : k \in 0..N /\ k # 0
    BY <1>1
  <2>2. QED
    BY <1>8, <2>1
<1>10. run \in [0..N -> Lists]
  <2> HIDE DEF N, base, step, run
  <2>1. \A k \in 1..N : run[k - 1] \in Lists => run[k] \in Lists
    BY <1>2, <1>9
  <2>2. \A k \in 0..N : run[k] \in Lists
    BY <1>1, <1>9, <2>1, LoopStays
  <2>3. QED
    BY <1>9, <2>2
<1>11. QED
  <2> HIDE DEF run
  <2>1. QED
    BY <1>7, <1>9, <1>10

(* The loop of Sorted.                                                      *)
LEMMA SortLoop ==
  ASSUME NEW nodes \in Lists
  PROVE  \E f \in [0..Len(nodes) -> Lists] :
           /\ f[0] = <<>>
           /\ \A k \in 1..Len(nodes) : f[k] = SortIn(f[k - 1], nodes[k])
           /\ Sorted(nodes) = f[Len(nodes)]
<1> DEFINE N == Len(nodes)
           base == <<>>
           step(k, s) == SortIn(s, nodes[k])
           body == [x \in (1..N) \X Lists |-> step(x[1], x[2])]
           Eq(f) == f = [k \in 0..N |-> IF k = 0 THEN <<>> ELSE SortIn(f[k - 1], nodes[k])]
           run == CHOOSE f : Eq(f)
<1>1. N \in Nat /\ base \in Lists
  BY DEF Lists
<1>2. \A k \in 1..N : \A s \in Lists : step(k, s) \in Lists
  BY ListFacts, SortInFacts
<1>3. body \in Bodies(N, Lists)
  <2> HIDE DEF N, step
  <2>1. QED
    BY <1>2 DEF Bodies
<1>4. Runs(N, Lists, base, body) # {}
  <2> HIDE DEF N, base, body
  <2>1. QED
    BY <1>1, <1>3, LoopRuns
<1>5. \E f : Eq(f)
  <2>1. PICK f \in Runs(N, Lists, base, body) : TRUE
    BY <1>4
  <2>2. /\ f \in [0..N -> Lists] /\ f[0] = base
        /\ \A k \in 1..N : f[k] = body[<<k, f[k - 1]>>]
    <3> HIDE DEF N, base, body
    <3>1. QED
      BY <2>1 DEF Runs
  <2>3. ASSUME NEW k \in 0..N, k # 0
        PROVE  f[k] = step(k, f[k - 1])
    <3> HIDE DEF N, step
    <3>1. k - 1 \in 0..N /\ k \in 1..N
      BY <1>1, <2>3
    <3>2. <<k, f[k - 1]>> \in (1..N) \X Lists
      BY <2>2, <3>1
    <3>3. QED
      BY <2>2, <3>1, <3>2
  <2>4. f = [k \in 0..N |-> IF k = 0 THEN base ELSE step(k, f[k - 1])]
    <3> HIDE DEF N, step, base, body
    <3>1. QED
      BY <2>2, <2>3
  <2>5. Eq(f)
    BY <2>4
  <2>6. QED
    BY <2>5
<1>6. Eq(run)
  BY <1>5
<1>7. Sorted(nodes) = run[N]
  BY DEF Sorted
<1>8. run = [k \in 0..N |-> IF k = 0 THEN base ELSE step(k, run[k - 1])]
  <2> HIDE DEF run
  <2>1. QED
    BY <1>6
<1>9. run = [k \in 0..N |-> run[k]] /\ run[0] = base /\ \A k \in 1..N : run[k] = step(k, run[k - 1])
  <2> HIDE DEF N, base, step, run
  <2>1. 0 \in 0..N /\ \A k \in 1..N : k \in 0..N /\ k # 0
    BY <1>1
  <2>2. QED
    BY <1>8, <2>1
<1>10. run \in [0..N -> Lists]
  <2> HIDE DEF N, base, step, run
  <2>1. \A k \in 1..N : run[k - 1] \in Lists => run[k] \in Lists
    BY <1>2, <1>9
  <2>2. \A k \in 0..N : run[k] \in Lists
    BY <1>1, <1>9, <2>1, LoopStays
  <2>3. QED
    BY <1>9, <2>2
<1>11. QED
  <2> HIDE DEF run
  <2>1. QED
    BY <1>7, <1>9, <1>10

(* The loop of import_nodes_from_drbd_configs.                              *)
LEMMA FoundLoop ==
  ASSUME NEW existing \in Lists, NEW readable
  PROVE  \E f \in [0..Len(Res) -> Lists] :
           /\ f[0] = <<>>
           /\ \A k \in 1..Len(Res) :
                f[k] = IF k \in readable THEN InsertOrReplace(f[k - 1], Found(existing, Res[k]))
                       ELSE f[k - 1]
           /\ Discovered(existing, readable) = Sorted(f[Len(Res)])
<1> DEFINE N == Len(Res)
           base == <<>>
           step(k, s) == IF k \in readable THEN InsertOrReplace(s, Found(existing, Res[k])) ELSE s
           body == [x \in (1..N) \X Lists |-> step(x[1], x[2])]
           Eq(f) == f = [k \in 0..N |->
             IF k = 0 THEN <<>>
             ELSE IF k \in readable THEN InsertOrReplace(f[k - 1], Found(existing, Res[k]))
             ELSE f[k - 1]]
           run == CHOOSE f : Eq(f)
<1>1. N \in Nat /\ base \in Lists
  BY RegistryAssumption DEF Lists
<1>2. \A k \in 1..N : \A s \in Lists : step(k, s) \in Lists
  <2>1. ASSUME NEW k \in 1..N, NEW s \in Lists
        PROVE  step(k, s) \in Lists
    <3>1. Res[k] \in Entry
      BY ResFacts
    <3>2. OfSameHost(s, Found(existing, Res[k])) \in SUBSET DOMAIN s
      BY DEF OfSameHost
    <3>3. QED
      BY <3>1, <3>2, IdForFacts, PutFacts DEF InsertOrReplace
  <2>2. QED
    BY <2>1
<1>3. body \in Bodies(N, Lists)
  <2> HIDE DEF N, step
  <2>1. QED
    BY <1>2 DEF Bodies
<1>4. Runs(N, Lists, base, body) # {}
  <2> HIDE DEF N, base, body
  <2>1. QED
    BY <1>1, <1>3, LoopRuns
<1>5. \E f : Eq(f)
  <2>1. PICK f \in Runs(N, Lists, base, body) : TRUE
    BY <1>4
  <2>2. /\ f \in [0..N -> Lists] /\ f[0] = base
        /\ \A k \in 1..N : f[k] = body[<<k, f[k - 1]>>]
    <3> HIDE DEF N, base, body
    <3>1. QED
      BY <2>1 DEF Runs
  <2>3. ASSUME NEW k \in 0..N, k # 0
        PROVE  f[k] = step(k, f[k - 1])
    <3> HIDE DEF N, step
    <3>1. k - 1 \in 0..N /\ k \in 1..N
      BY <1>1, <2>3
    <3>2. <<k, f[k - 1]>> \in (1..N) \X Lists
      BY <2>2, <3>1
    <3>3. QED
      BY <2>2, <3>1, <3>2
  <2>4. f = [k \in 0..N |-> IF k = 0 THEN base ELSE step(k, f[k - 1])]
    <3> HIDE DEF N, step, base, body
    <3>1. QED
      BY <2>2, <2>3
  <2>5. Eq(f)
    BY <2>4
  <2>6. QED
    BY <2>5
<1>6. Eq(run)
  BY <1>5
<1>7. Discovered(existing, readable) = Sorted(run[N])
  BY DEF Discovered
<1>8. run = [k \in 0..N |-> IF k = 0 THEN base ELSE step(k, run[k - 1])]
  <2> HIDE DEF run
  <2>1. QED
    BY <1>6
<1>9. run = [k \in 0..N |-> run[k]] /\ run[0] = base /\ \A k \in 1..N : run[k] = step(k, run[k - 1])
  <2> HIDE DEF N, base, step, run
  <2>1. 0 \in 0..N /\ \A k \in 1..N : k \in 0..N /\ k # 0
    BY <1>1
  <2>2. QED
    BY <1>8, <2>1
<1>10. run \in [0..N -> Lists]
  <2> HIDE DEF N, base, step, run
  <2>1. \A k \in 1..N : run[k - 1] \in Lists => run[k] \in Lists
    BY <1>2, <1>9
  <2>2. \A k \in 0..N : run[k] \in Lists
    BY <1>1, <1>9, <2>1, LoopStays
  <2>3. QED
    BY <1>9, <2>2
<1>11. QED
  <2> HIDE DEF run
  <2>1. QED
    BY <1>7, <1>9, <1>10

(* The loop of merge_discovered_and_existing_nodes.                         *)
LEMMA MergeLoop ==
  ASSUME NEW discovered \in Lists, NEW existing \in Lists
  PROVE  \E f \in [0..Len(existing) -> Lists] :
           /\ f[0] = discovered
           /\ \A k \in 1..Len(existing) :
                f[k] = IF OfSameHost(f[k - 1], existing[k]) # {} THEN f[k - 1]
                       ELSE Append(f[k - 1], existing[k])
           /\ Merge(discovered, existing) = Sorted(f[Len(existing)])
<1> DEFINE N == Len(existing)
           base == discovered
           step(k, s) == IF OfSameHost(s, existing[k]) # {} THEN s ELSE Append(s, existing[k])
           body == [x \in (1..N) \X Lists |-> step(x[1], x[2])]
           Eq(f) == f = [k \in 0..N |->
             IF k = 0 THEN discovered
             ELSE IF OfSameHost(f[k - 1], existing[k]) # {} THEN f[k - 1]
             ELSE Append(f[k - 1], existing[k])]
           run == CHOOSE f : Eq(f)
<1>1. N \in Nat /\ base \in Lists
  BY DEF Lists
<1>2. \A k \in 1..N : \A s \in Lists : step(k, s) \in Lists
  BY ListFacts DEF Lists
<1>3. body \in Bodies(N, Lists)
  <2> HIDE DEF N, step
  <2>1. QED
    BY <1>2 DEF Bodies
<1>4. Runs(N, Lists, base, body) # {}
  <2> HIDE DEF N, base, body
  <2>1. QED
    BY <1>1, <1>3, LoopRuns
<1>5. \E f : Eq(f)
  <2>1. PICK f \in Runs(N, Lists, base, body) : TRUE
    BY <1>4
  <2>2. /\ f \in [0..N -> Lists] /\ f[0] = base
        /\ \A k \in 1..N : f[k] = body[<<k, f[k - 1]>>]
    <3> HIDE DEF N, base, body
    <3>1. QED
      BY <2>1 DEF Runs
  <2>3. ASSUME NEW k \in 0..N, k # 0
        PROVE  f[k] = step(k, f[k - 1])
    <3> HIDE DEF N, step
    <3>1. k - 1 \in 0..N /\ k \in 1..N
      BY <1>1, <2>3
    <3>2. <<k, f[k - 1]>> \in (1..N) \X Lists
      BY <2>2, <3>1
    <3>3. QED
      BY <2>2, <3>1, <3>2
  <2>4. f = [k \in 0..N |-> IF k = 0 THEN base ELSE step(k, f[k - 1])]
    <3> HIDE DEF N, step, base, body
    <3>1. QED
      BY <2>2, <2>3
  <2>5. Eq(f)
    BY <2>4
  <2>6. QED
    BY <2>5
<1>6. Eq(run)
  BY <1>5
<1>7. Merge(discovered, existing) = Sorted(run[N])
  BY DEF Merge
<1>8. run = [k \in 0..N |-> IF k = 0 THEN base ELSE step(k, run[k - 1])]
  <2> HIDE DEF run
  <2>1. QED
    BY <1>6
<1>9. run = [k \in 0..N |-> run[k]] /\ run[0] = base /\ \A k \in 1..N : run[k] = step(k, run[k - 1])
  <2> HIDE DEF N, base, step, run
  <2>1. 0 \in 0..N /\ \A k \in 1..N : k \in 0..N /\ k # 0
    BY <1>1
  <2>2. QED
    BY <1>8, <2>1
<1>10. run \in [0..N -> Lists]
  <2> HIDE DEF N, base, step, run
  <2>1. \A k \in 1..N : run[k - 1] \in Lists => run[k] \in Lists
    BY <1>2, <1>9
  <2>2. \A k \in 0..N : run[k] \in Lists
    BY <1>1, <1>9, <2>1, LoopStays
  <2>3. QED
    BY <1>9, <2>2
<1>11. QED
  <2> HIDE DEF run
  <2>1. QED
    BY <1>7, <1>9, <1>10

(* The nodes of r come from the positions K of nodes, each from its own.    *)
Moved(r, nodes, K) ==
  /\ \A i \in DOMAIN r : \E a \in K : r[i] = nodes[a]
  /\ \A i, j \in DOMAIN r : i # j =>
       \E a, b \in K : a # b /\ r[i] = nodes[a] /\ r[j] = nodes[b]

LEMMA MovedOn ==
  ASSUME NEW r, NEW s, NEW nodes, NEW K, Moved(r, s, DOMAIN s), Moved(s, nodes, K)
  PROVE  Moved(r, nodes, K)
BY DEF Moved

LEMMA MovedWider ==
  ASSUME NEW r, NEW nodes, NEW K, NEW L, K \subseteq L, Moved(r, nodes, K)
  PROVE  Moved(r, nodes, L)
BY DEF Moved

LEMMA AppendFacts ==
  ASSUME NEW r \in Lists, NEW n \in NodeRec
  PROVE  /\ Append(r, n) \in Lists /\ ToSet(Append(r, n)) = ToSet(r) \cup {n}
         /\ DOMAIN Append(r, n) = 1..Len(r) + 1 /\ Len(r) + 1 \notin DOMAIN r
         /\ DOMAIN r = 1..Len(r) /\ Len(r) \in Nat
         /\ Append(r, n)[Len(r) + 1] = n
         /\ \A j \in 1..Len(r) + 1 : j \in DOMAIN r \/ j = Len(r) + 1
         /\ \A j \in DOMAIN r : j \in DOMAIN Append(r, n) /\ Append(r, n)[j] = r[j]
<1>1. r \in Seq(NodeRec) /\ DOMAIN r = 1..Len(r) /\ Len(r) \in Nat
  BY ListFacts DEF Lists
<1>2. /\ Append(r, n) \in Seq(NodeRec) /\ Len(Append(r, n)) = Len(r) + 1
      /\ \A i \in 1..Len(r) : Append(r, n)[i] = r[i]
      /\ Append(r, n)[Len(r) + 1] = n
  BY <1>1, AppendProperties
<1>3. DOMAIN Append(r, n) = 1..Len(r) + 1
  BY <1>1, <1>2
<1>4. /\ Len(r) + 1 \notin DOMAIN r /\ Len(r) + 1 \in 1..Len(r) + 1
      /\ \A j \in 1..Len(r) + 1 : j \in DOMAIN r \/ j = Len(r) + 1
      /\ \A j \in DOMAIN r : j \in 1..Len(r) + 1
  BY <1>1
<1>5. ToSet(Append(r, n)) = ToSet(r) \cup {n}
  BY <1>1, <1>2, <1>3, <1>4 DEF ToSet
<1>6. QED
  BY <1>1, <1>2, <1>3, <1>4, <1>5 DEF Lists

LEMMA MovedAppend ==
  ASSUME NEW r \in Lists, NEW nodes, NEW K, NEW k, k \notin K, nodes[k] \in NodeRec,
         Moved(r, nodes, K)
  PROVE  Moved(Append(r, nodes[k]), nodes, K \cup {k})
<1> DEFINE t == Append(r, nodes[k])
           last == Len(r) + 1
<1>1. /\ t[last] = nodes[k]
      /\ \A j \in DOMAIN t : j = last \/ (j \in DOMAIN r /\ t[j] = r[j])
  BY AppendFacts
<1> HIDE DEF t, last
<1>2. \A i \in DOMAIN t : \E a \in K \cup {k} : t[i] = nodes[a]
  BY <1>1 DEF Moved
<1>3. ASSUME NEW i \in DOMAIN t, NEW j \in DOMAIN t, i # j
      PROVE  \E a, b \in K \cup {k} : a # b /\ t[i] = nodes[a] /\ t[j] = nodes[b]
  <2>1. CASE i = last
    <3>1. PICK b \in K : t[j] = nodes[b]
      BY <1>1, <1>3, <2>1 DEF Moved
    <3>2. QED
      BY <1>1, <2>1, <3>1
  <2>2. CASE j = last
    <3>1. PICK a \in K : t[i] = nodes[a]
      BY <1>1, <1>3, <2>2 DEF Moved
    <3>2. QED
      BY <1>1, <2>2, <3>1
  <2>3. CASE i # last /\ j # last
    BY <1>1, <1>3, <2>3 DEF Moved
  <2>4. QED
    BY <2>1, <2>2, <2>3
<1>4. QED
  BY <1>2, <1>3 DEF Moved, t

LEMMA SortInMoves ==
  ASSUME NEW r \in Lists, NEW n \in NodeRec
  PROVE  /\ SortIn(r, n) \in Lists
         /\ Moved(SortIn(r, n), Append(r, n), DOMAIN Append(r, n))
         /\ ToSet(SortIn(r, n)) = ToSet(r) \cup {n}
<1> DEFINE t == SortIn(r, n)
           s == Append(r, n)
           last == Len(r) + 1
<1>1. PICK i \in 1..last :
        /\ DOMAIN t = 1..last
        /\ \A j \in 1..last : t[j] = IF j < i THEN r[j] ELSE IF j = i THEN n ELSE r[j - 1]
  BY SortInFacts
<1>2. /\ s \in Lists /\ ToSet(s) = ToSet(r) \cup {n} /\ DOMAIN s = 1..last
      /\ DOMAIN r = 1..Len(r) /\ Len(r) \in Nat /\ s[last] = n
      /\ \A j \in DOMAIN r : s[j] = r[j]
  BY AppendFacts
<1> DEFINE from == [j \in 1..last |-> IF j < i THEN j ELSE IF j = i THEN last ELSE j - 1]
<1> HIDE DEF t, s
<1>3. \A j \in 1..last : from[j] \in 1..last /\ t[j] = s[from[j]]
  <2>1. ASSUME NEW j \in 1..last
        PROVE  from[j] \in 1..last /\ t[j] = s[from[j]]
    <3>1. CASE j < i
      <4>1. j \in DOMAIN r
        BY <1>1, <1>2, <3>1
      <4>2. QED
        BY <1>1, <1>2, <3>1, <4>1
    <3>2. CASE j = i
      BY <1>1, <1>2, <3>2
    <3>3. CASE ~(j < i) /\ j # i
      <4>1. j - 1 \in DOMAIN r /\ j - 1 \in 1..last
        BY <1>1, <1>2, <3>3
      <4>2. QED
        BY <1>1, <1>2, <3>3, <4>1
    <3>4. QED
      BY <3>1, <3>2, <3>3
  <2>2. QED
    BY <2>1
<1>4. \A j, k \in 1..last : j # k => from[j] # from[k]
  BY <1>1, <1>2
<1>5. \A m \in 1..last : \E j \in 1..last : from[j] = m
  <2>1. ASSUME NEW m \in 1..last
        PROVE  \E j \in 1..last : from[j] = m
    <3>1. CASE m < i
      BY <1>2, <3>1
    <3>2. CASE m = last
      BY <1>2, <3>2
    <3>3. CASE ~(m < i) /\ m # last
      <4>1. m + 1 \in 1..last /\ ~(m + 1 < i) /\ m + 1 # i /\ (m + 1) - 1 = m
        BY <1>1, <1>2, <3>3
      <4>2. QED
        BY <4>1
    <3>4. QED
      BY <3>1, <3>2, <3>3
  <2>2. QED
    BY <2>1
<1> HIDE DEF from, last
<1>6. Moved(t, s, DOMAIN s)
  BY <1>1, <1>2, <1>3, <1>4 DEF Moved
<1>7. ToSet(t) = ToSet(s)
  <2>1. \A j \in DOMAIN t : \E m \in DOMAIN s : t[j] = s[m]
    BY <1>1, <1>2, <1>3
  <2>2. \A m \in DOMAIN s : \E j \in DOMAIN t : t[j] = s[m]
    <3>1. ASSUME NEW m \in DOMAIN s
          PROVE  \E j \in DOMAIN t : t[j] = s[m]
      <4>1. PICK j \in 1..last : from[j] = m
        BY <1>2, <1>5
      <4>2. QED
        BY <1>1, <1>3, <4>1
    <3>2. QED
      BY <3>1
  <2>3. QED
    BY <2>1, <2>2 DEF ToSet
<1>8. QED
  BY <1>2, <1>6, <1>7, SortInFacts DEF t, s

(* Sorting moves the nodes, and loses none.                                 *)
LEMMA SortedFacts ==
  ASSUME NEW nodes \in Lists
  PROVE  /\ Sorted(nodes) \in Lists /\ ToSet(Sorted(nodes)) = ToSet(nodes)
         /\ Moved(Sorted(nodes), nodes, DOMAIN nodes)
<1> DEFINE N == Len(nodes)
<1>1. N \in Nat /\ DOMAIN nodes = 1..N /\ \A k \in DOMAIN nodes : nodes[k] \in NodeRec
  BY ListFacts
<1>2. PICK f \in [0..N -> Lists] :
        /\ f[0] = <<>>
        /\ \A k \in 1..N : f[k] = SortIn(f[k - 1], nodes[k])
        /\ Sorted(nodes) = f[N]
  BY SortLoop
<1> DEFINE S == {k \in 0..N : /\ Moved(f[k], nodes, 1..k)
                              /\ ToSet(f[k]) = {nodes[a] : a \in 1..k}}
<1>3. 0 \in S
  BY <1>1, <1>2 DEF Moved, ToSet
<1>4. ASSUME NEW k \in 1..N, k - 1 \in S
      PROVE  k \in S
  <2> DEFINE r == f[k - 1]
             t == f[k]
  <2>1. /\ k - 1 \in 0..N /\ k \in 0..N /\ k \notin 1..(k - 1)
        /\ 1..k = (1..(k - 1)) \cup {k}
    BY <1>1
  <2>2. /\ r \in Lists /\ t = SortIn(r, nodes[k]) /\ nodes[k] \in NodeRec
        /\ Moved(r, nodes, 1..(k - 1)) /\ ToSet(r) = {nodes[a] : a \in 1..(k - 1)}
    BY <1>1, <1>2, <1>4, <2>1
  <2> HIDE DEF r, t
  <2>3. Moved(Append(r, nodes[k]), nodes, 1..k)
    BY <2>1, <2>2, MovedAppend
  <2>4. /\ Moved(t, Append(r, nodes[k]), DOMAIN Append(r, nodes[k]))
        /\ ToSet(t) = ToSet(r) \cup {nodes[k]}
    BY <2>2, SortInMoves
  <2>5. Moved(t, nodes, 1..k)
    BY <2>3, <2>4, MovedOn
  <2>6. ToSet(t) = {nodes[a] : a \in 1..k}
    BY <2>1, <2>2, <2>4
  <2>7. QED
    BY <2>1, <2>5, <2>6 DEF t
<1>5. N \in S
  <2> HIDE DEF S
  <2>1. \A k \in 0..N : k \in S
    BY <1>1, <1>3, <1>4, Climb
  <2>2. QED
    BY <1>1, <2>1
<1>6. QED
  BY <1>1, <1>2, <1>5 DEF ToSet

(* Deleting keeps the nodes with another id.                                *)
LEMMA WithoutFacts ==
  ASSUME NEW nodes \in Lists, NEW n
  PROVE  /\ Without(nodes, n) \in Lists
         /\ ToSet(Without(nodes, n)) = {m \in ToSet(nodes) : m.id # n.id}
         /\ Moved(Without(nodes, n), nodes, DOMAIN nodes)
<1> DEFINE N == Len(nodes)
<1>1. N \in Nat /\ DOMAIN nodes = 1..N /\ \A k \in DOMAIN nodes : nodes[k] \in NodeRec
  BY ListFacts
<1>2. PICK f \in [0..N -> Lists] :
        /\ f[0] = <<>>
        /\ \A k \in 1..N :
             f[k] = IF nodes[k].id # n.id THEN Append(f[k - 1], nodes[k]) ELSE f[k - 1]
        /\ Without(nodes, n) = f[N]
  BY WithoutLoop
<1> DEFINE S == {k \in 0..N : /\ Moved(f[k], nodes, 1..k)
                              /\ ToSet(f[k]) = {m \in {nodes[a] : a \in 1..k} : m.id # n.id}}
<1>3. 0 \in S
  BY <1>1, <1>2 DEF Moved, ToSet
<1>4. ASSUME NEW k \in 1..N, k - 1 \in S
      PROVE  k \in S
  <2> DEFINE r == f[k - 1]
             t == f[k]
  <2>1. /\ k - 1 \in 0..N /\ k \in 0..N /\ k \notin 1..(k - 1)
        /\ 1..k = (1..(k - 1)) \cup {k}
    BY <1>1
  <2>2. /\ r \in Lists /\ t = (IF nodes[k].id # n.id THEN Append(r, nodes[k]) ELSE r)
        /\ nodes[k] \in NodeRec /\ Moved(r, nodes, 1..(k - 1))
        /\ ToSet(r) = {m \in {nodes[a] : a \in 1..(k - 1)} : m.id # n.id}
    BY <1>1, <1>2, <1>4, <2>1
  <2> HIDE DEF r, t
  <2>3. {nodes[a] : a \in 1..k} = {nodes[a] : a \in 1..(k - 1)} \cup {nodes[k]}
    BY <2>1
  <2>4. CASE nodes[k].id # n.id
    <3>1. t = Append(r, nodes[k])
      BY <2>2, <2>4
    <3>2. Moved(t, nodes, 1..k)
      <4>1. r \in Lists /\ nodes[k] \in NodeRec /\ Moved(r, nodes, 1..(k - 1))
        BY <2>2
      <4>2. Moved(Append(r, nodes[k]), nodes, (1..(k - 1)) \cup {k})
        BY <2>1, <4>1, MovedAppend
      <4>3. QED
        BY <2>1, <3>1, <4>2
    <3>3. ToSet(t) = ToSet(r) \cup {nodes[k]}
      <4>1. ToSet(Append(r, nodes[k])) = ToSet(r) \cup {nodes[k]}
        BY <2>2, AppendFacts
      <4>2. QED
        BY <3>1, <4>1
    <3>4. ToSet(t) = {m \in {nodes[a] : a \in 1..k} : m.id # n.id}
      <4>1. ToSet(r) = {m \in {nodes[a] : a \in 1..(k - 1)} : m.id # n.id}
        BY <2>2
      <4>2. QED
        BY <2>3, <2>4, <3>3, <4>1
    <3>5. QED
      BY <2>1, <3>2, <3>4 DEF t
  <2>5. CASE nodes[k].id = n.id
    <3>1. t = r
      BY <2>2, <2>5
    <3>2. Moved(t, nodes, 1..k)
      <4>1. 1..(k - 1) \subseteq 1..k /\ Moved(r, nodes, 1..(k - 1))
        BY <2>1, <2>2
      <4>2. Moved(r, nodes, 1..k)
        BY <4>1, MovedWider
      <4>3. QED
        BY <3>1, <4>2
    <3>3. ToSet(t) = {m \in {nodes[a] : a \in 1..k} : m.id # n.id}
      <4>1. ToSet(r) = {m \in {nodes[a] : a \in 1..(k - 1)} : m.id # n.id}
        BY <2>2
      <4>2. QED
        BY <2>3, <2>5, <3>1, <4>1
    <3>4. QED
      BY <2>1, <3>2, <3>3 DEF t
  <2>6. QED
    BY <2>4, <2>5
<1>5. N \in S
  <2> HIDE DEF S
  <2>1. \A k \in 0..N : k \in S
    BY <1>1, <1>3, <1>4, Climb
  <2>2. QED
    BY <1>1, <2>1
<1>6. {nodes[a] : a \in 1..N} = ToSet(nodes)
  BY <1>1 DEF ToSet
<1>7. QED
  BY <1>1, <1>2, <1>5, <1>6

---------------------------------------------------------------------------
(* No two entries of a list are the same host; and, which is less, no two    *)
(* have the same name or id.                                                *)
Apart(nodes) == \A j, k \in DOMAIN nodes : j # k => ~SameHost(nodes[j], nodes[k])
Tidy(nodes)  ==
  \A j, k \in DOMAIN nodes : j # k =>
    nodes[j].id # nodes[k].id /\ nodes[j].host # nodes[k].host

(* The .res files agree on who is who: no host has two addresses and no      *)
(* address two hosts; or else they name one host only.                       *)
Settled ==
  \/ \A j, k \in DOMAIN Res : Res[j].host = Res[k].host <=> Res[j].ip = Res[k].ip
  \/ \A j, k \in DOMAIN Res : Res[j].host = Res[k].host

LEMMA MovedKeeps ==
  ASSUME NEW r, NEW nodes, Moved(r, nodes, DOMAIN nodes)
  PROVE  /\ Apart(nodes) => Apart(r)
         /\ Tidy(nodes) => Tidy(r)
<1>1. ASSUME Apart(nodes), NEW j \in DOMAIN r, NEW k \in DOMAIN r, j # k
      PROVE  ~SameHost(r[j], r[k])
  <2>1. PICK a, b \in DOMAIN nodes : a # b /\ r[j] = nodes[a] /\ r[k] = nodes[b]
    BY <1>1 DEF Moved
  <2>2. QED
    BY <1>1, <2>1 DEF Apart
<1>2. ASSUME Tidy(nodes), NEW j \in DOMAIN r, NEW k \in DOMAIN r, j # k
      PROVE  r[j].id # r[k].id /\ r[j].host # r[k].host
  <2>1. PICK a, b \in DOMAIN nodes : a # b /\ r[j] = nodes[a] /\ r[k] = nodes[b]
    BY <1>2 DEF Moved
  <2>2. QED
    BY <1>2, <2>1 DEF Tidy
<1>3. QED
  BY <1>1, <1>2 DEF Apart, Tidy

LEMMA ApartIsTidy == \A nodes : Apart(nodes) => Tidy(nodes)
BY DEF Apart, Tidy, SameHost

(* insert and update: n takes the place of the node with its id.            *)
LEMMA UpsertFacts ==
  ASSUME NEW nodes \in Lists, NEW n \in NodeRec
  PROVE  /\ Upsert(nodes, n) \in Lists
         /\ ToSet(Upsert(nodes, n)) \subseteq ToSet(nodes) \cup {n}
         /\ Tidy(nodes) =>
              ToSet(Upsert(nodes, n)) = {m \in ToSet(nodes) : m.id # n.id} \cup {n}
         /\ Tidy(nodes) /\ (\A m \in ToSet(nodes) : m.id # n.id => m.host # n.host)
              => Tidy(Upsert(nodes, n))
<1> DEFINE K == OfId(nodes, n)
           t == Upsert(nodes, n)
<1>1. K \in SUBSET DOMAIN nodes
  BY DEF OfId
<1>2. t \in Lists
  BY <1>1, PutFacts DEF Upsert
<1>3. PICK i \in DOMAIN t :
        /\ t[i] = n
        /\ IF K = {} THEN i \notin DOMAIN nodes ELSE i \in K
        /\ DOMAIN t = DOMAIN nodes \cup {i}
        /\ \A j \in DOMAIN nodes : j # i => t[j] = nodes[j]
  <2>1. t = Put(nodes, K, n)
    BY DEF Upsert
  <2>2. PutAt(t, nodes, K, n)
    <3> HIDE DEF t, K
    <3>1. PutAt(Put(nodes, K, n), nodes, K, n)
      BY <1>1, PutFacts
    <3>2. QED
      BY <2>1, <3>1
  <2>3. QED
    <3> HIDE DEF t, K
    <3>1. QED
      BY <2>2 DEF PutAt
<1> HIDE DEF t
<1>4. ToSet(t) \subseteq ToSet(nodes) \cup {n}
  BY <1>3 DEF ToSet
<1>5. ASSUME Tidy(nodes), NEW j \in DOMAIN nodes, j # i
      PROVE  nodes[j].id # n.id
  BY <1>3, <1>5 DEF Tidy, OfId
<1>6. ASSUME Tidy(nodes)
      PROVE  ToSet(t) = {m \in ToSet(nodes) : m.id # n.id} \cup {n}
  <2>1. \A j \in DOMAIN nodes : nodes[j].id # n.id => j # i
    BY <1>3 DEF OfId
  <2>2. \A j \in DOMAIN t : t[j] = n \/ (j \in DOMAIN nodes /\ t[j] = nodes[j] /\ nodes[j].id # n.id)
    BY <1>3, <1>5, <1>6
  <2>3. \A j \in DOMAIN nodes : nodes[j].id # n.id => j \in DOMAIN t /\ t[j] = nodes[j]
    BY <1>3, <2>1
  <2>4. QED
    BY <1>3, <2>2, <2>3 DEF ToSet
<1>7. ASSUME Tidy(nodes), \A m \in ToSet(nodes) : m.id # n.id => m.host # n.host
      PROVE  Tidy(t)
  <2>1. \A j \in DOMAIN t : j # i => j \in DOMAIN nodes /\ t[j] = nodes[j]
    BY <1>3
  <2>2. \A j \in DOMAIN t : j # i => t[j].id # n.id /\ t[j].host # n.host
    BY <1>5, <1>7, <2>1 DEF ToSet
  <2>3. QED
    BY <1>3, <1>7, <2>1, <2>2 DEF Tidy
<1>8. QED
  BY <1>2, <1>4, <1>6, <1>7 DEF t

(* Among the nodes that are made of the entries of settled .res files, to be *)
(* the same host is transitive.                                             *)
LEMMA SameHostIsTransitive ==
  ASSUME Settled, NEW existing,
         NEW a \in DOMAIN Res, NEW b \in DOMAIN Res, NEW c \in DOMAIN Res,
         SameHost(Found(existing, Res[a]), Found(existing, Res[b])),
         SameHost(Found(existing, Res[b]), Found(existing, Res[c]))
  PROVE  SameHost(Found(existing, Res[a]), Found(existing, Res[c]))
<1>1. CASE \A j, k \in DOMAIN Res : Res[j].host = Res[k].host
  BY <1>1 DEF SameHost, Found
<1>2. CASE \A j, k \in DOMAIN Res : Res[j].host = Res[k].host <=> Res[j].ip = Res[k].ip
  <2>1. \A j \in DOMAIN Res : Res[j] = [host |-> Res[j].host, ip |-> Res[j].ip]
    BY ResFacts DEF Entry
  <2>2. \A j, k \in DOMAIN Res :
          SameHost(Found(existing, Res[j]), Found(existing, Res[k]))
            <=> Found(existing, Res[j]).id = Found(existing, Res[k]).id
    <3>1. ASSUME NEW j \in DOMAIN Res, NEW k \in DOMAIN Res,
                 Res[j].host = Res[k].host \/ Res[j].ip = Res[k].ip
          PROVE  Res[j] = Res[k]
      BY <1>2, <2>1, <3>1
    <3>2. QED
      BY <3>1 DEF SameHost, Found
  <2>3. QED
    BY <2>2
<1>3. QED
  BY <1>1, <1>2 DEF Settled

(* What the .res files are read as.                                         *)
LEMMA DiscoveredFacts ==
  ASSUME NEW existing \in Lists, NEW readable
  PROVE  /\ Discovered(existing, readable) \in Lists
         /\ \A d \in ToSet(Discovered(existing, readable)) :
              \E k \in DOMAIN Res : d = Found(existing, Res[k])
         /\ Settled => Apart(Discovered(existing, readable))
<1> DEFINE N == Len(Res)
           G(k) == Found(existing, Res[k])
<1>1. N \in Nat /\ DOMAIN Res = 1..N /\ \A k \in DOMAIN Res : G(k) \in NodeRec
  BY ResFacts, IdForFacts
<1>2. PICK f \in [0..N -> Lists] :
        /\ f[0] = <<>>
        /\ \A k \in 1..N :
             f[k] = IF k \in readable THEN InsertOrReplace(f[k - 1], G(k)) ELSE f[k - 1]
        /\ Discovered(existing, readable) = Sorted(f[N])
  BY FoundLoop
<1> DEFINE Made(s) == \A i \in DOMAIN s : \E k \in DOMAIN Res : s[i] = G(k)
           S == {k \in 0..N : Made(f[k]) /\ (Settled => Apart(f[k]))}
<1>3. 0 \in S
  BY <1>1, <1>2 DEF Apart
<1>4. ASSUME NEW k \in 1..N, k - 1 \in S, k \in readable
      PROVE  k \in S
  <2> DEFINE s == f[k - 1]
             t == f[k]
             K == OfSameHost(s, G(k))
  <2>1. /\ s \in Lists /\ t = Put(s, K, G(k)) /\ G(k) \in NodeRec /\ k \in DOMAIN Res
        /\ Made(s) /\ (Settled => Apart(s)) /\ K \in SUBSET DOMAIN s
    BY <1>1, <1>2, <1>4 DEF InsertOrReplace, OfSameHost
  <2>2. PICK i \in DOMAIN t :
          /\ t[i] = G(k)
          /\ IF K = {} THEN i \notin DOMAIN s ELSE i \in K
          /\ DOMAIN t = DOMAIN s \cup {i}
          /\ \A j \in DOMAIN s : j # i => t[j] = s[j]
    <3> HIDE DEF s, t, K, G
    <3>1. QED
      BY <2>1, PutFacts DEF PutAt
  <2>3. Made(t)
    <3> HIDE DEF s, t, K, G
    <3>1. QED
      BY <2>1, <2>2
  <2>4. ASSUME Settled
        PROVE  Apart(t)
    <3>1. ASSUME NEW j \in DOMAIN s, j # i
          PROVE  ~SameHost(s[j], G(k)) /\ ~SameHost(G(k), s[j])
      <4>1. SUFFICES ASSUME SameHost(s[j], G(k))
                     PROVE  FALSE
        BY DEF SameHost
      <4>2. j \in K
        BY <4>1 DEF OfSameHost
      <4>3. i \in DOMAIN s /\ SameHost(G(k), s[i])
        BY <2>1, <2>2, <4>2 DEF OfSameHost, SameHost
      <4>4. PICK a, b \in DOMAIN Res : s[j] = G(a) /\ s[i] = G(b)
        <5> HIDE DEF s, G
        <5>1. QED
          BY <2>1, <4>3
      <4>5. SameHost(G(a), G(k)) /\ SameHost(G(k), G(b))
        <5> HIDE DEF s, G
        <5>1. QED
          BY <4>1, <4>3, <4>4
      <4>6. SameHost(G(a), G(b))
        BY <2>1, <2>4, <4>4, <4>5, SameHostIsTransitive
      <4>7. SameHost(s[j], s[i])
        <5> HIDE DEF s, G
        <5>1. QED
          BY <4>4, <4>6
      <4>8. QED
        <5> HIDE DEF s, G
        <5>1. QED
          BY <2>1, <2>4, <3>1, <4>3, <4>7 DEF Apart
    <3> HIDE DEF s, t, K, G
    <3>2. \A j \in DOMAIN t : j # i => j \in DOMAIN s /\ t[j] = s[j]
      BY <2>2
    <3>3. QED
      BY <2>1, <2>2, <2>4, <3>1, <3>2 DEF Apart
  <2>5. k \in 0..N
    BY <1>1
  <2>6. QED
    BY <2>3, <2>4, <2>5
<1>5. ASSUME NEW k \in 1..N, k - 1 \in S, k \notin readable
      PROVE  k \in S
  BY <1>1, <1>2, <1>5
<1>6. N \in S
  <2> HIDE DEF S
  <2>1. \A k \in 0..N : k \in S
    BY <1>1, <1>3, <1>4, <1>5, Climb
  <2>2. QED
    BY <1>1, <2>1
<1>7. /\ f[N] \in Lists /\ Made(f[N]) /\ (Settled => Apart(f[N]))
  BY <1>1, <1>6
<1>8. /\ Sorted(f[N]) \in Lists /\ ToSet(Sorted(f[N])) = ToSet(f[N])
      /\ Moved(Sorted(f[N]), f[N], DOMAIN f[N])
  BY <1>7, SortedFacts
<1>9. QED
  <2> HIDE DEF G
  <2>1. \A d \in ToSet(f[N]) : \E k \in DOMAIN Res : d = G(k)
    BY <1>7 DEF ToSet
  <2>2. QED
    BY <1>2, <1>7, <1>8, <2>1, MovedKeeps DEF G

(* What list_nodes makes of the .res files and of the store.                *)
LEMMA MergeFacts ==
  ASSUME NEW discovered \in Lists, NEW existing \in Lists
  PROVE  /\ Merge(discovered, existing) \in Lists
         /\ ToSet(Merge(discovered, existing)) \subseteq ToSet(discovered) \cup ToSet(existing)
         /\ \A n \in ToSet(existing) :
              \E x \in ToSet(Merge(discovered, existing)) : SameHost(x, n)
         /\ Apart(discovered) => Apart(Merge(discovered, existing))
<1> DEFINE N == Len(existing)
<1>1. N \in Nat /\ DOMAIN existing = 1..N /\ \A k \in DOMAIN existing : existing[k] \in NodeRec
  BY ListFacts
<1>2. PICK f \in [0..N -> Lists] :
        /\ f[0] = discovered
        /\ \A k \in 1..N : f[k] = IF OfSameHost(f[k - 1], existing[k]) # {} THEN f[k - 1]
                                  ELSE Append(f[k - 1], existing[k])
        /\ Merge(discovered, existing) = Sorted(f[N])
  BY MergeLoop
<1> DEFINE From(s) == ToSet(s) \subseteq ToSet(discovered) \cup ToSet(existing)
           Covers(s, k) == \A a \in 1..k : \E x \in ToSet(s) : SameHost(x, existing[a])
           S == {k \in 0..N : /\ From(f[k]) /\ Covers(f[k], k)
                              /\ Apart(discovered) => Apart(f[k])}
<1>3. 0 \in S
  BY <1>1, <1>2
<1>4. ASSUME NEW k \in 1..N, k - 1 \in S
      PROVE  k \in S
  <2> DEFINE s == f[k - 1]
             t == f[k]
             e == existing[k]
  <2>1. /\ k - 1 \in 0..N /\ k \in 0..N /\ k \in DOMAIN existing
        /\ \A a \in 1..k : a \in 1..(k - 1) \/ a = k
    BY <1>1
  <2>2. /\ s \in Lists /\ e \in NodeRec /\ From(s) /\ Covers(s, k - 1)
        /\ (Apart(discovered) => Apart(s)) /\ e \in ToSet(existing)
        /\ t = (IF OfSameHost(s, e) # {} THEN s ELSE Append(s, e))
    BY <1>1, <1>2, <1>4, <2>1 DEF ToSet
  <2> SUFFICES From(t) /\ Covers(t, k) /\ (Apart(discovered) => Apart(t))
    BY <2>1
  <2> HIDE DEF s, t
  <2>3. CASE OfSameHost(s, e) # {}
    <3>1. \E x \in ToSet(s) : SameHost(x, e)
      BY <2>3 DEF OfSameHost, ToSet
    <3>2. QED
      BY <2>1, <2>2, <2>3, <3>1
  <2>4. CASE OfSameHost(s, e) = {}
    <3>1. t = Append(s, e)
      BY <2>2, <2>4
    <3> DEFINE last == Len(s) + 1
    <3>2. /\ ToSet(t) = ToSet(s) \cup {e} /\ t[last] = e
          /\ \A j \in DOMAIN t : j = last \/ (j \in DOMAIN s /\ t[j] = s[j])
      <4> HIDE DEF e
      <4>1. s \in Lists /\ e \in NodeRec
        BY <2>2
      <4>2. /\ ToSet(Append(s, e)) = ToSet(s) \cup {e} /\ DOMAIN Append(s, e) = 1..Len(s) + 1
            /\ Append(s, e)[Len(s) + 1] = e
        BY <4>1, AppendFacts
      <4>3. \A j \in 1..Len(s) + 1 : j \in DOMAIN s \/ j = Len(s) + 1
        BY <4>1, AppendFacts
      <4>4. \A j \in DOMAIN s : Append(s, e)[j] = s[j]
        BY <4>1, AppendFacts
      <4>5. QED
        BY <3>1, <4>2, <4>3, <4>4
    <3>3. From(t)
      BY <2>2, <3>2
    <3>4. Covers(t, k)
      <4>1. SameHost(e, existing[k])
        BY DEF SameHost
      <4>2. QED
        BY <2>1, <2>2, <3>2, <4>1
    <3>5. \A j \in DOMAIN s : ~SameHost(s[j], e) /\ ~SameHost(e, s[j])
      BY <2>4 DEF OfSameHost, SameHost
    <3>6. Apart(s) => Apart(t)
      <4> HIDE DEF e, last
      <4>1. QED
        BY <3>2, <3>5 DEF Apart
    <3>7. QED
      BY <2>2, <3>3, <3>4, <3>6
  <2>5. QED
    BY <2>3, <2>4
<1>5. N \in S
  <2> HIDE DEF S
  <2>1. \A k \in 0..N : k \in S
    BY <1>1, <1>3, <1>4, Climb
  <2>2. QED
    BY <1>1, <2>1
<1>6. f[N] \in Lists /\ From(f[N]) /\ Covers(f[N], N) /\ (Apart(discovered) => Apart(f[N]))
  BY <1>1, <1>5
<1>7. /\ Sorted(f[N]) \in Lists /\ ToSet(Sorted(f[N])) = ToSet(f[N])
      /\ Moved(Sorted(f[N]), f[N], DOMAIN f[N])
  BY <1>6, SortedFacts
<1>8. \A n \in ToSet(existing) : \E a \in 1..N : n = existing[a]
  BY <1>1 DEF ToSet
<1>9. QED
  BY <1>2, <1>6, <1>7, <1>8, MovedKeeps

---------------------------------------------------------------------------
(* Types, for any number of requests at a time.  A request that is about to  *)
(* load the file has one node.                                              *)
Ops   == {"none", "add", "ensure", "update", "delete", "check", "list"}
Steps == {"idle", "verify", "load", "import", "truncate", "write"}

Typed ==
  /\ file \in [ok: BOOLEAN, nodes: Lists]
  /\ pc \in [Proc -> Steps]
  /\ req \in [Proc -> [op: Ops, node: SUBSET NodeRec]]
  /\ seen \in [Proc -> Lists] /\ copy \in [Proc -> Lists]
  /\ longest \in [Proc -> Nat]
  /\ added \subseteq NodeRec /\ deleted \subseteq Uuid \cup Host /\ cut \in BOOLEAN
Asks ==
  \A p \in Proc : pc[p] \in {"verify", "load"} =>
    /\ req[p].op \notin {"none", "list"}
    /\ \E n \in NodeRec : req[p].node = {n}

TypeInv == Typed /\ Asks

(* One request at a time.                                                   *)
Sequential == \A p, q \in Proc : p = q

(* What the ghosts become when request p has written its list.              *)
AddedBy(p) ==
  CASE req[p].op = "add" -> added \cup req[p].node
    [] req[p].op \in {"update", "delete"} ->
         {n \in added : n.id \notin Drawn(p)}
         \cup {n \in req[p].node : req[p].op = "update" /\ n.id \in Uuid}
    [] OTHER -> added
DeletedBy(p) ==
  CASE req[p].op = "delete" -> deleted \cup {n.id : n \in req[p].node}
    [] req[p].op = "ensure" -> deleted \ {n.id : n \in req[p].node}
    [] OTHER -> deleted

(* The ids of deleted nodes that no .res file names are in the store no      *)
(* more, and in no list that a request is about to write.                   *)
Named(i) == \E k \in DOMAIN Res : Res[k].host = i
FileForgets == \A n \in Nodes : n.id \notin deleted \/ Named(n.id)
NodeForgets ==
  \A p \in Proc : pc[p] \in {"verify", "load"} /\ req[p].op # "ensure" =>
    \A n \in req[p].node : n.id \notin deleted \/ Named(n.id)
CopyForgets ==
  \A p \in Proc : pc[p] \in {"truncate", "write"} =>
    \A n \in ToSet(copy[p]) : n.id \notin DeletedBy(p) \/ Named(n.id)
SeesFile ==
  \A p \in Proc : pc[p] = "import" => seen[p] = file.nodes /\ req[p].op = "list"

ForgetInv == TypeInv /\ FileForgets /\ NodeForgets /\ CopyForgets /\ SeesFile

(* The added nodes in a list are different hosts; and those that are Free    *)
(* are in it, and alone with their name, address and id.                    *)
Distinct(nodes, add) ==
  \A m, n \in add \cap ToSet(nodes) : m # n => ~SameHost(m, n)
Kept(nodes, add) ==
  \A n \in add : Free(n) =>
    n \in ToSet(nodes) /\ \A x \in ToSet(nodes) : SameHost(x, n) => x = n
Sound(nodes, add) ==
  Tidy(nodes) /\ Distinct(nodes, add) /\ (~cut => Kept(nodes, add))

Writing   == \E p \in Proc : pc[p] = "write"
FileSound ==
  /\ Tidy(file.nodes) /\ Distinct(file.nodes, added)
  /\ ~cut /\ ~Writing => file.ok /\ Sound(file.nodes, added)
CopySound ==
  \A p \in Proc : pc[p] \in {"truncate", "write"} => Sound(copy[p], AddedBy(p))
GhostIds ==
  /\ \A n \in added : n.id \in Uuid
  /\ \A p \in Proc : pc[p] \in {"truncate", "write"} => \A n \in AddedBy(p) : n.id \in Uuid
Alone    == \A p \in Proc : longest[p] = 0

(* What the duplicate checks told a request still is so when it loads.      *)
Checked(op, n) ==
  /\ op = "add" => n.id \in Uuid /\ \A m \in Nodes : ~SameHost(m, n)
  /\ op = "ensure" => /\ n.id \in Host /\ n.host \in Host /\ n.ip = Dns[n.host]
                      /\ \A m \in Nodes : m.host # n.host
  /\ op = "update" => \A m \in Nodes : m.id # n.id => ~SameHost(m, n)
  /\ op \in {"delete", "check"} => n \in Nodes
StillChecked ==
  \A p \in Proc : pc[p] \in {"verify", "load"} =>
    file.ok /\ \A n \in req[p].node : Checked(req[p].op, n)

SoundInv ==
  TypeInv /\ FileSound /\ CopySound /\ GhostIds /\ Alone /\ StillChecked /\ SeesFile

(* What list_nodes is about to write.                                       *)
ListsApart ==
  \A p \in Proc : pc[p] \in {"truncate", "write"} /\ req[p].op = "list" => Apart(copy[p])

LEMMA TypesInitially == Init => TypeInv
<1>1. <<>> \in Lists
  BY DEF Lists
<1>2. NoReq \in [op: Ops, node: SUBSET NodeRec]
  BY DEF NoReq, Ops
<1>3. Init => Typed
  <2>1. [ok |-> TRUE, nodes |-> <<>>] \in [ok: BOOLEAN, nodes: Lists]
    BY <1>1
  <2>2. [p \in Proc |-> "idle"] \in [Proc -> Steps]
    BY DEF Steps
  <2>3. [p \in Proc |-> NoReq] \in [Proc -> [op: Ops, node: SUBSET NodeRec]]
    BY <1>2
  <2>4. [p \in Proc |-> <<>>] \in [Proc -> Lists]
    BY <1>1
  <2>5. [p \in Proc |-> 0] \in [Proc -> Nat]
    OBVIOUS
  <2>6. SUFFICES ASSUME Init
                 PROVE  Typed
    OBVIOUS
  <2>7. file \in [ok: BOOLEAN, nodes: Lists]
    BY <2>1, <2>6, Zenon DEF Init
  <2>8. pc \in [Proc -> Steps] /\ req \in [Proc -> [op: Ops, node: SUBSET NodeRec]]
    BY <2>2, <2>3, <2>6, Zenon DEF Init
  <2>9. seen \in [Proc -> Lists] /\ copy \in [Proc -> Lists] /\ longest \in [Proc -> Nat]
    BY <2>4, <2>5, <2>6, Zenon DEF Init
  <2>10. added \subseteq NodeRec /\ deleted \subseteq Uuid \cup Host /\ cut \in BOOLEAN
    BY <2>6 DEF Init
  <2>11. QED
    BY <2>7, <2>8, <2>9, <2>10 DEF Typed
<1>4. Init => Asks
  BY DEF Init, Asks
<1>5. QED
  BY <1>3, <1>4 DEF TypeInv

LEMMA NodesAreTyped ==
  ASSUME TypeInv
  PROVE  Nodes \subseteq NodeRec
<1>1. file.nodes \in Lists
  BY DEF TypeInv, Typed
<1>2. QED
  BY <1>1, ListFacts DEF Nodes

LEMMA BeginTyped ==
  ASSUME TypeInv, NEW p \in Proc, NEW op \in Ops \ {"none", "list"}, NEW n \in NodeRec,
         NEW step \in {"verify", "load"}, Begin(p, op, n, step)
  PROVE  TypeInv'
<1>1. /\ req' = [req EXCEPT ![p] = [op |-> op, node |-> {n}]]
      /\ pc' = [pc EXCEPT ![p] = step]
      /\ UNCHANGED <<file, seen, copy, longest, added, deleted, cut>>
  BY DEF Begin, Ghosts
<1>2. Typed'
  <2>1. {n} \in SUBSET NodeRec /\ step \in Steps
    BY DEF Steps
  <2>2. [op |-> op, node |-> {n}] \in [op: Ops, node: SUBSET NodeRec]
    BY <2>1
  <2>3. QED
    BY <1>1, <2>1, <2>2 DEF TypeInv, Typed
<1>3. Asks'
  <2>1. pc \in [Proc -> Steps] /\ req \in [Proc -> [op: Ops, node: SUBSET NodeRec]]
    BY DEF TypeInv, Typed
  <2>2. req'[p].op = op /\ req'[p].node = {n}
    BY <1>1, <2>1
  <2>3. \A q \in Proc : q # p => req'[q] = req[q] /\ pc'[q] = pc[q]
    BY <1>1, <2>1
  <2>4. QED
    BY <2>2, <2>3 DEF TypeInv, Asks
<1>4. QED
  BY <1>2, <1>3 DEF TypeInv

(* The steps that begin a request with a node, and with which node.         *)
Begins(p, op, n, step) ==
  op \in Ops \ {"none", "list"} /\ n \in NodeRec /\ step \in {"verify", "load"}
  /\ Begin(p, op, n, step)

LEMMA AddBegins ==
  ASSUME NEW p \in Proc, NEW h \in Host, NEW i \in Ip, Add(p, h, i)
  PROVE  \E n : /\ Begins(p, "add", n, "verify") /\ n.id \in FreshIds
                /\ \A m \in Nodes : ~Clashes(m, n.host, n.ip)
<1>1. PICK u \in FreshIds : Begin(p, "add", [id |-> u, host |-> h, ip |-> i], "verify")
  BY DEF Add
<1>2. [id |-> u, host |-> h, ip |-> i] \in NodeRec
  BY DEF FreshIds, NodeRec
<1>3. QED
  BY <1>1, <1>2 DEF Begins, Ops, Add

LEMMA EnsureBegins ==
  ASSUME NEW p \in Proc, NEW h \in Host, Ensure(p, h)
  PROVE  \E n : /\ Begins(p, "ensure", n, "load") /\ n.id = h /\ n.host = h /\ n.ip = Dns[h]
                /\ \A m \in Nodes : m.host # h
<1>1. [id |-> h, host |-> h, ip |-> Dns[h]] \in NodeRec
  BY RegistryAssumption DEF NodeRec
<1>2. QED
  BY <1>1 DEF Ensure, Begins, Ops

LEMMA UpdateBegins ==
  ASSUME TypeInv, NEW p \in Proc, NEW m \in Nodes, NEW h \in Host, NEW i \in Ip, Update(p, m, h, i)
  PROVE  \E n : /\ Begins(p, "update", n, "load") /\ n.id = m.id /\ n.host = h /\ n.ip = i
                /\ \A x \in Nodes : x.id # m.id /\ x.host # m.host => ~Clashes(x, h, i)
<1> DEFINE n == [m EXCEPT !.host = h, !.ip = i]
<1>1. m \in NodeRec
  BY NodesAreTyped
<1>2. n \in NodeRec /\ n.id = m.id /\ n.host = h /\ n.ip = i
  BY <1>1 DEF NodeRec
<1>3. Begin(p, "update", n, "load") /\ \A x \in Nodes : x.id # m.id /\ x.host # m.host => ~Clashes(x, h, i)
  BY DEF Update
<1> HIDE DEF n
<1>4. QED
  BY <1>2, <1>3 DEF Begins, Ops

LEMMA DeleteBegins ==
  ASSUME TypeInv, NEW p \in Proc, NEW n \in Nodes
  PROVE  /\ Delete(p, n) => Begins(p, "delete", n, "load")
         /\ CheckStatus(p, n) => Begins(p, "check", n, "verify")
<1>1. n \in NodeRec
  BY NodesAreTyped
<1>2. QED
  BY <1>1 DEF Delete, CheckStatus, Begins, Ops

(* The node of a request that loads.                                        *)
LEMMA LoadedNode ==
  ASSUME TypeInv, NEW p \in Proc, pc[p] = "load"
  PROVE  \E n \in NodeRec : req[p].node = {n} /\ (CHOOSE m \in req[p].node : TRUE) = n
<1>1. PICK n \in NodeRec : req[p].node = {n}
  BY DEF TypeInv, Asks
<1>2. QED
  BY <1>1

LEMMA LoadTyped ==
  ASSUME TypeInv, NEW p \in Proc, Load(p)
  PROVE  TypeInv'
<1>1. PICK n \in NodeRec : req[p].node = {n} /\ (CHOOSE m \in req[p].node : TRUE) = n
  BY LoadedNode DEF Load
<1>2. file.nodes \in Lists /\ pc \in [Proc -> Steps]
      /\ req \in [Proc -> [op: Ops, node: SUBSET NodeRec]] /\ copy \in [Proc -> Lists]
  BY DEF TypeInv, Typed
<1>3. Without(file.nodes, n) \in Lists /\ Upsert(file.nodes, n) \in Lists
  BY <1>2, WithoutFacts, UpsertFacts
<1>4. UNCHANGED <<file, seen, longest, added, deleted, cut>>
  BY DEF Load, Ghosts
<1>5. CASE /\ pc' = [pc EXCEPT ![p] = "truncate"]
           /\ copy' = [copy EXCEPT ![p] =
                IF req[p].op = "delete" THEN Without(file.nodes, n) ELSE Upsert(file.nodes, n)]
           /\ UNCHANGED req
  <2>1. Typed'
    BY <1>2, <1>3, <1>4, <1>5 DEF TypeInv, Typed, Steps
  <2>2. Asks'
    BY <1>2, <1>5 DEF TypeInv, Asks
  <2>3. QED
    BY <2>1, <2>2 DEF TypeInv
<1>6. CASE /\ pc' = [pc EXCEPT ![p] = "idle"] /\ req' = [req EXCEPT ![p] = NoReq]
           /\ UNCHANGED copy
  <2>1. Typed'
    BY <1>2, <1>4, <1>6 DEF TypeInv, Typed, Steps, NoReq, Ops
  <2>2. Asks'
    BY <1>2, <1>6 DEF TypeInv, Asks
  <2>3. QED
    BY <2>1, <2>2 DEF TypeInv
<1>7. QED
  BY <1>1, <1>5, <1>6 DEF Load

LEMMA ImportTyped ==
  ASSUME TypeInv, NEW p \in Proc, Import(p)
  PROVE  TypeInv'
<1>1. /\ file.nodes \in Lists /\ seen[p] \in Lists /\ pc \in [Proc -> Steps]
      /\ seen \in [Proc -> Lists] /\ copy \in [Proc -> Lists]
  BY DEF TypeInv, Typed
<1>2. PICK readable \in SUBSET DOMAIN Res :
        copy' = [copy EXCEPT ![p] = Merge(Discovered(seen[p], readable), file.nodes)]
  BY DEF Import
<1>3. Merge(Discovered(seen[p], readable), file.nodes) \in Lists /\ <<>> \in Lists
  BY <1>1, DiscoveredFacts, MergeFacts DEF Lists
<1>4. Typed'
  BY <1>1, <1>2, <1>3 DEF Import, Ghosts, TypeInv, Typed, Steps
<1>5. Asks'
  BY <1>1 DEF Import, TypeInv, Asks
<1>6. QED
  BY <1>4, <1>5 DEF TypeInv

LEMMA ListTyped ==
  ASSUME TypeInv, NEW p \in Proc, List(p)
  PROVE  TypeInv'
<1>1. /\ file.nodes \in Lists /\ pc \in [Proc -> Steps] /\ seen \in [Proc -> Lists]
      /\ req \in [Proc -> [op: Ops, node: SUBSET NodeRec]]
  BY DEF TypeInv, Typed
<1>2. Typed'
  BY <1>1 DEF List, Ghosts, TypeInv, Typed, Steps, Ops
<1>3. Asks'
  BY <1>1 DEF List, TypeInv, Asks
<1>4. QED
  BY <1>2, <1>3 DEF TypeInv

LEMMA VerifyTyped ==
  ASSUME TypeInv, NEW p \in Proc, Verify(p)
  PROVE  TypeInv'
<1>1. pc \in [Proc -> Steps]
  BY DEF TypeInv, Typed
<1>2. Typed'
  BY <1>1 DEF Verify, Ghosts, TypeInv, Typed, Steps
<1>3. Asks'
  BY <1>1 DEF Verify, TypeInv, Asks
<1>4. QED
  BY <1>2, <1>3 DEF TypeInv

LEMMA TruncateTyped ==
  ASSUME TypeInv, NEW p \in Proc, Truncate(p)
  PROVE  TypeInv'
<1>1. pc \in [Proc -> Steps] /\ longest \in [Proc -> Nat] /\ <<>> \in Lists
  BY DEF TypeInv, Typed, Lists
<1>2. Typed'
  BY <1>1 DEF Truncate, Torn, Ghosts, TypeInv, Typed, Steps
<1>3. Asks'
  BY <1>1 DEF Truncate, TypeInv, Asks
<1>4. QED
  BY <1>2, <1>3 DEF TypeInv

(* What a write does.                                                       *)
LEMMA WriteFacts ==
  ASSUME NEW p \in Proc, Write(p)
  PROVE  /\ pc[p] = "write" /\ pc' = [pc EXCEPT ![p] = "idle"]
         /\ \/ file' = [ok |-> TRUE, nodes |-> copy[p]]
            \/ file' = Torn /\ longest[p] > 0
         /\ longest' = [q \in Proc |-> IF q = p THEN 0
                         ELSE IF pc[q] = "write" /\ longest[q] < Len(copy[p]) THEN Len(copy[p])
                         ELSE longest[q]]
         /\ copy' = [copy EXCEPT ![p] = <<>>] /\ req' = [req EXCEPT ![p] = NoReq]
         /\ added' = AddedBy(p) /\ deleted' = DeletedBy(p)
         /\ UNCHANGED <<seen, cut>>
BY DEF Write, AddedBy, DeletedBy

LEMMA GhostsTyped ==
  ASSUME TypeInv, NEW p \in Proc
  PROVE  AddedBy(p) \subseteq NodeRec /\ DeletedBy(p) \subseteq Uuid \cup Host
<1>1. /\ req[p].node \subseteq NodeRec /\ added \subseteq NodeRec
      /\ deleted \subseteq Uuid \cup Host
  BY DEF TypeInv, Typed
<1>2. {n.id : n \in req[p].node} \subseteq Uuid \cup Host
  BY <1>1 DEF NodeRec
<1>3. AddedBy(p) \subseteq NodeRec
  BY <1>1 DEF AddedBy
<1>4. DeletedBy(p) \subseteq Uuid \cup Host
  BY <1>1, <1>2 DEF DeletedBy
<1>5. QED
  BY <1>3, <1>4

LEMMA WriteTyped ==
  ASSUME TypeInv, NEW p \in Proc, Write(p)
  PROVE  TypeInv'
<1>1. /\ pc \in [Proc -> Steps] /\ longest \in [Proc -> Nat] /\ <<>> \in Lists
      /\ copy \in [Proc -> Lists] /\ req \in [Proc -> [op: Ops, node: SUBSET NodeRec]]
  BY DEF TypeInv, Typed, Lists
<1>2. Len(copy[p]) \in Nat
  BY <1>1, ListFacts
<1>3. file' \in [ok: BOOLEAN, nodes: Lists]
  <2>1. file' = [ok |-> TRUE, nodes |-> copy[p]] \/ file' = Torn
    BY WriteFacts
  <2>2. [ok |-> TRUE, nodes |-> copy[p]] \in [ok: BOOLEAN, nodes: Lists]
    BY <1>1
  <2>3. Torn \in [ok: BOOLEAN, nodes: Lists]
    BY <1>1 DEF Torn
  <2>4. QED
    BY <2>1, <2>2, <2>3
<1>4. longest' \in [Proc -> Nat]
  BY <1>1, <1>2, WriteFacts
<1>5. req' \in [Proc -> [op: Ops, node: SUBSET NodeRec]]
  <2>1. NoReq \in [op: Ops, node: SUBSET NodeRec]
    BY DEF NoReq, Ops
  <2>2. req' = [req EXCEPT ![p] = NoReq]
    BY WriteFacts
  <2>3. QED
    BY <1>1, <2>1, <2>2
<1>6. added' \subseteq NodeRec /\ deleted' \subseteq Uuid \cup Host
  BY GhostsTyped, WriteFacts
<1>7. /\ pc' = [pc EXCEPT ![p] = "idle"] /\ copy' = [copy EXCEPT ![p] = <<>>]
      /\ req' = [req EXCEPT ![p] = NoReq] /\ UNCHANGED <<seen, cut>>
  BY WriteFacts
<1>8. Typed'
  BY <1>1, <1>3, <1>4, <1>5, <1>6, <1>7 DEF TypeInv, Typed, Steps
<1>9. Asks'
  BY <1>1, <1>7 DEF TypeInv, Asks
<1>10. QED
  BY <1>8, <1>9 DEF TypeInv

LEMMA RestartTyped ==
  ASSUME TypeInv, Restart
  PROVE  TypeInv'
<1>1. <<>> \in Lists
  BY DEF Lists
<1>2. QED
  BY <1>1 DEF Restart, TypeInv, Typed, Asks, Steps, Ops, NoReq

LEMMA TypesAreKept == TypeInv /\ [Next]_vars => TypeInv'
<1> SUFFICES ASSUME TypeInv, [Next]_vars
             PROVE  TypeInv'
  OBVIOUS
<1>1. ASSUME NEW p \in Proc, NEW op, NEW n, NEW step, Begins(p, op, n, step)
      PROVE  TypeInv'
  BY <1>1, BeginTyped DEF Begins
<1>2. ASSUME NEW p \in Proc, NEW h \in Host, Ensure(p, h)
      PROVE  TypeInv'
  BY <1>1, <1>2, EnsureBegins
<1>3. ASSUME NEW p \in Proc, NEW h \in Host, NEW i \in Ip, Add(p, h, i)
      PROVE  TypeInv'
  BY <1>1, <1>3, AddBegins
<1>4. ASSUME NEW p \in Proc, NEW h \in Host, NEW i \in Ip, NEW n \in Nodes, Update(p, n, h, i)
      PROVE  TypeInv'
  BY <1>1, <1>4, UpdateBegins
<1>5. ASSUME NEW p \in Proc, NEW n \in Nodes, Delete(p, n) \/ CheckStatus(p, n)
      PROVE  TypeInv'
  BY <1>1, <1>5, DeleteBegins
<1>6. CASE Restart
  BY <1>6, RestartTyped
<1>7. CASE UNCHANGED vars
  BY <1>7 DEF vars, TypeInv, Typed, Asks
<1>8. QED
  BY <1>2, <1>3, <1>4, <1>5, <1>6, <1>7, ListTyped, VerifyTyped, LoadTyped, ImportTyped,
     TruncateTyped, WriteTyped DEF Next

(* The types of the registry's state, for any number of requests at a time  *)
(* and whatever crashes (NodeStore, store.rs).                              *)
THEOREM RegistryTyped == Spec => []TypeOK
<1>1. TypeInv => TypeOK
  BY DEF TypeInv, Typed, TypeOK, Lists, Steps, Ops
<1>2. QED
  BY <1>1, TypesInitially, TypesAreKept, PTL DEF Spec


---------------------------------------------------------------------------
(* list_nodes leaves no two entries for a host.                             *)
(* What a request that begins knows of its node.                            *)
Passed(op, n) ==
  /\ op = "add" => n.id \in FreshIds /\ \A m \in Nodes : ~Clashes(m, n.host, n.ip)
  /\ op = "ensure" => /\ n.id = n.host /\ n.host \in Host /\ n.ip = Dns[n.host]
                      /\ \A m \in Nodes : m.host # n.host
  /\ op = "update" => \E m \in Nodes :
       n.id = m.id /\ \A x \in Nodes : x.id # m.id /\ x.host # m.host => ~Clashes(x, n.host, n.ip)
  /\ op \in {"delete", "check"} => n \in Nodes

Starts(p) == \E op, n, step : Begins(p, op, n, step) /\ Passed(op, n)

LEMMA EveryStep ==
  ASSUME TypeInv, Next
  PROVE  \/ \E p \in Proc : \/ Starts(p) \/ List(p) \/ Verify(p) \/ Load(p) \/ Import(p)
                            \/ Truncate(p) \/ Write(p)
         \/ Restart
<1>1. ASSUME NEW p \in Proc, NEW h \in Host, Ensure(p, h)
      PROVE  Starts(p)
  BY <1>1, EnsureBegins DEF Starts, Passed
<1>2. ASSUME NEW p \in Proc, NEW h \in Host, NEW i \in Ip, Add(p, h, i)
      PROVE  Starts(p)
  BY <1>2, AddBegins DEF Starts, Passed
<1>3. ASSUME NEW p \in Proc, NEW h \in Host, NEW i \in Ip, NEW n \in Nodes, Update(p, n, h, i)
      PROVE  Starts(p)
  BY <1>3, UpdateBegins DEF Starts, Passed
<1>4. ASSUME NEW p \in Proc, NEW n \in Nodes, Delete(p, n) \/ CheckStatus(p, n)
      PROVE  Starts(p)
  BY <1>4, DeleteBegins DEF Starts, Passed
<1>5. QED
  BY <1>1, <1>2, <1>3, <1>4 DEF Next

(* What a request does to its own place in the tables, and to no other.     *)
LEMMA StartsMoves ==
  ASSUME TypeInv, NEW p \in Proc, NEW op, NEW n, NEW step, Begins(p, op, n, step)
  PROVE  /\ pc[p] = "idle" /\ file.ok /\ pc'[p] = step /\ req'[p].op = op /\ req'[p].node = {n}
         /\ op \in Ops \ {"none", "list"} /\ n \in NodeRec /\ step \in {"verify", "load"}
         /\ UNCHANGED <<file, seen, copy, longest, added, deleted, cut>>
         /\ \A q \in Proc : q # p => pc'[q] = pc[q] /\ req'[q] = req[q]
<1>1. pc \in [Proc -> Steps] /\ req \in [Proc -> [op: Ops, node: SUBSET NodeRec]]
  BY DEF TypeInv, Typed
<1>2. /\ req' = [req EXCEPT ![p] = [op |-> op, node |-> {n}]]
      /\ pc' = [pc EXCEPT ![p] = step]
  BY DEF Begins, Begin
<1>3. pc'[p] = step /\ req'[p] = [op |-> op, node |-> {n}]
  BY <1>1, <1>2
<1>4. \A q \in Proc : q # p => pc'[q] = pc[q] /\ req'[q] = req[q]
  BY <1>1, <1>2
<1>5. QED
  BY <1>3, <1>4 DEF Begins, Begin, Ghosts

(* The request that is at work: its list is the one other requests do not   *)
(* touch.                                                                   *)
LEMMA ApartInitially == Init => ListsApart
BY DEF Init, ListsApart

LEMMA ApartIsKept ==
  ASSUME Settled, TypeInv, ListsApart, [Next]_vars
  PROVE  ListsApart'
<1>1. /\ pc \in [Proc -> Steps] /\ copy \in [Proc -> Lists] /\ seen \in [Proc -> Lists]
      /\ req \in [Proc -> [op: Ops, node: SUBSET NodeRec]] /\ file.nodes \in Lists
  BY DEF TypeInv, Typed
<1>2. ASSUME NEW p \in Proc, Starts(p)
      PROVE  ListsApart'
  BY <1>2, StartsMoves DEF Starts, ListsApart
<1>3. ASSUME NEW p \in Proc, List(p)
      PROVE  ListsApart'
  BY <1>1, <1>3 DEF List, ListsApart
<1>4. ASSUME NEW p \in Proc, Verify(p)
      PROVE  ListsApart'
  BY <1>1, <1>4 DEF Verify, ListsApart
<1>5. ASSUME NEW p \in Proc, Load(p)
      PROVE  ListsApart'
  <2>1. req[p].op # "list" /\ (req'[p].op = req[p].op \/ req'[p].op = "none")
    BY <1>1, <1>5 DEF Load, TypeInv, Asks, NoReq
  <2>2. \A q \in Proc : q # p => pc'[q] = pc[q] /\ req'[q] = req[q] /\ copy'[q] = copy[q]
    BY <1>1, <1>5 DEF Load
  <2>3. QED
    BY <2>1, <2>2 DEF ListsApart
<1>6. ASSUME NEW p \in Proc, Import(p)
      PROVE  ListsApart'
  <2>1. PICK readable : copy'[p] = Merge(Discovered(seen[p], readable), file.nodes) /\ req' = req
    BY <1>1, <1>6 DEF Import
  <2>2. Apart(Merge(Discovered(seen[p], readable), file.nodes))
    BY <1>1, DiscoveredFacts, MergeFacts
  <2>3. \A q \in Proc : q # p => pc'[q] = pc[q] /\ copy'[q] = copy[q]
    BY <1>1, <1>6 DEF Import
  <2>4. QED
    BY <2>1, <2>2, <2>3 DEF ListsApart
<1>7. ASSUME NEW p \in Proc, Truncate(p)
      PROVE  ListsApart'
  BY <1>1, <1>7 DEF Truncate, ListsApart
<1>8. ASSUME NEW p \in Proc, Write(p)
      PROVE  ListsApart'
  <2>1. pc'[p] = "idle"
        /\ \A q \in Proc : q # p => pc'[q] = pc[q] /\ req'[q] = req[q] /\ copy'[q] = copy[q]
    BY <1>1, <1>8, WriteFacts
  <2>2. QED
    BY <2>1 DEF ListsApart
<1>9. CASE Restart
  BY <1>9 DEF Restart, ListsApart
<1>10. CASE UNCHANGED vars
  BY <1>10 DEF vars, ListsApart
<1>11. QED
  BY <1>2, <1>3, <1>4, <1>5, <1>6, <1>7, <1>8, <1>9, <1>10, EveryStep

(* Whatever the other requests and crashes did, the list that list_nodes     *)
(* writes names no host, no address and no id twice (cluster.rs 208-262),    *)
(* for any number of requests at a time and any .res files that agree on     *)
(* who is who.                                                              *)
THEOREM ListsDeduplicate == Settled => (Spec => ListDeduplicates)
<1> SUFFICES ASSUME Settled
             PROVE  Spec => ListDeduplicates
  OBVIOUS
<1>1. Init => TypeInv /\ ListsApart
  BY TypesInitially, ApartInitially
<1>2. TypeInv /\ ListsApart /\ [Next]_vars => (TypeInv /\ ListsApart)'
  BY TypesAreKept, ApartIsKept
<1>3. TypeInv /\ ListsApart /\ [Next]_vars =>
        [\A p \in Proc : Listed(p) =>
           \A j, k \in DOMAIN file'.nodes :
             j # k => ~SameHost(file'.nodes[j], file'.nodes[k])]_vars
  <2>1. ASSUME ListsApart, NEW p \in Proc, Listed(p)
        PROVE  \A j, k \in DOMAIN file'.nodes :
                 j # k => ~SameHost(file'.nodes[j], file'.nodes[k])
    <3>1. file'.nodes = copy[p] /\ pc[p] = "write" /\ req[p].op = "list"
      BY <2>1, WriteFacts DEF Listed, Torn
    <3>2. Apart(copy[p])
      BY <2>1, <3>1 DEF ListsApart
    <3>3. QED
      BY <3>1, <3>2 DEF Apart
  <2>2. QED
    BY <2>1
<1>4. QED
  BY <1>1, <1>2, <1>3, PTL DEF Spec, ListDeduplicates

---------------------------------------------------------------------------
(* The id of a deleted node comes back only where a .res file names it.     *)
LEMMA MergedIds ==
  ASSUME NEW nodes \in Lists, NEW readable, NEW x \in ToSet(Merge(Discovered(nodes, readable), nodes))
  PROVE  Named(x.id) \/ \E m \in ToSet(nodes) : x.id = m.id
<1>1. Discovered(nodes, readable) \in Lists
  BY DiscoveredFacts
<1>2. x \in ToSet(Discovered(nodes, readable)) \/ x \in ToSet(nodes)
  BY <1>1, MergeFacts
<1>3. ASSUME x \in ToSet(Discovered(nodes, readable))
      PROVE  Named(x.id) \/ \E m \in ToSet(nodes) : x.id = m.id
  <2>1. PICK k \in DOMAIN Res : x = Found(nodes, Res[k])
    BY <1>3, DiscoveredFacts
  <2>2. x.id = IdFor(nodes, Res[k]) /\ Res[k] \in Entry
    BY <2>1, ResFacts DEF Found
  <2>3. Res[k].host \in Host
    BY <2>2 DEF Entry
  <2>4. QED
    BY <2>2, <2>3, IdForFacts DEF Named
<1>4. QED
  BY <1>2, <1>3

LEMMA ForgetsInitially == Init => ForgetInv
<1>1. Init => FileForgets /\ NodeForgets /\ CopyForgets /\ SeesFile
  BY DEF Init, FileForgets, NodeForgets, CopyForgets, SeesFile
<1>2. QED
  BY <1>1, TypesInitially DEF ForgetInv

LEMMA StartsForget ==
  ASSUME Sequential, ForgetInv, NEW p \in Proc, Starts(p)
  PROVE  FileForgets' /\ NodeForgets' /\ CopyForgets' /\ SeesFile'
<1>1. TypeInv /\ \A q \in Proc : q = p
  BY DEF Sequential, ForgetInv
<1>2. PICK op, n, step : Begins(p, op, n, step) /\ Passed(op, n)
  BY DEF Starts
<1>3. /\ pc'[p] \in {"verify", "load"} /\ req'[p].node = {n} /\ req'[p].op = op
      /\ op \in Ops \ {"none", "list"}
      /\ file' = file /\ deleted' = deleted
  BY <1>1, <1>2, StartsMoves
<1>4. n.id \notin deleted \/ Named(n.id) \/ op = "ensure"
  <2>1. CASE op = "add"
    BY <1>2, <2>1 DEF Passed, FreshIds
  <2>2. CASE op = "ensure"
    BY <2>2
  <2>3. CASE op \in {"update", "delete", "check"}
    BY <1>2, <2>3 DEF Passed, ForgetInv, FileForgets
  <2>4. QED
    BY <1>3, <2>1, <2>2, <2>3 DEF Ops
<1>5. QED
  BY <1>1, <1>3, <1>4 DEF ForgetInv, FileForgets, Nodes, NodeForgets, CopyForgets, SeesFile

LEMMA LoadForgets ==
  ASSUME Sequential, ForgetInv, NEW p \in Proc, Load(p)
  PROVE  FileForgets' /\ NodeForgets' /\ CopyForgets' /\ SeesFile'
<1>1. TypeInv /\ (\A q \in Proc : q = p) /\ pc[p] = "load"
  BY DEF Sequential, ForgetInv, Load
<1>2. /\ pc \in [Proc -> Steps] /\ req \in [Proc -> [op: Ops, node: SUBSET NodeRec]]
      /\ copy \in [Proc -> Lists] /\ file.nodes \in Lists
  BY <1>1 DEF TypeInv, Typed
<1>3. PICK n \in NodeRec : req[p].node = {n} /\ (CHOOSE m \in req[p].node : TRUE) = n
  BY <1>1, LoadedNode
<1>4. UNCHANGED <<file, deleted>> /\ pc'[p] \in {"truncate", "idle"}
  BY <1>2 DEF Load, Ghosts
<1>5. FileForgets' /\ NodeForgets' /\ SeesFile'
  BY <1>1, <1>4 DEF ForgetInv, FileForgets, Nodes, NodeForgets, SeesFile
<1>6. ASSUME pc'[p] = "truncate"
      PROVE  \A m \in ToSet(copy'[p]) : m.id \notin DeletedBy(p)' \/ Named(m.id)
  <2>1. /\ req' = req
        /\ copy'[p] = IF req[p].op = "delete" THEN Without(file.nodes, n) ELSE Upsert(file.nodes, n)
    BY <1>2, <1>3, <1>6 DEF Load
  <2>2. /\ req[p].op # "ensure" => n.id \notin deleted \/ Named(n.id)
        /\ \A m \in ToSet(file.nodes) : m.id \notin deleted \/ Named(m.id)
    BY <1>1, <1>3 DEF ForgetInv, FileForgets, NodeForgets, Nodes
  <2>3. CASE req[p].op = "delete"
    <3>1. DeletedBy(p)' = deleted \cup {n.id}
      BY <1>3, <1>4, <2>1, <2>3 DEF DeletedBy
    <3>2. ToSet(copy'[p]) = {m \in ToSet(file.nodes) : m.id # n.id}
      BY <1>2, <2>1, <2>3, WithoutFacts
    <3>3. QED
      BY <2>2, <3>1, <3>2
  <2>4. CASE req[p].op # "delete"
    <3>1. DeletedBy(p)' = IF req[p].op = "ensure" THEN deleted \ {n.id} ELSE deleted
      BY <1>3, <1>4, <2>1, <2>4 DEF DeletedBy
    <3>2. ToSet(copy'[p]) \subseteq ToSet(file.nodes) \cup {n}
      BY <1>2, <2>1, <2>4, UpsertFacts
    <3>3. QED
      BY <2>2, <3>1, <3>2
  <2>5. QED
    BY <2>3, <2>4
<1>7. CopyForgets'
  BY <1>1, <1>4, <1>6 DEF CopyForgets
<1>8. QED
  BY <1>5, <1>7

LEMMA ImportForgets ==
  ASSUME Sequential, ForgetInv, NEW p \in Proc, Import(p)
  PROVE  FileForgets' /\ NodeForgets' /\ CopyForgets' /\ SeesFile'
<1>1. TypeInv /\ (\A q \in Proc : q = p) /\ pc[p] = "import"
  BY DEF Sequential, ForgetInv, Import
<1>2. pc \in [Proc -> Steps] /\ copy \in [Proc -> Lists] /\ file.nodes \in Lists
  BY <1>1 DEF TypeInv, Typed
<1>3. seen[p] = file.nodes /\ req[p].op = "list"
  BY <1>1 DEF ForgetInv, SeesFile
<1>4. PICK readable : /\ UNCHANGED <<file, req, deleted>> /\ pc'[p] = "truncate"
                      /\ copy'[p] = Merge(Discovered(file.nodes, readable), file.nodes)
  BY <1>2, <1>3 DEF Import, Ghosts
<1>5. DeletedBy(p)' = deleted
  BY <1>3, <1>4 DEF DeletedBy
<1>6. \A m \in ToSet(copy'[p]) : m.id \notin deleted \/ Named(m.id)
  BY <1>1, <1>2, <1>4, MergedIds DEF ForgetInv, FileForgets, Nodes
<1>7. QED
  BY <1>1, <1>4, <1>5, <1>6 DEF ForgetInv, FileForgets, Nodes, NodeForgets, CopyForgets, SeesFile

LEMMA TruncateForgets ==
  ASSUME Sequential, ForgetInv, NEW p \in Proc, Truncate(p)
  PROVE  FileForgets' /\ NodeForgets' /\ CopyForgets' /\ SeesFile'
<1>1. (\A q \in Proc : q = p) /\ pc \in [Proc -> Steps]
  BY DEF Sequential, ForgetInv, TypeInv, Typed
<1>2. /\ file' = Torn /\ pc[p] = "truncate" /\ pc'[p] = "write"
      /\ UNCHANGED <<req, copy, deleted>>
  BY <1>1 DEF Truncate, Ghosts
<1>3. FileForgets'
  BY <1>2 DEF FileForgets, Nodes, Torn, ToSet
<1>4. DeletedBy(p)' = DeletedBy(p)
  BY <1>2 DEF DeletedBy, Drawn
<1>5. QED
  BY <1>1, <1>2, <1>3, <1>4 DEF ForgetInv, NodeForgets, CopyForgets, SeesFile

LEMMA WriteForgets ==
  ASSUME Sequential, ForgetInv, NEW p \in Proc, Write(p)
  PROVE  FileForgets' /\ NodeForgets' /\ CopyForgets' /\ SeesFile'
<1>1. (\A q \in Proc : q = p) /\ pc \in [Proc -> Steps]
  BY DEF Sequential, ForgetInv, TypeInv, Typed
<1>2. /\ pc[p] = "write" /\ pc'[p] = "idle" /\ deleted' = DeletedBy(p)
      /\ file'.nodes = copy[p] \/ file'.nodes = <<>>
  BY <1>1, WriteFacts DEF Torn
<1>3. \A m \in ToSet(copy[p]) : m.id \notin DeletedBy(p) \/ Named(m.id)
  BY <1>2 DEF ForgetInv, CopyForgets
<1>4. FileForgets'
  BY <1>2, <1>3 DEF FileForgets, Nodes, ToSet
<1>5. QED
  BY <1>1, <1>2, <1>4 DEF NodeForgets, CopyForgets, SeesFile

LEMMA ForgetsAreKept ==
  ASSUME Sequential, ForgetInv, [Next]_vars
  PROVE  ForgetInv'
<1>1. TypeInv /\ TypeInv'
  BY TypesAreKept DEF ForgetInv
<1>2. pc \in [Proc -> Steps] /\ seen \in [Proc -> Lists]
      /\ req \in [Proc -> [op: Ops, node: SUBSET NodeRec]]
  BY <1>1 DEF TypeInv, Typed
<1>3. ASSUME NEW p \in Proc, List(p)
      PROVE  FileForgets' /\ NodeForgets' /\ CopyForgets' /\ SeesFile'
  <2>1. /\ \A q \in Proc : q = p
        /\ UNCHANGED <<file, deleted>> /\ pc'[p] = "import" /\ seen'[p] = file.nodes
        /\ req'[p].op = "list"
    BY <1>2, <1>3 DEF Sequential, List, Ghosts
  <2>2. QED
    BY <2>1 DEF ForgetInv, FileForgets, Nodes, NodeForgets, CopyForgets, SeesFile
<1>4. ASSUME NEW p \in Proc, Verify(p)
      PROVE  FileForgets' /\ NodeForgets' /\ CopyForgets' /\ SeesFile'
  <2>1. /\ \A q \in Proc : q = p
        /\ UNCHANGED <<file, req, deleted>> /\ pc[p] = "verify" /\ pc'[p] = "load"
    BY <1>2, <1>4 DEF Sequential, Verify, Ghosts
  <2>2. QED
    BY <2>1 DEF ForgetInv, FileForgets, Nodes, NodeForgets, CopyForgets, SeesFile
<1>5. ASSUME Restart
      PROVE  FileForgets' /\ NodeForgets' /\ CopyForgets' /\ SeesFile'
  <2>1. UNCHANGED <<file, deleted>> /\ \A q \in Proc : pc'[q] = "idle"
    BY <1>5 DEF Restart
  <2>2. QED
    BY <2>1 DEF ForgetInv, FileForgets, Nodes, NodeForgets, CopyForgets, SeesFile
<1>6. ASSUME UNCHANGED vars
      PROVE  FileForgets' /\ NodeForgets' /\ CopyForgets' /\ SeesFile'
  <2>1. UNCHANGED <<file, pc, req, seen, copy, deleted>>
    BY <1>6 DEF vars
  <2>2. FileForgets' /\ NodeForgets' /\ SeesFile'
    BY <2>1 DEF ForgetInv, FileForgets, Nodes, NodeForgets, SeesFile
  <2>3. CopyForgets'
    BY <2>1 DEF ForgetInv, CopyForgets, DeletedBy, Drawn
  <2>4. QED
    BY <2>2, <2>3
<1>7. FileForgets' /\ NodeForgets' /\ CopyForgets' /\ SeesFile'
  <2>1. ASSUME NEW p \in Proc,
               Starts(p) \/ Load(p) \/ Import(p) \/ Truncate(p) \/ Write(p)
        PROVE  FileForgets' /\ NodeForgets' /\ CopyForgets' /\ SeesFile'
    BY <2>1, StartsForget, LoadForgets, ImportForgets, TruncateForgets, WriteForgets
  <2>2. CASE Next
    BY <1>1, <1>3, <1>4, <1>5, <2>1, <2>2, EveryStep
  <2>3. QED
    BY <1>6, <2>2
<1>8. QED
  BY <1>1, <1>7 DEF ForgetInv

(* A node whose deletion was answered with 204 does not come back, whatever  *)
(* requests and restarts follow, unless a later evict or enable request or   *)
(* a .res file names its host; as long as no two requests overlap: those     *)
(* that do lose updates (NodeStore::delete, store.rs; list_nodes and         *)
(* delete_node, cluster.rs).                                                *)
THEOREM DeletedStays == Sequential => (Spec => []DeletedStaysDeleted)
<1> SUFFICES ASSUME Sequential
             PROVE  Spec => []DeletedStaysDeleted
  OBVIOUS
<1>1. ForgetInv => DeletedStaysDeleted
  BY DEF ForgetInv, FileForgets, Named, DeletedStaysDeleted
<1>2. ForgetInv /\ [Next]_vars => ForgetInv'
  BY ForgetsAreKept
<1>3. QED
  BY <1>1, <1>2, ForgetsInitially, PTL DEF Spec

---------------------------------------------------------------------------
(* The added nodes.  What a list becomes when one of its nodes is replaced. *)
Replaced(set, n) == {m \in set : m.id # n.id} \cup {n}

(* n is kept in the place of the node with its id, when no other node is     *)
(* the same host.                                                           *)
LEMMA ReplacedFacts ==
  ASSUME NEW old \in Lists, NEW new \in Lists, NEW n, NEW add, NEW next,
         ToSet(new) = Replaced(ToSet(old), n),
         \A m \in ToSet(old) : m.id # n.id => ~SameHost(m, n),
         \A a \in next : a = n \/ (a \in add /\ (a \in ToSet(old) => a.id # n.id))
  PROVE  /\ Distinct(old, add) => Distinct(new, next)
         /\ Kept(old, add) => Kept(new, next)
<1>1. \A x \in ToSet(new) : x = n \/ (x \in ToSet(old) /\ x.id # n.id /\ ~SameHost(x, n))
  BY DEF Replaced
<1>2. \A x, y : SameHost(x, y) <=> SameHost(y, x)
  BY DEF SameHost
<1>3. Distinct(old, add) => Distinct(new, next)
  BY <1>1, <1>2 DEF Distinct
<1>4. ASSUME Kept(old, add), NEW a \in next, Free(a)
      PROVE  a \in ToSet(new) /\ \A x \in ToSet(new) : SameHost(x, a) => x = a
  <2>1. CASE a = n
    BY <1>1, <2>1 DEF Replaced
  <2>2. CASE a # n
    <3>1. a \in ToSet(old) /\ \A x \in ToSet(old) : SameHost(x, a) => x = a
      BY <1>4, <2>2 DEF Kept
    <3>2. a.id # n.id
      BY <2>2, <3>1
    <3>3. a \in ToSet(new) /\ ~SameHost(n, a)
      BY <1>2, <3>1, <3>2 DEF Replaced
    <3>4. QED
      BY <1>1, <3>1, <3>3
  <2>3. QED
    BY <2>1, <2>2
<1>5. QED
  BY <1>3, <1>4 DEF Kept

(* The nodes of one id, and of one name, in a list where nodes differ.      *)
LEMMA TidyFacts ==
  ASSUME NEW nodes, Tidy(nodes), NEW m \in ToSet(nodes), NEW n \in ToSet(nodes)
  PROVE  /\ m.id = n.id => m = n
         /\ m.host = n.host => m = n
BY DEF Tidy, ToSet

LEMMA ApartFacts ==
  ASSUME NEW nodes, Apart(nodes)
  PROVE  \A add : Distinct(nodes, add)
BY DEF Apart, Distinct, ToSet

(* What is known of the file while no request is in the middle of a write.  *)
LEMMA SoundFile ==
  ASSUME Sequential, SoundInv, NEW p \in Proc, pc[p] # "write"
  PROVE  /\ \A q \in Proc : q = p
         /\ Sound(file.nodes, added)
         /\ ~cut => file.ok
<1>1. (\A q \in Proc : q = p) /\ ~Writing
  BY DEF Sequential, Writing
<1>2. QED
  BY <1>1 DEF SoundInv, FileSound, Sound

LEMMA AddSound ==
  ASSUME Sequential, SoundInv, NEW p \in Proc, pc[p] = "load", NEW n \in NodeRec,
         req[p].node = {n}, req[p].op = "add"
  PROVE  Sound(Upsert(file.nodes, n), AddedBy(p)) /\ \A a \in AddedBy(p) : a.id \in Uuid
<1>1. /\ Sound(file.nodes, added) /\ file.nodes \in Lists
      /\ n.id \in Uuid /\ \A m \in ToSet(file.nodes) : ~SameHost(m, n)
  BY SoundFile DEF SoundInv, TypeInv, Typed, StillChecked, Checked, Nodes
<1>2. \A m \in ToSet(file.nodes) : m.id # n.id /\ m.host # n.host
  BY <1>1 DEF SameHost
<1>3. /\ Upsert(file.nodes, n) \in Lists /\ Tidy(Upsert(file.nodes, n))
      /\ ToSet(Upsert(file.nodes, n)) = Replaced(ToSet(file.nodes), n)
  BY <1>1, <1>2, UpsertFacts DEF Sound, Replaced
<1>4. AddedBy(p) = added \cup {n}
  BY DEF AddedBy
<1>5. \A a \in AddedBy(p) : a = n \/ (a \in added /\ (a \in ToSet(file.nodes) => a.id # n.id))
  BY <1>2, <1>4
<1>6. /\ Distinct(file.nodes, added) => Distinct(Upsert(file.nodes, n), AddedBy(p))
      /\ Kept(file.nodes, added) => Kept(Upsert(file.nodes, n), AddedBy(p))
  <2> DEFINE old  == file.nodes
             new  == Upsert(old, n)
             next == AddedBy(p)
  <2>1. /\ old \in Lists /\ new \in Lists /\ ToSet(new) = Replaced(ToSet(old), n)
        /\ \A m \in ToSet(old) : m.id # n.id => ~SameHost(m, n)
        /\ \A a \in next : a = n \/ (a \in added /\ (a \in ToSet(old) => a.id # n.id))
    BY <1>1, <1>3, <1>5
  <2> HIDE DEF old, new, next
  <2>2. (Distinct(old, added) => Distinct(new, next)) /\ (Kept(old, added) => Kept(new, next))
    BY <2>1, ReplacedFacts
  <2>3. QED
    BY <2>2 DEF old, new, next
<1>7. \A a \in AddedBy(p) : a.id \in Uuid
  BY <1>1, <1>4 DEF SoundInv, GhostIds
<1>8. QED
  BY <1>1, <1>3, <1>6, <1>7 DEF Sound

(* The ghosts after an update or a deletion: n, if it has an id add_node     *)
(* drew, and the added nodes with another id.                               *)
LEMMA GhostsAfter ==
  ASSUME SoundInv, NEW p \in Proc, NEW n \in NodeRec, req[p].node = {n},
         req[p].op \in {"update", "delete"}
  PROVE  /\ \A a \in AddedBy(p) : \/ req[p].op = "update" /\ a = n /\ a.id \in Uuid
                                  \/ a \in added /\ a.id \in Uuid /\ a.id # n.id
<1>1. \A a \in added : a.id \in Uuid
  BY DEF SoundInv, GhostIds
<1>2. Drawn(p) = {n.id} \cap Uuid
  BY DEF Drawn
<1>3. AddedBy(p) = {a \in added : a.id \notin Drawn(p)}
                   \cup {a \in {n} : req[p].op = "update" /\ a.id \in Uuid}
  BY DEF AddedBy
<1>4. QED
  BY <1>1, <1>2, <1>3

LEMMA UpdateSound ==
  ASSUME Sequential, SoundInv, NEW p \in Proc, pc[p] = "load", NEW n \in NodeRec,
         req[p].node = {n}, req[p].op = "update"
  PROVE  Sound(Upsert(file.nodes, n), AddedBy(p)) /\ \A a \in AddedBy(p) : a.id \in Uuid
<1>1. /\ Sound(file.nodes, added) /\ file.nodes \in Lists
      /\ \A m \in ToSet(file.nodes) : m.id # n.id => ~SameHost(m, n)
  BY SoundFile DEF SoundInv, TypeInv, Typed, StillChecked, Checked, Nodes
<1>2. \A m \in ToSet(file.nodes) : m.id # n.id => m.host # n.host
  BY <1>1 DEF SameHost
<1>3. /\ Upsert(file.nodes, n) \in Lists /\ Tidy(Upsert(file.nodes, n))
      /\ ToSet(Upsert(file.nodes, n)) = Replaced(ToSet(file.nodes), n)
  BY <1>1, <1>2, UpsertFacts DEF Sound, Replaced
<1>4. \A a \in AddedBy(p) : a = n \/ (a \in added /\ (a \in ToSet(file.nodes) => a.id # n.id))
  BY GhostsAfter
<1>5. /\ Distinct(file.nodes, added) => Distinct(Upsert(file.nodes, n), AddedBy(p))
      /\ Kept(file.nodes, added) => Kept(Upsert(file.nodes, n), AddedBy(p))
  <2> DEFINE old  == file.nodes
             new  == Upsert(old, n)
             next == AddedBy(p)
  <2>1. /\ old \in Lists /\ new \in Lists /\ ToSet(new) = Replaced(ToSet(old), n)
        /\ \A m \in ToSet(old) : m.id # n.id => ~SameHost(m, n)
        /\ \A a \in next : a = n \/ (a \in added /\ (a \in ToSet(old) => a.id # n.id))
    BY <1>1, <1>3, <1>4
  <2> HIDE DEF old, new, next
  <2>2. (Distinct(old, added) => Distinct(new, next)) /\ (Kept(old, added) => Kept(new, next))
    BY <2>1, ReplacedFacts
  <2>3. QED
    BY <2>2 DEF old, new, next
<1>6. QED
  BY <1>1, <1>3, <1>5, GhostsAfter DEF Sound

(* The node of a status check is the one in the list: the list stays.       *)
LEMMA CheckSound ==
  ASSUME Sequential, SoundInv, NEW p \in Proc, pc[p] = "load", NEW n \in NodeRec,
         req[p].node = {n}, req[p].op = "check"
  PROVE  Sound(Upsert(file.nodes, n), AddedBy(p)) /\ \A a \in AddedBy(p) : a.id \in Uuid
<1>1. /\ Sound(file.nodes, added) /\ file.nodes \in Lists /\ n \in ToSet(file.nodes)
  BY SoundFile DEF SoundInv, TypeInv, Typed, StillChecked, Checked, Nodes
<1>2. \A m \in ToSet(file.nodes) : (m.id = n.id => m = n) /\ (m.host = n.host => m = n)
  BY <1>1, TidyFacts DEF Sound
<1>3. Tidy(Upsert(file.nodes, n)) /\ ToSet(Upsert(file.nodes, n)) = ToSet(file.nodes)
  <2>1. ToSet(Upsert(file.nodes, n)) = {m \in ToSet(file.nodes) : m.id # n.id} \cup {n}
    BY <1>1, UpsertFacts DEF Sound
  <2>2. Tidy(Upsert(file.nodes, n))
    BY <1>1, <1>2, UpsertFacts DEF Sound
  <2>3. QED
    BY <1>1, <1>2, <2>1, <2>2
<1>4. AddedBy(p) = added
  BY DEF AddedBy
<1>5. QED
  BY <1>1, <1>3, <1>4 DEF Sound, Distinct, Kept, SoundInv, GhostIds

(* The node of an evict or enable request has a name that no node has, an    *)
(* id that add_node does not draw and the address its name resolves to,      *)
(* which is not that of a Free node of another name.                        *)
LEMMA EnsureSound ==
  ASSUME Sequential, SoundInv, NEW p \in Proc, pc[p] = "load", NEW n \in NodeRec,
         req[p].node = {n}, req[p].op = "ensure"
  PROVE  Sound(Upsert(file.nodes, n), AddedBy(p)) /\ \A a \in AddedBy(p) : a.id \in Uuid
<1> DEFINE new == Upsert(file.nodes, n)
<1>1. /\ Sound(file.nodes, added) /\ file.nodes \in Lists /\ n.id \in Host
      /\ (\A m \in ToSet(file.nodes) : m.host # n.host)
      /\ n.host \in Host /\ n.ip = Dns[n.host]
  BY SoundFile DEF SoundInv, TypeInv, Typed, StillChecked, Checked, Nodes
<1>2. /\ new \in Lists /\ Tidy(new)
      /\ ToSet(new) = {m \in ToSet(file.nodes) : m.id # n.id} \cup {n}
  BY <1>1, UpsertFacts DEF Sound
<1>3. AddedBy(p) = added
  BY DEF AddedBy
<1>4. \A a \in added : a.id \in Uuid /\ a.id # n.id /\ a # n
  BY <1>1, RegistryAssumption DEF SoundInv, GhostIds
<1> HIDE DEF new
<1>5. Distinct(new, added)
  BY <1>1, <1>2, <1>4 DEF Sound, Distinct
<1>6. ASSUME Kept(file.nodes, added), NEW a \in added, Free(a)
      PROVE  a \in ToSet(new) /\ \A x \in ToSet(new) : SameHost(x, a) => x = a
  <2>1. a \in ToSet(file.nodes) /\ \A x \in ToSet(file.nodes) : SameHost(x, a) => x = a
    BY <1>6 DEF Kept
  <2>2. n.ip # a.ip /\ n.host # a.host
    BY <1>1, <1>6, <2>1 DEF Free
  <2>3. QED
    BY <1>2, <1>4, <2>1, <2>2 DEF SameHost
<1>7. Kept(file.nodes, added) => Kept(new, added)
  BY <1>6 DEF Kept
<1>8. QED
  BY <1>1, <1>2, <1>3, <1>4, <1>5, <1>7 DEF Sound, new

LEMMA DeleteSound ==
  ASSUME Sequential, SoundInv, NEW p \in Proc, pc[p] = "load", NEW n \in NodeRec,
         req[p].node = {n}, req[p].op = "delete"
  PROVE  Sound(Without(file.nodes, n), AddedBy(p)) /\ \A a \in AddedBy(p) : a.id \in Uuid
<1> DEFINE new == Without(file.nodes, n)
<1>1. Sound(file.nodes, added) /\ file.nodes \in Lists
  BY SoundFile DEF SoundInv, TypeInv, Typed
<1>2. /\ Tidy(new) /\ ToSet(new) = {m \in ToSet(file.nodes) : m.id # n.id}
  BY <1>1, WithoutFacts, MovedKeeps DEF Sound
<1>3. \A a \in AddedBy(p) : a \in added /\ a.id \in Uuid /\ a.id # n.id
  BY GhostsAfter
<1> HIDE DEF new
<1>4. Distinct(new, AddedBy(p))
  BY <1>1, <1>2, <1>3 DEF Sound, Distinct
<1>5. Kept(file.nodes, added) => Kept(new, AddedBy(p))
  BY <1>2, <1>3 DEF Kept
<1>6. QED
  BY <1>1, <1>2, <1>3, <1>4, <1>5 DEF Sound, new

(* A node of the merged list that is the same host as an added node no .res  *)
(* file speaks of is that node.                                             *)
LEMMA MergedIsKept ==
  ASSUME NEW nodes \in Lists, NEW add, \A a \in add : a.id \in Uuid, Kept(nodes, add),
         NEW a \in add, Free(a), NEW readable, NEW x \in ToSet(Merge(Discovered(nodes, readable), nodes)),
         SameHost(x, a)
  PROVE  x = a
<1>1. /\ a \in ToSet(nodes) /\ a.id \notin Host
      /\ \A y \in ToSet(nodes) : SameHost(y, a) => y = a
  BY RegistryAssumption DEF Kept
<1>2. Discovered(nodes, readable) \in Lists
  BY DiscoveredFacts
<1>3. x \in ToSet(Discovered(nodes, readable)) \/ x \in ToSet(nodes)
  BY <1>2, MergeFacts
<1>4. x \notin ToSet(Discovered(nodes, readable))
  <2>1. SUFFICES ASSUME x \in ToSet(Discovered(nodes, readable))
                 PROVE  FALSE
    OBVIOUS
  <2>2. PICK k \in DOMAIN Res : x = Found(nodes, Res[k])
    BY <2>1, DiscoveredFacts
  <2>3. Res[k] \in Entry /\ Res[k].host \in Host
    BY ResFacts DEF Entry
  <2>4. x.host = Res[k].host /\ x.ip = Res[k].ip /\ x.id = IdFor(nodes, Res[k])
    BY <2>2 DEF Found
  <2>5. a.host # Res[k].host /\ a.ip # Res[k].ip
    BY DEF Free, Clashes
  <2>6. a.id = IdFor(nodes, Res[k])
    BY <2>4, <2>5 DEF SameHost
  <2>7. PICK y \in ToSet(nodes) : a.id = y.id /\ (y.host = Res[k].host \/ y.ip = Res[k].ip)
    BY <1>1, <2>3, <2>6, IdForFacts
  <2>8. y = a
    BY <1>1, <2>7 DEF SameHost
  <2>9. QED
    BY <2>5, <2>7, <2>8
<1>5. QED
  BY <1>1, <1>3, <1>4

LEMMA MergeSound ==
  ASSUME Settled, NEW nodes \in Lists, NEW readable, NEW add, \A a \in add : a.id \in Uuid
  PROVE  LET new == Merge(Discovered(nodes, readable), nodes)
         IN  /\ Tidy(new) /\ Distinct(new, add)
             /\ Kept(nodes, add) => Kept(new, add)
<1> DEFINE new == Merge(Discovered(nodes, readable), nodes)
<1>1. Discovered(nodes, readable) \in Lists /\ Apart(Discovered(nodes, readable))
  BY DiscoveredFacts
<1>2. Apart(new)
  BY <1>1, MergeFacts
<1>3. ASSUME Kept(nodes, add), NEW a \in add, Free(a)
      PROVE  a \in ToSet(new) /\ \A x \in ToSet(new) : SameHost(x, a) => x = a
  <2>1. a \in ToSet(nodes)
    BY <1>3 DEF Kept
  <2>2. PICK x \in ToSet(new) : SameHost(x, a)
    BY <1>1, <2>1, MergeFacts
  <2>3. \A y \in ToSet(new) : SameHost(y, a) => y = a
    BY <1>3, MergedIsKept
  <2>4. QED
    BY <2>2, <2>3
<1> HIDE DEF new
<1>4. Kept(nodes, add) => Kept(new, add)
  BY <1>3 DEF Kept
<1>5. QED
  BY <1>2, <1>4, ApartIsTidy, ApartFacts DEF new

(* The part of the invariant that a step with the file, the ghosts and the   *)
(* writers as they are leaves alone.                                        *)
LEMMA FileStays ==
  ASSUME Sequential, SoundInv, NEW p \in Proc, pc[p] # "write",
         UNCHANGED <<file, added, cut>>
  PROVE  FileSound'
BY SoundFile DEF SoundInv, FileSound, Sound

LEMMA StartsSound ==
  ASSUME Sequential, SoundInv, NEW p \in Proc, Starts(p)
  PROVE  SoundInv'
<1>1. PICK op, n, step : Begins(p, op, n, step) /\ Passed(op, n)
  BY DEF Starts
<1>2. TypeInv /\ TypeInv'
  <2>1. p \in Proc /\ op \in Ops \ {"none", "list"} /\ n \in NodeRec
        /\ step \in {"verify", "load"} /\ Begin(p, op, n, step)
    BY <1>1 DEF Begins
  <2>2. QED
    BY <2>1, BeginTyped DEF SoundInv
<1>3. /\ pc[p] = "idle" /\ file.ok /\ pc'[p] = step /\ req'[p].op = op /\ req'[p].node = {n}
      /\ step \in {"verify", "load"} /\ UNCHANGED <<file, seen, longest, added, cut>>
  BY <1>1, <1>2, StartsMoves
<1>4. (\A q \in Proc : q = p) /\ Tidy(file.nodes)
  BY <1>3, SoundFile DEF Sound
<1>5. Checked(op, n)
  <2>1. op = "add" => n.id \in Uuid /\ \A m \in Nodes : ~SameHost(m, n)
    BY <1>1 DEF Passed, FreshIds, Clashes, SameHost
  <2>2. op = "ensure" => /\ n.id \in Host /\ n.host \in Host /\ n.ip = Dns[n.host]
                         /\ \A m \in Nodes : m.host # n.host
    BY <1>1 DEF Passed
  <2>3. ASSUME op = "update", NEW x \in Nodes, x.id # n.id
        PROVE  ~SameHost(x, n)
    <3>1. PICK m \in Nodes :
            n.id = m.id /\ (x.id # m.id /\ x.host # m.host => ~Clashes(x, n.host, n.ip))
      BY <1>1, <2>3 DEF Passed
    <3>2. x.host # m.host
      BY <1>4, <2>3, <3>1, TidyFacts DEF Nodes
    <3>3. QED
      BY <2>3, <3>1, <3>2 DEF Clashes, SameHost
  <2>4. op \in {"delete", "check"} => n \in Nodes
    BY <1>1 DEF Passed
  <2>5. QED
    BY <2>1, <2>2, <2>3, <2>4 DEF Checked
<1>6. Checked(op, n)'
  BY <1>3, <1>5 DEF Checked, Nodes
<1>7. FileSound'
  BY <1>3, FileStays
<1>8. CopySound' /\ SeesFile'
  BY <1>3, <1>4 DEF CopySound, SeesFile
<1>9. GhostIds' /\ Alone'
  BY <1>3, <1>4 DEF SoundInv, GhostIds, Alone
<1>10. StillChecked'
  <2>1. \A q \in Proc : req'[q].op = op /\ req'[q].node = {n} /\ file'.ok
    BY <1>3, <1>4
  <2>2. QED
    BY <1>6, <2>1 DEF StillChecked, Checked, Nodes
<1>11. QED
  BY <1>2, <1>7, <1>8, <1>9, <1>10 DEF SoundInv

LEMMA ListSound ==
  ASSUME Sequential, SoundInv, NEW p \in Proc, List(p)
  PROVE  SoundInv'
<1>1. TypeInv' /\ pc \in [Proc -> Steps] /\ seen \in [Proc -> Lists]
      /\ req \in [Proc -> [op: Ops, node: SUBSET NodeRec]]
  BY ListTyped DEF SoundInv, TypeInv, Typed
<1>2. /\ \A q \in Proc : q = p
      /\ pc[p] = "idle" /\ pc'[p] = "import" /\ seen'[p] = file.nodes /\ req'[p].op = "list"
      /\ UNCHANGED <<file, longest, added, cut>>
  BY <1>1 DEF Sequential, List, Ghosts
<1>3. FileSound'
  BY <1>2, FileStays
<1>4. CopySound' /\ StillChecked'
  BY <1>2 DEF CopySound, StillChecked
<1>5. GhostIds' /\ Alone' /\ SeesFile'
  BY <1>2 DEF SoundInv, GhostIds, Alone, SeesFile
<1>6. QED
  BY <1>1, <1>3, <1>4, <1>5 DEF SoundInv

LEMMA VerifySound ==
  ASSUME Sequential, SoundInv, NEW p \in Proc, Verify(p)
  PROVE  SoundInv'
<1>1. TypeInv' /\ pc \in [Proc -> Steps]
  BY VerifyTyped DEF SoundInv, TypeInv, Typed
<1>2. /\ \A q \in Proc : q = p
      /\ pc[p] = "verify" /\ pc'[p] = "load"
      /\ UNCHANGED <<file, req, longest, added, cut>>
  BY <1>1 DEF Sequential, Verify, Ghosts
<1>3. FileSound'
  BY <1>2, FileStays
<1>4. CopySound' /\ SeesFile'
  BY <1>2 DEF CopySound, SeesFile
<1>5. GhostIds' /\ Alone'
  BY <1>2 DEF SoundInv, GhostIds, Alone
<1>6. StillChecked'
  BY <1>2 DEF SoundInv, StillChecked, Checked, Nodes
<1>7. QED
  BY <1>1, <1>3, <1>4, <1>5, <1>6 DEF SoundInv

LEMMA LoadSound ==
  ASSUME Sequential, SoundInv, NEW p \in Proc, Load(p)
  PROVE  SoundInv'
<1>1. /\ TypeInv /\ TypeInv' /\ pc \in [Proc -> Steps] /\ copy \in [Proc -> Lists]
      /\ req \in [Proc -> [op: Ops, node: SUBSET NodeRec]]
  BY LoadTyped DEF SoundInv, TypeInv, Typed
<1>2. /\ \A q \in Proc : q = p
      /\ pc[p] = "load" /\ pc'[p] \in {"truncate", "idle"}
      /\ UNCHANGED <<file, longest, added, cut>>
  BY <1>1 DEF Sequential, Load, Ghosts
<1>3. PICK n \in NodeRec : req[p].node = {n} /\ (CHOOSE m \in req[p].node : TRUE) = n
  BY <1>1, <1>2, LoadedNode
<1>4. req[p].op \in {"add", "ensure", "update", "delete", "check"}
  BY <1>1, <1>2 DEF TypeInv, Asks, Ops
<1>5. FileSound'
  BY <1>2, FileStays
<1>6. StillChecked' /\ SeesFile'
  BY <1>2 DEF StillChecked, SeesFile
<1>7. Alone'
  BY <1>2 DEF SoundInv, Alone
<1> DEFINE new == IF req[p].op = "delete" THEN Without(file.nodes, n) ELSE Upsert(file.nodes, n)
<1>8. Sound(new, AddedBy(p)) /\ \A a \in AddedBy(p) : a.id \in Uuid
  BY <1>2, <1>3, <1>4, AddSound, UpdateSound, CheckSound, EnsureSound, DeleteSound
<1>9. pc'[p] = "truncate" => req' = req /\ copy'[p] = new
  BY <1>1, <1>3 DEF Load
<1> HIDE DEF new
<1>10. pc'[p] = "truncate" => AddedBy(p)' = AddedBy(p)
  BY <1>2, <1>9 DEF AddedBy, Drawn
<1>11. CopySound'
  BY <1>2, <1>8, <1>9, <1>10 DEF CopySound, Sound
<1>12. GhostIds'
  BY <1>2, <1>8, <1>10 DEF SoundInv, GhostIds
<1>13. QED
  BY <1>1, <1>5, <1>6, <1>7, <1>11, <1>12 DEF SoundInv

LEMMA ImportSound ==
  ASSUME Settled, Sequential, SoundInv, NEW p \in Proc, Import(p)
  PROVE  SoundInv'
<1>1. /\ TypeInv' /\ pc \in [Proc -> Steps] /\ copy \in [Proc -> Lists] /\ file.nodes \in Lists
  BY ImportTyped DEF SoundInv, TypeInv, Typed
<1>2. /\ \A q \in Proc : q = p
      /\ pc[p] = "import" /\ pc'[p] = "truncate"
      /\ UNCHANGED <<file, req, longest, added, cut>>
  BY <1>1 DEF Sequential, Import, Ghosts
<1>3. seen[p] = file.nodes /\ req[p].op = "list"
  BY <1>2 DEF SoundInv, SeesFile
<1>4. PICK readable : copy'[p] = Merge(Discovered(file.nodes, readable), file.nodes)
  BY <1>1, <1>3 DEF Import
<1> DEFINE new == Merge(Discovered(file.nodes, readable), file.nodes)
<1>5. AddedBy(p) = added /\ AddedBy(p)' = added /\ \A a \in added : a.id \in Uuid
  BY <1>2, <1>3 DEF AddedBy, SoundInv, GhostIds
<1>6. /\ copy'[p] = new /\ Tidy(new) /\ Distinct(new, added)
      /\ Kept(file.nodes, added) => Kept(new, added)
  BY <1>1, <1>4, <1>5, MergeSound
<1>7. Sound(file.nodes, added)
  BY <1>2, SoundFile
<1> HIDE DEF new
<1>8. CopySound'
  BY <1>2, <1>5, <1>6, <1>7 DEF CopySound, Sound
<1>9. FileSound'
  BY <1>2, FileStays
<1>10. StillChecked' /\ SeesFile'
  BY <1>2 DEF StillChecked, SeesFile
<1>11. GhostIds' /\ Alone'
  BY <1>2, <1>5 DEF SoundInv, GhostIds, Alone
<1>12. QED
  BY <1>1, <1>8, <1>9, <1>10, <1>11 DEF SoundInv

LEMMA NoNodes == \A add : Tidy(<<>>) /\ Distinct(<<>>, add)
BY DEF Tidy, Distinct, ToSet

LEMMA TruncateSound ==
  ASSUME Sequential, SoundInv, NEW p \in Proc, Truncate(p)
  PROVE  SoundInv'
<1>1. TypeInv' /\ pc \in [Proc -> Steps] /\ longest \in [Proc -> Nat]
  BY TruncateTyped DEF SoundInv, TypeInv, Typed
<1>2. /\ \A q \in Proc : q = p
      /\ pc[p] = "truncate" /\ pc'[p] = "write" /\ file' = Torn /\ longest'[p] = 0
      /\ UNCHANGED <<req, copy, added, cut>>
  BY <1>1 DEF Sequential, Truncate, Ghosts
<1>3. AddedBy(p)' = AddedBy(p)
  BY <1>2 DEF AddedBy, Drawn
<1>4. FileSound'
  BY <1>2, NoNodes DEF FileSound, Writing, Torn
<1>5. CopySound'
  BY <1>2, <1>3 DEF SoundInv, CopySound, Sound
<1>6. GhostIds'
  BY <1>2, <1>3 DEF SoundInv, GhostIds
<1>7. StillChecked' /\ SeesFile' /\ Alone'
  BY <1>2 DEF StillChecked, SeesFile, Alone
<1>8. QED
  BY <1>1, <1>4, <1>5, <1>6, <1>7 DEF SoundInv

LEMMA WriteSound ==
  ASSUME Sequential, SoundInv, NEW p \in Proc, Write(p)
  PROVE  SoundInv'
<1>1. TypeInv' /\ pc \in [Proc -> Steps] /\ \A q \in Proc : q = p
  BY WriteTyped DEF SoundInv, TypeInv, Typed, Sequential
<1>2. pc[p] = "write" /\ pc'[p] = "idle" /\ added' = AddedBy(p) /\ cut' = cut
  BY <1>1, WriteFacts
<1>3. longest[p] = 0 /\ Sound(copy[p], AddedBy(p)) /\ \A a \in AddedBy(p) : a.id \in Uuid
  BY <1>2 DEF SoundInv, Alone, CopySound, GhostIds
<1>4. file' = [ok |-> TRUE, nodes |-> copy[p]]
  BY <1>3, WriteFacts
<1>5. FileSound'
  BY <1>2, <1>3, <1>4 DEF FileSound, Sound
<1>6. CopySound' /\ StillChecked' /\ SeesFile' /\ GhostIds'
  BY <1>1, <1>2, <1>3 DEF CopySound, StillChecked, SeesFile, GhostIds
<1>7. Alone'
  BY <1>1, WriteFacts DEF Alone
<1>8. QED
  BY <1>1, <1>5, <1>6, <1>7 DEF SoundInv

(* A restart in the middle of a write leaves what the truncation left, and   *)
(* any other leaves the file as it is.                                      *)
LEMMA RestartSound ==
  ASSUME SoundInv, Restart
  PROVE  SoundInv'
<1>1. TypeInv'
  BY RestartTyped DEF SoundInv
<1>2. /\ UNCHANGED <<file, added>> /\ cut' = (cut \/ Writing)
      /\ \A p \in Proc : pc'[p] = "idle" /\ longest'[p] = 0
  BY DEF Restart, Writing
<1>3. FileSound'
  BY <1>2 DEF SoundInv, FileSound, Sound
<1>4. CopySound' /\ StillChecked' /\ SeesFile' /\ GhostIds' /\ Alone'
  BY <1>2 DEF SoundInv, CopySound, StillChecked, SeesFile, GhostIds, Alone
<1>5. QED
  BY <1>1, <1>3, <1>4 DEF SoundInv

LEMMA SoundInitially == Init => SoundInv
<1>1. SUFFICES ASSUME Init
               PROVE  SoundInv
  OBVIOUS
<1>2. /\ file.ok /\ file.nodes = <<>> /\ added = {}
      /\ \A p \in Proc : pc[p] = "idle" /\ longest[p] = 0
  BY <1>1 DEF Init
<1>3. FileSound
  BY <1>2, NoNodes DEF FileSound, Sound, Kept
<1>4. CopySound /\ StillChecked /\ SeesFile /\ GhostIds /\ Alone
  BY <1>2 DEF CopySound, StillChecked, SeesFile, GhostIds, Alone
<1>5. QED
  BY <1>1, <1>3, <1>4, TypesInitially DEF SoundInv

LEMMA SoundIsKept ==
  ASSUME Settled, Sequential, SoundInv, [Next]_vars
  PROVE  SoundInv'
<1>1. TypeInv
  BY DEF SoundInv
<1>2. ASSUME NEW p \in Proc, \/ Starts(p) \/ List(p) \/ Verify(p) \/ Load(p) \/ Import(p)
                             \/ Truncate(p) \/ Write(p)
      PROVE  SoundInv'
  BY <1>2, StartsSound, ListSound, VerifySound, LoadSound, ImportSound, TruncateSound, WriteSound
<1>3. CASE UNCHANGED vars
  <2>1. UNCHANGED <<file, pc, req, seen, copy, longest, added, cut>>
    BY <1>3 DEF vars
  <2>2. TypeInv'
    BY TypesAreKept DEF SoundInv
  <2>3. FileSound' /\ Alone' /\ SeesFile'
    BY <2>1 DEF SoundInv, FileSound, Sound, Writing, Alone, SeesFile
  <2>4. CopySound' /\ GhostIds'
    BY <2>1 DEF SoundInv, CopySound, Sound, GhostIds, AddedBy, Drawn
  <2>5. StillChecked'
    BY <2>1 DEF SoundInv, StillChecked, Checked, Nodes
  <2>6. QED
    BY <2>2, <2>3, <2>4, <2>5 DEF SoundInv
<1>4. QED
  BY <1>1, <1>2, <1>3, EveryStep, RestartSound

---------------------------------------------------------------------------
(* Two nodes that add_node accepted are never the same host: the 409 checks  *)
(* of add_node and update_node, as long as no two requests overlap and the   *)
(* .res files agree on who is who (Settled).                                *)
THEOREM AddedStayApart == Settled /\ Sequential => (Spec => []AddedDistinct)
<1> SUFFICES ASSUME Settled, Sequential
             PROVE  Spec => []AddedDistinct
  OBVIOUS
<1>1. SoundInv => AddedDistinct
  BY DEF SoundInv, FileSound, Distinct, AddedDistinct, Nodes
<1>2. SoundInv /\ [Next]_vars => SoundInv'
  BY SoundIsKept
<1>3. QED
  BY <1>1, <1>2, SoundInitially, PTL DEF Spec

(* An added node that is Free stays in the list as it was given until it is  *)
(* updated or deleted, or a restart cuts a write short: list_nodes keeps it  *)
(* whatever it finds in the .res files, and no evict or enable request gives *)
(* its address to another node (add_node, list_nodes, ensure_node_in_store). *)
THEOREM AddedAreKept == Settled /\ Sequential => (Spec => []KeepsAdded)
<1> SUFFICES ASSUME Settled, Sequential
             PROVE  Spec => []KeepsAdded
  OBVIOUS
<1>1. ASSUME SoundInv
      PROVE  KeepsAdded
  <2>1. ASSUME AtRest, ~cut, NEW n \in added, Free(n)
        PROVE  file.ok /\ n \in Nodes
    <3>1. ~Writing
      BY <2>1 DEF AtRest, Writing
    <3>2. file.ok /\ Kept(file.nodes, added)
      BY <1>1, <2>1, <3>1 DEF SoundInv, FileSound, Sound
    <3>3. QED
      BY <2>1, <3>2 DEF Kept, Nodes
  <2>2. QED
    BY <2>1 DEF KeepsAdded
<1>2. SoundInv /\ [Next]_vars => SoundInv'
  BY SoundIsKept
<1>3. QED
  BY <1>1, <1>2, SoundInitially, PTL DEF Spec
=============================================================================
