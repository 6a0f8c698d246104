--------------------------- MODULE FreeListProofs ---------------------------
(***************************************************************************)
(* The loops of freeList compute what FreeSet says of sets.                *)
(***************************************************************************)
EXTENDS FreeList, Loops, FiniteSetTheorems

---------------------------------------------------------------------------
(* std::sort, on ids that are all different.                               *)

\* The place of an id: smaller ids have smaller places, and every place is
\* somebody's.
LEMMA Places ==
  ASSUME NEW P \in SUBSET Nat, NEW s \in Seq(P), IsInjective(s)
  PROVE  /\ \A i \in 1 .. Len(s) : Cardinality(Before(s, i)) \in 0 .. Len(s) - 1
         /\ \A i, j \in 1 .. Len(s) :
              Cardinality(Before(s, i)) < Cardinality(Before(s, j)) <=> s[i] < s[j]
         /\ \A k \in 1 .. Len(s) : \E i \in 1 .. Len(s) : Cardinality(Before(s, i)) = k - 1
<1> DEFINE I == 1 .. Len(s)
           R == [i \in I |-> Cardinality(Before(s, i))]
<1>0. Len(s) \in Nat /\ DOMAIN s = I /\ \A i \in I : s[i] \in P
  OBVIOUS
<1>1. Len(s) \in Nat /\ DOMAIN s = I /\ \A i \in I : s[i] \in Nat
  BY <1>0
<1>2. IsFiniteSet(I) /\ Cardinality(I) = Len(s)
  <2>1. Cardinality(1 .. Len(s)) = IF 1 > Len(s) THEN 0 ELSE Len(s) - 1 + 1
    BY <1>1, FS_Interval
  <2> QED
    BY <1>1, <2>1, FS_Interval
<1>3. ASSUME NEW i \in I
      PROVE  /\ Before(s, i) \in SUBSET (I \ {i})
             /\ IsFiniteSet(Before(s, i)) /\ Cardinality(Before(s, i)) \in 0 .. Len(s) - 1
  <2>1. Before(s, i) \in SUBSET (I \ {i})
    BY <1>1 DEF Before
  <2>2. IsFiniteSet(I \ {i}) /\ Cardinality(I \ {i}) = Len(s) - 1
    <3> HIDE DEF I
    <3>1. Cardinality(I \ {i}) = IF i \in I THEN Cardinality(I) - 1 ELSE Cardinality(I)
      BY <1>2, FS_RemoveElement
    <3> QED
      BY <1>2, <3>1, FS_RemoveElement
  <2>3. IsFiniteSet(Before(s, i)) /\ Cardinality(Before(s, i)) <= Len(s) - 1
    BY <2>1, <2>2, FS_Subset
  <2> QED
    BY <1>1, <2>1, <2>3, FS_CardinalityType
<1>4. ASSUME NEW i \in I, NEW j \in I, s[i] < s[j]
      PROVE  Cardinality(Before(s, i)) < Cardinality(Before(s, j))
  <2>1. Before(s, i) \cup {i} \in SUBSET Before(s, j) /\ i \notin Before(s, i)
    BY <1>1, <1>4 DEF Before
  <2>2. Cardinality(Before(s, i) \cup {i}) = Cardinality(Before(s, i)) + 1
    BY <1>3, <2>1, FS_AddElement
  <2>3. Cardinality(Before(s, i) \cup {i}) <= Cardinality(Before(s, j))
    BY <1>3, <2>1, FS_Subset
  <2> QED
    BY <1>3, <2>2, <2>3
<1>5. \A i, j \in I : i # j => s[i] < s[j] \/ s[j] < s[i]
  BY <1>1 DEF IsInjective
<1>6. \A i, j \in I : Cardinality(Before(s, i)) < Cardinality(Before(s, j)) <=> s[i] < s[j]
  <2> SUFFICES ASSUME NEW i \in I, NEW j \in I,
                      Cardinality(Before(s, i)) < Cardinality(Before(s, j))
               PROVE  s[i] < s[j]
    BY <1>4
  <2>1. i # j
    BY <1>3
  <2>2. ~(s[j] < s[i])
    BY <1>3, <1>4
  <2> QED
    BY <1>5, <2>1, <2>2
<1>7. R \in Surjection(I, 0 .. Len(s) - 1)
  <2>1. R \in [I -> 0 .. Len(s) - 1]
    BY <1>3
  <2>2. \A i, j \in I : R[i] = R[j] => i = j
    BY <1>3, <1>4, <1>5
  <2>3. R \in Injection(I, 0 .. Len(s) - 1)
    <3> HIDE DEF R, I
    <3> QED
      BY <2>1, <2>2 DEF Injection, IsInjective
  <2>4. IsFiniteSet(0 .. Len(s) - 1) /\ Cardinality(0 .. Len(s) - 1) = Len(s)
    <3> DEFINE b == Len(s) - 1
    <3>1. b \in Int /\ 0 \in Int /\ b + 1 = Len(s) /\ b >= -1
      BY <1>1
    <3> HIDE DEF b
    <3>2. IsFiniteSet(0 .. b) /\ Cardinality(0 .. b) = IF 0 > b THEN 0 ELSE b - 0 + 1
      BY <3>1, FS_Interval
    <3>3. Cardinality(0 .. b) = b + 1
      BY <3>1, <3>2
    <3> QED
      BY <3>1, <3>2, <3>3 DEF b
  <2> HIDE DEF R
  <2> QED
    BY <1>2, <2>3, <2>4, FS_Injection
<1>8. ASSUME NEW k \in I PROVE \E i \in I : Cardinality(Before(s, i)) = k - 1
  <2>1. k - 1 \in 0 .. Len(s) - 1
    BY <1>1
  <2>2. \A t \in 0 .. Len(s) - 1 : \E i \in I : R[i] = t
    <3> HIDE DEF R, I
    <3> QED
      BY <1>7 DEF Surjection
  <2> QED
    BY <2>1, <2>2
<1> QED
  BY <1>3, <1>6, <1>8

\* Sorting a vector without repetitions keeps its ids and puts them in order.
LEMMA SortFacts ==
  ASSUME NEW P \in SUBSET Nat, NEW s \in Seq(P), IsInjective(s)
  PROVE  /\ Sort(s) \in Seq(P) /\ Len(Sort(s)) = Len(s)
         /\ Ascending(Sort(s)) /\ ToSet(Sort(s)) = ToSet(s)
<1> DEFINE I == 1 .. Len(s)
           at(k) == CHOOSE i \in I : Cardinality(Before(s, i)) = k - 1
           t == [k \in I |-> s[at(k)]]
<1>1. Len(s) \in Nat /\ DOMAIN s = I /\ \A i \in I : s[i] \in P
  OBVIOUS
<1>p. /\ \A i \in I : Cardinality(Before(s, i)) \in 0 .. Len(s) - 1
      /\ \A i, j \in I :
           Cardinality(Before(s, i)) < Cardinality(Before(s, j)) <=> s[i] < s[j]
  BY Places
<1>2. ASSUME NEW k \in I PROVE at(k) \in I /\ Cardinality(Before(s, at(k))) = k - 1
  <2>1. \E i \in I : Cardinality(Before(s, i)) = k - 1
    BY Places
  <2> QED
    BY <2>1
<1>3. Sort(s) = t
  BY DEF Sort
<1> HIDE DEF at
<1>4. t \in Seq(P) /\ Len(t) = Len(s) /\ \A k \in I : t[k] = s[at(k)]
  BY <1>1, <1>2
<1>5. Ascending(t)
  <2> SUFFICES ASSUME NEW i \in I, NEW j \in I, i < j PROVE t[i] < t[j]
    BY <1>4 DEF Ascending
  <2>1. Cardinality(Before(s, at(i))) < Cardinality(Before(s, at(j)))
    BY <1>1, <1>2
  <2>2. s[at(i)] < s[at(j)]
    BY <1>2, <2>1, Places
  <2> QED
    BY <1>4, <2>2
<1>6. ToSet(t) = ToSet(s)
  <2>1. ASSUME NEW i \in I PROVE \E k \in I : t[k] = s[i]
    <3> DEFINE k == Cardinality(Before(s, i)) + 1
    <3>1. k \in I /\ k - 1 = Cardinality(Before(s, i))
      BY <1>1, <1>p
    <3> HIDE DEF k
    <3>2. Cardinality(Before(s, at(k))) = Cardinality(Before(s, i)) /\ at(k) \in I
      BY <1>2, <3>1
    <3>3. ~(s[at(k)] < s[i]) /\ ~(s[i] < s[at(k)])
      <4>1. Cardinality(Before(s, i)) \in Nat
        BY <1>1, <1>p
      <4> QED
        BY <1>p, <3>2, <4>1
    <3>4. s[at(k)] \in Nat /\ s[i] \in Nat
      BY <1>1, <3>2
    <3>5. s[at(k)] = s[i]
      BY <3>3, <3>4
    <3> QED
      BY <1>4, <3>1, <3>5
  <2>2. DOMAIN t = I
    OBVIOUS
  <2> HIDE DEF t
  <2>3. ToSet(t) = {t[k] : k \in I} /\ ToSet(s) = {s[k] : k \in I}
    BY <1>1, <2>2 DEF ToSet
  <2> HIDE DEF I
  <2>4. \A k \in I : t[k] \in {s[i] : i \in I}
    BY <1>2, <1>4
  <2>5. \A i \in I : s[i] \in {t[k] : k \in I}
    BY <2>1
  <2> QED
    BY <2>3, <2>4, <2>5
<1> HIDE DEF t
<1> QED
  BY <1>3, <1>4, <1>5, <1>6

---------------------------------------------------------------------------
(* Vectors as sets.                                                        *)

\* The ids of a vector, by their indices.
LEMMA ToSetFacts ==
  ASSUME NEW P, NEW s \in Seq(P)
  PROVE  /\ ToSet(s) = {s[i] : i \in 1 .. Len(s)} /\ ToSet(s) \subseteq P
         /\ DOMAIN s = 1 .. Len(s) /\ Len(s) \in Nat
  BY DEF ToSet

\* A sequence over a set is one over every larger set.
LEMMA WidenSeq ==
  ASSUME NEW Q, NEW P \in SUBSET Q, NEW s \in Seq(P)
  PROVE  s \in Seq(Q)
  OBVIOUS

\* What is at which index of two vectors put together.
LEMMA ConcatIndices ==
  ASSUME NEW P, NEW s \in Seq(P), NEW t \in Seq(P)
  PROVE  /\ s \o t \in Seq(P) /\ Len(s \o t) = Len(s) + Len(t)
         /\ \A k \in 1 .. Len(s) : (s \o t)[k] = s[k]
         /\ \A k \in 1 .. Len(t) : (s \o t)[Len(s) + k] = t[k]
  OBVIOUS

\* Two vectors put together hold the ids of both, and none twice if they share
\* none.
LEMMA ConcatFacts ==
  ASSUME NEW P, NEW s \in Seq(P), NEW t \in Seq(P)
  PROVE  /\ s \o t \in Seq(P) /\ Len(s \o t) = Len(s) + Len(t)
         /\ ToSet(s \o t) = ToSet(s) \cup ToSet(t)
         /\ IsInjective(s) /\ IsInjective(t) /\ ToSet(s) \cap ToSet(t) = {}
              => IsInjective(s \o t)
<1> DEFINE u == s \o t
           n == Len(s)
           m == Len(t)
<1>1. /\ u \in Seq(P) /\ Len(u) = n + m /\ n \in Nat /\ m \in Nat
      /\ \A i \in 1 .. n : u[i] = s[i]
      /\ \A i \in 1 .. m : u[n + i] = t[i]
  OBVIOUS
<1>2. /\ ToSet(s) = {s[i] : i \in 1 .. n} /\ DOMAIN s = 1 .. n
      /\ ToSet(t) = {t[i] : i \in 1 .. m} /\ DOMAIN t = 1 .. m
      /\ ToSet(u) = {u[i] : i \in 1 .. n + m} /\ DOMAIN u = 1 .. n + m
  BY <1>1, ToSetFacts
<1> HIDE DEF u, n, m
<1>3. \A i \in 1 .. n + m : i \in 1 .. n \/ (i - n \in 1 .. m /\ i = n + (i - n))
  BY <1>1
<1>4. \A i \in 1 .. n + m : u[i] = IF i \in 1 .. n THEN s[i] ELSE t[i - n]
  BY <1>1, <1>3
<1>5. ToSet(u) = ToSet(s) \cup ToSet(t)
  <2>1. \A i \in 1 .. n + m : u[i] \in ToSet(s) \cup ToSet(t)
    BY <1>2, <1>3, <1>4
  <2>2. \A i \in 1 .. n : s[i] = u[i] /\ i \in 1 .. n + m
    BY <1>1
  <2>3. \A i \in 1 .. m : t[i] = u[n + i] /\ n + i \in 1 .. n + m
    BY <1>1
  <2> QED
    BY <1>2, <2>1, <2>2, <2>3
<1>6. ASSUME IsInjective(s), IsInjective(t), ToSet(s) \cap ToSet(t) = {}
      PROVE  IsInjective(u)
  <2> SUFFICES ASSUME NEW i \in 1 .. n + m, NEW j \in 1 .. n + m, u[i] = u[j]
               PROVE  i = j
    BY <1>2 DEF IsInjective
  <2>1. CASE i \in 1 .. n /\ j \in 1 .. n
    BY <2>1, <1>4, <1>6, <1>2 DEF IsInjective
  <2>2. CASE i \notin 1 .. n /\ j \notin 1 .. n
    <3>1. i - n \in 1 .. m /\ j - n \in 1 .. m /\ t[i - n] = t[j - n]
      BY <2>2, <1>3, <1>4
    <3>2. i - n = j - n
      BY <3>1, <1>6, <1>2 DEF IsInjective
    <3> QED
      BY <3>2, <1>1
  <2>3. CASE i \in 1 .. n /\ j \notin 1 .. n
    BY <2>3, <1>2, <1>3, <1>4, <1>6
  <2>4. CASE i \notin 1 .. n /\ j \in 1 .. n
    BY <2>4, <1>2, <1>3, <1>4, <1>6
  <2> QED
    BY <2>1, <2>2, <2>3, <2>4
<1> QED
  BY <1>1, <1>5, <1>6 DEF u, n, m

\* A sorted vector repeats no id, so its length is the number of its ids.
LEMMA AscendingFacts ==
  ASSUME NEW P \in SUBSET Nat, NEW s \in Seq(P), Ascending(s)
  PROVE  IsInjective(s) /\ IsFiniteSet(ToSet(s)) /\ Cardinality(ToSet(s)) = Len(s)
<1>1. /\ ToSet(s) = {s[i] : i \in 1 .. Len(s)} /\ DOMAIN s = 1 .. Len(s)
      /\ Len(s) \in Nat /\ \A i \in 1 .. Len(s) : s[i] \in P
  BY ToSetFacts
<1>2. \A i, j \in 1 .. Len(s) : s[i] = s[j] => i = j
  <2> SUFFICES ASSUME NEW i \in 1 .. Len(s), NEW j \in 1 .. Len(s), s[i] = s[j], i # j
               PROVE  FALSE
    OBVIOUS
  <2>0. s[i] \in P
    BY <1>1
  <2>1. s[i] \in Nat
    BY <2>0
  <2>2. i \in Int /\ j \in Int
    OBVIOUS
  <2>3. i < j \/ j < i
    BY <2>2
  <2>4. s[i] < s[j] \/ s[j] < s[i]
    BY <2>3 DEF Ascending
  <2> QED
    BY <2>1, <2>4
<1>3. s \in [1 .. Len(s) -> ToSet(s)]
  BY <1>1
<1>4. s \in Bijection(1 .. Len(s), ToSet(s))
  BY <1>1, <1>2, <1>3 DEF Bijection, Injection, Surjection, IsInjective
<1>5. ExistsBijection(1 .. Len(s), ToSet(s))
  BY <1>4 DEF ExistsBijection
<1> QED
  BY <1>1, <1>2, <1>5, FS_CountingElements, FS_NatBijection DEF IsInjective

---------------------------------------------------------------------------
(* The vectors of pending_, one after the other.                           *)

\* The loop of Gather, step by step.
LEMMA GatherLoop ==
  ASSUME NEW p \in [TxIds -> Seq(Pages)], NEW S
  PROVE  \E g : /\ g[0] = <<>>
                /\ \A k \in 1 .. MaxTx + 1 :
                     g[k] = g[k - 1] \o (IF k - 1 \in S THEN p[k - 1] ELSE <<>>)
                /\ Gather(p, S) = g[MaxTx + 1]
<1> DEFINE N == MaxTx + 1
           A == Seq(Pages)
           q(k) == IF k - 1 \in S THEN p[k - 1] ELSE <<>>
           G(h) == [k \in 0 .. N |-> IF k = 0 THEN <<>> ELSE h[k - 1] \o q(k)]
           g == CHOOSE h : h = G(h)
           F == [x \in A \X (1 .. N) |-> x[1] \o q(x[2])]
<1>1. N \in Nat /\ <<>> \in A /\ \A k \in 1 .. N : q(k) \in A
  BY FreeListAssumption DEF TxIds
<1>2. Gather(p, S) = g[N]
  BY DEF Gather
<1> HIDE DEF N, q
<1>3. F \in [A \X (1 .. N) -> A] /\ \A a \in A, k \in 1 .. N : F[<<a, k>>] = a \o q(k)
  <2>1. \A a \in A, k \in 1 .. N : a \o q(k) \in A
    BY <1>1
  <2> HIDE DEF A
  <2> QED
    BY <2>1
<1>4. PICK f \in [0 .. N -> A] : f[0] = <<>> /\ \A k \in 1 .. N : f[k] = F[<<f[k - 1], k>>]
  <2> HIDE DEF F, A
  <2>1. LoopBody(A, N, <<>>, F)
    BY <1>1, <1>3 DEF LoopBody
  <2> QED
    BY <2>1, LoopExists
<1> HIDE DEF F
<1>5. f = G(f)
  <2>1. \A k \in 1 .. N : f[k] = f[k - 1] \o q(k)
    <3>1. \A k \in 1 .. N : k - 1 \in 0 .. N
      BY <1>1
    <3> HIDE DEF A
    <3> QED
      BY <1>3, <1>4, <3>1
  <2>2. \A k \in 0 .. N : k = 0 \/ k \in 1 .. N
    BY <1>1
  <2> QED
    BY <1>4, <2>1, <2>2
<1>6. g = G(g)
  <2> HIDE DEF G
  <2> QED
    BY <1>5
<1> HIDE DEF g
<1>7. g[0] = <<>> /\ \A k \in 1 .. N : g[k] = g[k - 1] \o q(k)
  <2>1. 0 \in 0 .. N /\ \A k \in 1 .. N : k \in 0 .. N /\ k # 0
    BY <1>1
  <2> QED
    BY <1>6, <2>1
<1> QED
  BY <1>2, <1>7 DEF N, q

\* The vectors in S are apart: no page is twice in one or in two.
Apart(p, S) ==
  /\ \A k \in TxIds \cap S : IsInjective(p[k])
  /\ \A k, l \in TxIds \cap S : k # l => ToSet(p[k]) \cap ToSet(p[l]) = {}

\* The gathered vector holds the ids of all vectors gathered, none twice if they
\* share none.
LEMMA GatherFacts ==
  ASSUME NEW p \in [TxIds -> Seq(Pages)], NEW S
  PROVE  /\ Gather(p, S) \in Seq(Pages)
         /\ ToSet(Gather(p, S)) = UNION {ToSet(p[k]) : k \in TxIds \cap S}
         /\ Apart(p, S) => IsInjective(Gather(p, S))
<1> DEFINE N == MaxTx + 1
           A == Seq(Pages)
           q(k) == IF k - 1 \in S THEN p[k - 1] ELSE <<>>
           U(k) == UNION {ToSet(p[l]) : l \in {l \in TxIds \cap S : l < k}}
           J == [k \in 0 .. N |-> {a \in A : ToSet(a) = U(k) /\ (Apart(p, S) => IsInjective(a))}]
<1>1. N \in Nat /\ \A k \in 1 .. N : k - 1 \in TxIds /\ k - 1 \in 0 .. N
  BY FreeListAssumption DEF TxIds
<1>2. PICK g : /\ g[0] = <<>>
               /\ \A k \in 1 .. N : g[k] = g[k - 1] \o q(k)
               /\ Gather(p, S) = g[N]
  BY GatherLoop
<1>3. g[0] \in J[0]
  <2>1. <<>> \in A /\ ToSet(<<>>) = {} /\ IsInjective(<<>>)
    BY DEF ToSet, IsInjective
  <2>2. {l \in TxIds \cap S : l < 0} = {}
    BY DEF TxIds
  <2>3. U(0) = {}
    BY <2>2
  <2>4. 0 \in 0 .. N
    BY <1>1
  <2> HIDE DEF A, U, N
  <2> QED
    BY <1>2, <2>1, <2>3, <2>4
<1>4. ASSUME NEW k \in 1 .. N, g[k - 1] \in J[k - 1] PROVE g[k] \in J[k]
  <2>0. k \in 0 .. N /\ k - 1 \in 0 .. N /\ k - 1 \in TxIds
    BY <1>1
  <2>1. g[k - 1] \in A /\ ToSet(g[k - 1]) = U(k - 1) /\ (Apart(p, S) => IsInjective(g[k - 1]))
    <3> HIDE DEF A, U, N
    <3> QED
      BY <1>4, <2>0
  <2>2. q(k) \in A /\ (Apart(p, S) => IsInjective(q(k)))
    <3>1. <<>> \in A /\ IsInjective(<<>>)
      BY DEF IsInjective
    <3> QED
      BY <2>0, <3>1 DEF Apart
  <2>3. U(k) = U(k - 1) \cup ToSet(q(k))
    <3>1. ToSet(<<>>) = {}
      BY DEF ToSet
    <3>2. \A l \in TxIds : l < k <=> l < k - 1 \/ l = k - 1
      BY <2>0 DEF TxIds
    <3>3. CASE k - 1 \in S
      <4>1. {l \in TxIds \cap S : l < k} = {l \in TxIds \cap S : l < k - 1} \cup {k - 1}
        BY <2>0, <3>2, <3>3
      <4>2. q(k) = p[k - 1]
        BY <3>3
      <4> QED
        BY <4>1, <4>2
    <3>4. CASE k - 1 \notin S
      <4>1. {l \in TxIds \cap S : l < k} = {l \in TxIds \cap S : l < k - 1}
        BY <2>0, <3>2, <3>4
      <4>2. q(k) = <<>>
        BY <3>4
      <4> QED
        BY <3>1, <4>1, <4>2
    <3> QED
      BY <3>3, <3>4
  <2>4. Apart(p, S) => U(k - 1) \cap ToSet(q(k)) = {}
    <3> SUFFICES ASSUME Apart(p, S), NEW l \in TxIds \cap S, l < k - 1
                 PROVE  ToSet(p[l]) \cap ToSet(q(k)) = {}
      OBVIOUS
    <3>1. ToSet(<<>>) = {}
      BY DEF ToSet
    <3>2. l # k - 1
      BY <2>0 DEF TxIds
    <3> QED
      BY <2>0, <3>1, <3>2 DEF Apart
  <2> HIDE DEF U, q, N
  <2>5. /\ g[k - 1] \o q(k) \in A /\ ToSet(g[k - 1] \o q(k)) = U(k)
        /\ Apart(p, S) => IsInjective(g[k - 1] \o q(k))
    BY <2>1, <2>2, <2>3, <2>4, ConcatFacts
  <2> QED
    BY <1>2, <2>0, <2>5
<1>5. g[N] \in J[N]
  <2> HIDE DEF J, N
  <2>1. \A k \in 0 .. N : g[k] \in J[k]
    BY <1>1, <1>3, <1>4, Along
  <2> QED
    BY <1>1, <2>1
<1>6. U(N) = UNION {ToSet(p[k]) : k \in TxIds \cap S}
  <2>1. {l \in TxIds \cap S : l < N} = TxIds \cap S
    BY FreeListAssumption DEF TxIds
  <2> QED
    BY <2>1
<1>7. N \in 0 .. N
  BY <1>1
<1> HIDE DEF U, N
<1> QED
  BY <1>2, <1>5, <1>6, <1>7

\* freeList::pendingCount counts what copyall gathers.
LEMMA CountFacts ==
  ASSUME NEW p \in [TxIds -> Seq(Pages)]
  PROVE  PendingCount(p) \in Nat /\ Len(Gather(p, TxIds)) = PendingCount(p)
<1> DEFINE N == MaxTx + 1
           q(k) == Len(p[k - 1])
           C(h) == [k \in 0 .. N |-> IF k = 0 THEN 0 ELSE h[k - 1] + q(k)]
           c == CHOOSE h : h = C(h)
           F == [x \in Nat \X (1 .. N) |-> x[1] + q(x[2])]
<1>1. N \in Nat /\ \A k \in 1 .. N : k - 1 \in TxIds /\ k - 1 \in 0 .. N /\ k \in 0 .. N
  BY FreeListAssumption DEF TxIds
<1>2. \A k \in 1 .. N : q(k) \in Nat /\ p[k - 1] \in Seq(Pages)
  BY <1>1
<1>3. PendingCount(p) = c[N]
  BY DEF PendingCount
<1>4. PICK g : /\ g[0] = <<>>
               /\ \A k \in 1 .. N : g[k] = g[k - 1] \o (IF k - 1 \in TxIds THEN p[k - 1] ELSE <<>>)
               /\ Gather(p, TxIds) = g[N]
  BY GatherLoop
<1>5. \A k \in 1 .. N : g[k] = g[k - 1] \o p[k - 1]
  BY <1>1, <1>4
<1> HIDE DEF N
<1>6. PICK f \in [0 .. N -> Nat] : f[0] = 0 /\ \A k \in 1 .. N : f[k] = F[<<f[k - 1], k>>]
  <2>1. LoopBody(Nat, N, 0, F)
    BY <1>1, <1>2 DEF LoopBody
  <2> HIDE DEF F
  <2> QED
    BY <2>1, LoopExists
<1>7. f = C(f)
  <2> HIDE DEF q
  <2>1. \A k \in 1 .. N : f[k] = f[k - 1] + q(k)
    BY <1>1, <1>6
  <2>2. \A k \in 0 .. N : k = 0 \/ k \in 1 .. N
    BY <1>1
  <2> QED
    BY <1>6, <2>1, <2>2
<1>8. c = C(c)
  <2> HIDE DEF C
  <2> QED
    BY <1>7
<1> HIDE DEF c
<1>9. c[0] = 0 /\ \A k \in 1 .. N : c[k] = c[k - 1] + q(k)
  <2>1. 0 \in 0 .. N /\ \A k \in 1 .. N : k \in 0 .. N /\ k # 0
    BY <1>1
  <2> QED
    BY <1>8, <2>1
<1> DEFINE J == [k \in 0 .. N |-> {a \in Seq(Pages) : Len(a) \in Nat /\ Len(a) = c[k]}]
<1>10. g[0] \in J[0]
  BY <1>1, <1>4, <1>9
<1>11. ASSUME NEW k \in 1 .. N, g[k - 1] \in J[k - 1] PROVE g[k] \in J[k]
  <2>1. g[k - 1] \in Seq(Pages) /\ Len(g[k - 1]) = c[k - 1]
    BY <1>1, <1>11
  <2>2. g[k] \in Seq(Pages) /\ Len(g[k]) = Len(g[k - 1]) + q(k) /\ Len(g[k]) \in Nat
    <3>1. g[k] = g[k - 1] \o p[k - 1] /\ p[k - 1] \in Seq(Pages)
      BY <1>2, <1>5
    <3>2. /\ g[k - 1] \o p[k - 1] \in Seq(Pages)
          /\ Len(g[k - 1] \o p[k - 1]) = Len(g[k - 1]) + Len(p[k - 1])
      BY <2>1, <3>1, ConcatFacts
    <3>3. Len(g[k - 1] \o p[k - 1]) \in Nat
      BY <3>2, ToSetFacts
    <3> QED
      BY <3>1, <3>2, <3>3
  <2> QED
    BY <1>1, <1>9, <2>1, <2>2
<1>12. g[N] \in J[N]
  <2> HIDE DEF J
  <2>1. \A k \in 0 .. N : g[k] \in J[k]
    BY <1>1, <1>10, <1>11, Along
  <2> QED
    BY <1>1, <2>1
<1>13. N \in 0 .. N
  BY <1>1
<1> QED
  BY <1>3, <1>4, <1>12, <1>13

---------------------------------------------------------------------------
(* freeList::reload.                                                       *)

\* The loop of reload, step by step.
LEMMA KeepLoop ==
  ASSUME NEW s \in Seq(Pages), NEW gone
  PROVE  \E g : /\ g[0] = <<>>
                /\ \A k \in 1 .. Len(s) :
                     g[k] = g[k - 1] \o (IF s[k] \in gone THEN <<>> ELSE <<s[k]>>)
                /\ Keep(s, gone) = g[Len(s)]
<1> DEFINE N == Len(s)
           A == Seq(Pages)
           q(k) == IF s[k] \in gone THEN <<>> ELSE <<s[k]>>
           G(h) == [k \in 0 .. N |-> IF k = 0 THEN <<>> ELSE h[k - 1] \o q(k)]
           g == CHOOSE h : h = G(h)
           F == [x \in A \X (1 .. N) |-> x[1] \o q(x[2])]
<1>1. N \in Nat /\ <<>> \in A /\ \A k \in 1 .. N : q(k) \in A
  OBVIOUS
<1>2. Keep(s, gone) = g[N]
  BY DEF Keep
<1> HIDE DEF N, q
<1>3. F \in [A \X (1 .. N) -> A] /\ \A a \in A, k \in 1 .. N : F[<<a, k>>] = a \o q(k)
  <2>1. \A a \in A, k \in 1 .. N : a \o q(k) \in A
    BY <1>1
  <2> HIDE DEF A
  <2> QED
    BY <2>1
<1>4. PICK f \in [0 .. N -> A] : f[0] = <<>> /\ \A k \in 1 .. N : f[k] = F[<<f[k - 1], k>>]
  <2> HIDE DEF F, A
  <2>1. LoopBody(A, N, <<>>, F)
    BY <1>1, <1>3 DEF LoopBody
  <2> QED
    BY <2>1, LoopExists
<1> HIDE DEF F
<1>5. f = G(f)
  <2>1. \A k \in 1 .. N : f[k] = f[k - 1] \o q(k)
    <3>1. \A k \in 1 .. N : k - 1 \in 0 .. N
      BY <1>1
    <3> HIDE DEF A
    <3> QED
      BY <1>3, <1>4, <3>1
  <2>2. \A k \in 0 .. N : k = 0 \/ k \in 1 .. N
    BY <1>1
  <2> QED
    BY <1>4, <2>1, <2>2
<1>6. g = G(g)
  <2> HIDE DEF G
  <2> QED
    BY <1>5
<1> HIDE DEF g
<1>7. g[0] = <<>> /\ \A k \in 1 .. N : g[k] = g[k - 1] \o q(k)
  <2>1. 0 \in 0 .. N /\ \A k \in 1 .. N : k \in 0 .. N /\ k # 0
    BY <1>1
  <2> QED
    BY <1>6, <2>1
<1> QED
  BY <1>2, <1>7 DEF N, q

\* An id larger than all of a sorted vector keeps it sorted.
LEMMA AppendAscending ==
  ASSUME NEW P \in SUBSET Nat, NEW s \in Seq(P), Ascending(s), NEW x \in P,
         \A y \in ToSet(s) : y < x
  PROVE  Ascending(s \o <<x>>)
<1> DEFINE u == s \o <<x>>
           n == Len(s)
<1>1. /\ n \in Nat /\ Len(u) = n + 1 /\ u[n + 1] = x
      /\ \A i \in 1 .. n : u[i] = s[i] /\ s[i] \in ToSet(s)
  BY DEF ToSet
<1> HIDE DEF u, n
<1>2. ASSUME NEW i \in 1 .. n + 1, NEW j \in 1 .. n + 1, i < j PROVE u[i] < u[j]
  <2>1. i \in 1 .. n
    BY <1>1, <1>2
  <2>2. CASE j \in 1 .. n
    BY <1>1, <1>2, <2>1, <2>2 DEF Ascending, n
  <2>3. CASE j = n + 1
    BY <1>1, <2>1, <2>3
  <2> QED
    BY <1>1, <2>2, <2>3
<1> QED
  BY <1>1, <1>2 DEF Ascending, u

\* reload leaves out exactly the ids that are gone and keeps the order.
LEMMA KeepFacts ==
  ASSUME NEW s \in Seq(Pages), Ascending(s), NEW gone
  PROVE  /\ Keep(s, gone) \in Seq(Pages) /\ Ascending(Keep(s, gone))
         /\ ToSet(Keep(s, gone)) = ToSet(s) \ gone
<1> DEFINE N == Len(s)
           U(k) == {s[i] : i \in 1 .. k} \ gone
           q(k) == IF s[k] \in gone THEN <<>> ELSE <<s[k]>>
           J == [k \in 0 .. N |-> {a \in Seq(Pages) : ToSet(a) = U(k) /\ Ascending(a)}]
<1>1. /\ N \in Nat /\ ToSet(s) = {s[i] : i \in 1 .. N} /\ Pages \in SUBSET Nat
      /\ \A k \in 1 .. N : s[k] \in Pages /\ k \in 0 .. N /\ k - 1 \in 0 .. N
  BY ToSetFacts, FreeListAssumption DEF Pages
<1>2. PICK g : /\ g[0] = <<>>
               /\ \A k \in 1 .. N : g[k] = g[k - 1] \o q(k)
               /\ Keep(s, gone) = g[N]
  BY KeepLoop
<1>3. g[0] \in J[0]
  <2>1. <<>> \in Seq(Pages) /\ ToSet(<<>>) = {} /\ Ascending(<<>>)
    BY DEF ToSet, Ascending
  <2>2. U(0) = {} /\ 0 \in 0 .. N
    BY <1>1
  <2> HIDE DEF U, N
  <2> QED
    BY <1>2, <2>1, <2>2
<1>4. ASSUME NEW k \in 1 .. N, g[k - 1] \in J[k - 1] PROVE g[k] \in J[k]
  <2>1. g[k - 1] \in Seq(Pages) /\ ToSet(g[k - 1]) = U(k - 1) /\ Ascending(g[k - 1])
    <3> HIDE DEF U, N
    <3> QED
      BY <1>1, <1>4
  <2>2. \A i \in 1 .. k : i \in 1 .. k - 1 \/ i = k
    BY <1>1
  <2>3. k \in 1 .. k /\ \A i \in 1 .. k - 1 : i \in 1 .. k /\ i \in 1 .. N /\ i < k
    BY <1>1
  <2>4. CASE s[k] \in gone
    <3>1. U(k) = U(k - 1)
      BY <2>2, <2>3, <2>4
    <3>2. g[k] = g[k - 1]
      <4>1. g[k] = g[k - 1] \o <<>>
        BY <1>2, <2>4
      <4>2. \A a \in Seq(Pages) : a \o <<>> = a
        OBVIOUS
      <4> QED
        BY <2>1, <4>1, <4>2
    <3> HIDE DEF U, N
    <3> QED
      BY <1>1, <2>1, <3>1, <3>2
  <2>5. CASE s[k] \notin gone
    <3>1. U(k) = U(k - 1) \cup {s[k]}
      BY <2>2, <2>3, <2>5
    <3>2. \A y \in U(k - 1) : y < s[k]
      BY <2>3 DEF Ascending
    <3>3. g[k] = g[k - 1] \o <<s[k]>>
      BY <1>2, <2>5
    <3> DEFINE x == s[k]
    <3>4. x \in Pages /\ <<x>> \in Seq(Pages) /\ ToSet(<<x>>) = {x}
      <4>1. x \in Pages
        BY <1>1
      <4> HIDE DEF x
      <4> QED
        BY <4>1 DEF ToSet
    <3> HIDE DEF U, N, x
    <3>5. Ascending(g[k - 1] \o <<x>>)
      <4>1. \A y \in ToSet(g[k - 1]) : y < x
        BY <2>1, <3>2 DEF x
      <4> QED
        BY <1>1, <2>1, <3>4, <4>1, AppendAscending
    <3>6. g[k - 1] \o <<x>> \in Seq(Pages) /\ ToSet(g[k - 1] \o <<x>>) = U(k)
      <4>1. ToSet(g[k - 1] \o <<x>>) = ToSet(g[k - 1]) \cup ToSet(<<x>>)
        <5> DEFINE t == <<x>>
        <5>1. t \in Seq(Pages)
          BY <3>4
        <5> HIDE DEF t
        <5>2. ToSet(g[k - 1] \o t) = ToSet(g[k - 1]) \cup ToSet(t)
          BY <2>1, <5>1, ConcatFacts
        <5> QED
          BY <5>2 DEF t
      <4> QED
        BY <2>1, <3>1, <3>4, <4>1 DEF x
    <3> QED
      BY <1>1, <3>3, <3>5, <3>6 DEF x
  <2> QED
    BY <2>4, <2>5
<1>5. g[N] \in J[N]
  <2> HIDE DEF J, N
  <2>1. \A k \in 0 .. N : g[k] \in J[k]
    BY <1>1, <1>3, <1>4, Along
  <2> QED
    BY <1>1, <2>1
<1>6. U(N) = ToSet(s) \ gone /\ N \in 0 .. N
  BY <1>1
<1> HIDE DEF U, N
<1> QED
  BY <1>2, <1>5, <1>6

---------------------------------------------------------------------------
(* freeList::mergeids_.                                                    *)

\* The ids from index i on.
From(s, i) == {s[k] : k \in i .. Len(s)}

\* An id below all others goes in front of a sorted vector.
LEMMA PrependFacts ==
  ASSUME NEW P \in SUBSET Nat, NEW s \in Seq(P), Ascending(s), NEW x \in P,
         \A y \in ToSet(s) : x < y
  PROVE  /\ <<x>> \o s \in Seq(P) /\ Len(<<x>> \o s) = Len(s) + 1
         /\ Ascending(<<x>> \o s) /\ ToSet(<<x>> \o s) = {x} \cup ToSet(s)
<1> DEFINE t == <<x>>
           u == t \o s
           n == Len(s)
<1>1. t \in Seq(P) /\ Len(t) = 1 /\ ToSet(t) = {x}
  BY DEF ToSet
<1>2. u \in Seq(P) /\ n \in Nat /\ Len(u) = n + 1 /\ u[1] = x
      /\ \A i \in 1 .. n : u[i + 1] = s[i] /\ s[i] \in ToSet(s)
  BY DEF ToSet
<1>3. ToSet(u) = {x} \cup ToSet(s)
  <2>1. ToSet(u) = ToSet(t) \cup ToSet(s)
    <3> HIDE DEF t
    <3> QED
      BY <1>1, ConcatFacts
  <2> QED
    BY <1>1, <2>1
<1> HIDE DEF t, u, n
<1>4. ASSUME NEW i \in 1 .. n + 1, NEW j \in 1 .. n + 1, i < j PROVE u[i] < u[j]
  <2>1. j - 1 \in 1 .. n /\ u[j] = s[j - 1] /\ s[j - 1] \in ToSet(s)
    <3>1. j - 1 \in 1 .. n /\ (j - 1) + 1 = j
      BY <1>2, <1>4
    <3> QED
      BY <1>2, <3>1
  <2>2. CASE i = 1
    BY <1>2, <2>1, <2>2
  <2>3. CASE i # 1
    <3>1. i - 1 \in 1 .. n /\ (i - 1) + 1 = i /\ i - 1 < j - 1
      BY <1>2, <1>4, <2>3
    <3>2. u[i] = s[i - 1]
      BY <1>2, <3>1
    <3>3. s[i - 1] < s[j - 1]
      BY <2>1, <3>1 DEF Ascending, n
    <3> QED
      BY <2>1, <3>2, <3>3
  <2> QED
    BY <2>2, <2>3
<1>5. Ascending(u)
  BY <1>2, <1>4 DEF Ascending
<1> QED
  BY <1>2, <1>3, <1>5 DEF u, t, n

\* The rest of a sorted vector is sorted.
LEMMA TailFacts ==
  ASSUME NEW P \in SUBSET Nat, NEW s \in Seq(P), Ascending(s), NEW i \in 1 .. Len(s) + 1
  PROVE  /\ SubSeq(s, i, Len(s)) \in Seq(P) /\ Len(SubSeq(s, i, Len(s))) = Len(s) + 1 - i
         /\ Ascending(SubSeq(s, i, Len(s))) /\ ToSet(SubSeq(s, i, Len(s))) = From(s, i)
<1> DEFINE u == SubSeq(s, i, Len(s))
           n == Len(s)
<1>1. /\ n \in Nat /\ u \in Seq(P) /\ Len(u) = n + 1 - i
      /\ \A k \in 1 .. n + 1 - i : u[k] = s[i + k - 1]
  OBVIOUS
<1>2. ToSet(u) = {u[k] : k \in 1 .. n + 1 - i}
  BY <1>1, ToSetFacts
<1> HIDE DEF u
<1>3. \A k \in 1 .. n + 1 - i : i + k - 1 \in i .. n /\ i + k - 1 \in 1 .. n
  BY <1>1
<1>4. \A k \in i .. n : k - i + 1 \in 1 .. n + 1 - i /\ i + (k - i + 1) - 1 = k
  BY <1>1
<1>5. ToSet(u) = From(s, i)
  <2>1. \A k \in 1 .. n + 1 - i : u[k] \in From(s, i)
    BY <1>1, <1>3 DEF From
  <2>2. \A k \in i .. n : s[k] = u[k - i + 1]
    BY <1>1, <1>4
  <2>3. \A k \in i .. n : s[k] \in ToSet(u)
    BY <1>2, <1>4, <2>2
  <2> QED
    BY <1>2, <2>1, <2>3 DEF From
<1>6. ASSUME NEW k \in 1 .. n + 1 - i, NEW l \in 1 .. n + 1 - i, k < l
      PROVE  u[k] < u[l]
  <2>1. i + k - 1 < i + l - 1
    BY <1>1, <1>6
  <2> QED
    BY <1>1, <1>3, <2>1 DEF Ascending
<1>7. Ascending(u)
  BY <1>1, <1>6 DEF Ascending
<1> QED
  BY <1>1, <1>5, <1>7 DEF u

\* The loop as an equation between the indices it stands at.
LEMMA MergeLoop ==
  ASSUME NEW src \in Seq(Pages), NEW own \in Seq(Pages)
  PROVE  \E g :
           /\ Merge(src, own) = g[<<1, 1>>]
           /\ \A i \in 1 .. Len(src) + 1, j \in 1 .. Len(own) + 1 :
                g[<<i, j>>] =
                  IF i > Len(src) THEN SubSeq(own, j, Len(own))
                  ELSE IF j > Len(own) THEN SubSeq(src, i, Len(src))
                  ELSE IF src[i] < own[j] THEN <<src[i]>> \o g[<<i + 1, j>>]
                  ELSE <<own[j]>> \o g[<<i, j + 1>>]
<1> DEFINE n == Len(src)
           m == Len(own)
           D == (1 .. n + 1) \X (1 .. m + 1)
           A == Seq(Pages)
           B(f, p) ==
             LET i == p[1]
                 j == p[2]
             IN  IF i > n THEN SubSeq(own, j, m)
                 ELSE IF j > m THEN SubSeq(src, i, n)
                 ELSE IF src[i] < own[j] THEN <<src[i]>> \o f[<<i + 1, j>>]
                 ELSE <<own[j]>> \o f[<<i, j + 1>>]
           G(h) == [p \in D |-> B(h, p)]
           g == CHOOSE h : h = G(h)
           Step == [x \in [D -> A] \X D |-> B(x[1], x[2])]
           rank == [p \in D |-> (n + 1 - p[1]) + (m + 1 - p[2])]
<1>1. n \in Nat /\ m \in Nat
  OBVIOUS
<1>2. Merge(src, own) = g[<<1, 1>>]
  BY DEF Merge
<1>3. \A p \in D : p = <<p[1], p[2]>> /\ p[1] \in 1 .. n + 1 /\ p[2] \in 1 .. m + 1
  OBVIOUS
<1>4. ASSUME NEW f \in [D -> A], NEW p \in D PROVE B(f, p) \in A
  <2> DEFINE i == p[1]
             j == p[2]
  <2>1. i \in 1 .. n + 1 /\ j \in 1 .. m + 1
    BY <1>3
  <2> HIDE DEF i, j
  <2>2. CASE i > n
    <3>1. SubSeq(own, j, m) \in A
      BY <2>1
    <3> QED
      BY <2>2, <3>1 DEF i, j
  <2>3. CASE ~(i > n) /\ j > m
    <3>1. SubSeq(src, i, n) \in A
      BY <2>1
    <3> QED
      BY <2>3, <3>1 DEF i, j
  <2>4. CASE ~(i > n) /\ ~(j > m)
    <3>1. i \in 1 .. n /\ j \in 1 .. m /\ <<i + 1, j>> \in D /\ <<i, j + 1>> \in D
      BY <1>1, <2>1, <2>4
    <3>2. src[i] \in Pages /\ own[j] \in Pages /\ f[<<i + 1, j>>] \in A /\ f[<<i, j + 1>>] \in A
      <4>1. src[i] \in Pages /\ own[j] \in Pages
        BY <3>1
      <4> HIDE DEF D
      <4> QED
        BY <3>1, <4>1
    <3>3. <<src[i]>> \o f[<<i + 1, j>>] \in A /\ <<own[j]>> \o f[<<i, j + 1>>] \in A
      BY <3>2
    <3> QED
      BY <2>4, <3>3 DEF i, j
  <2> QED
    BY <2>2, <2>3, <2>4
<1>5. ASSUME NEW f \in [D -> A], NEW h \in [D -> A], NEW p \in D,
             \A q \in D : rank[q] < rank[p] => f[q] = h[q]
      PROVE  B(f, p) = B(h, p)
  <2> DEFINE i == p[1]
             j == p[2]
  <2>1. i \in 1 .. n + 1 /\ j \in 1 .. m + 1
    BY <1>3
  <2> SUFFICES ASSUME ~(i > n), ~(j > m) PROVE B(f, p) = B(h, p)
    OBVIOUS
  <2>2. <<i + 1, j>> \in D /\ <<i, j + 1>> \in D
    BY <1>1, <2>1
  <2>3. /\ rank[p] = (n + 1 - i) + (m + 1 - j)
        /\ rank[<<i + 1, j>>] = (n + 1 - (i + 1)) + (m + 1 - j)
        /\ rank[<<i, j + 1>>] = (n + 1 - i) + (m + 1 - (j + 1))
    BY <2>2
  <2>4. rank[<<i + 1, j>>] < rank[p] /\ rank[<<i, j + 1>>] < rank[p]
    <3>1. i \in Int /\ j \in Int /\ n \in Int /\ m \in Int
      BY <1>1, <2>1
    <3> HIDE DEF rank, i, j, n, m
    <3>2. /\ (n + 1 - (i + 1)) + (m + 1 - j) < (n + 1 - i) + (m + 1 - j)
          /\ (n + 1 - i) + (m + 1 - (j + 1)) < (n + 1 - i) + (m + 1 - j)
      BY <3>1
    <3> QED
      BY <2>3, <3>2
  <2>5. f[<<i + 1, j>>] = h[<<i + 1, j>>] /\ f[<<i, j + 1>>] = h[<<i, j + 1>>]
    <3> HIDE DEF D, rank, i, j
    <3> QED
      BY <1>5, <2>2, <2>4
  <2> QED
    BY <2>5
<1>6. PICK f \in [D -> A] : \A p \in D : f[p] = Step[<<f, p>>]
  <2>1. Recursive(D, A, n + m, rank, <<>>, Step)
    <3>1. n + m \in Nat /\ <<>> \in A
      BY <1>1
    <3>2. rank \in [D -> 0 .. n + m]
      BY <1>1
    <3> HIDE DEF B, D, A, rank
    <3>3. Step \in [[D -> A] \X D -> A] /\ \A f \in [D -> A], p \in D : Step[<<f, p>>] = B(f, p)
      BY <1>4
    <3> HIDE DEF Step
    <3>4. \A f, h \in [D -> A], p \in D :
            (\A q \in D : rank[q] < rank[p] => f[q] = h[q]) => Step[<<f, p>>] = Step[<<h, p>>]
      <4> SUFFICES ASSUME NEW f \in [D -> A], NEW h \in [D -> A], NEW p \in D,
                          \A q \in D : rank[q] < rank[p] => f[q] = h[q]
                   PROVE  Step[<<f, p>>] = Step[<<h, p>>]
        OBVIOUS
      <4>1. B(f, p) = B(h, p)
        BY <1>5
      <4> QED
        BY <3>3, <4>1
    <3>5. Step \in [[D -> A] \X D -> A]
      BY <3>3
    <3> QED
      BY <3>1, <3>2, <3>4, <3>5 DEF Recursive
  <2> HIDE DEF D, A, rank, Step
  <2> QED
    BY <2>1, Recursion
<1>7. f = G(f)
  <2> HIDE DEF B, D, A
  <2>1. \A p \in D : f[p] = B(f, p)
    BY <1>6
  <2> QED
    BY <2>1
<1>8. g = G(g)
  <2> HIDE DEF G
  <2> QED
    BY <1>7
<1> HIDE DEF g
<1>9. \A i \in 1 .. n + 1, j \in 1 .. m + 1 : <<i, j>> \in D /\ g[<<i, j>>] = B(g, <<i, j>>)
  <2>1. \A i \in 1 .. n + 1, j \in 1 .. m + 1 : <<i, j>> \in D
    OBVIOUS
  <2> HIDE DEF D, B
  <2> QED
    BY <1>8, <2>1
<1> QED
  BY <1>2, <1>9

\* What is left of a sorted vector after its first id is larger.
LEMMA FromFacts ==
  ASSUME NEW P \in SUBSET Nat, NEW s \in Seq(P), Ascending(s), NEW i \in 1 .. Len(s)
  PROVE  /\ s[i] \in P /\ From(s, i) = {s[i]} \cup From(s, i + 1)
         /\ \A y \in From(s, i + 1) : s[i] < y
         /\ \A y \in From(s, i) : s[i] <= y
<1>1. Len(s) \in Nat /\ \A k \in 1 .. Len(s) : s[k] \in P
  OBVIOUS
<1>2. \A k \in i .. Len(s) : k = i \/ k \in i + 1 .. Len(s)
  BY <1>1
<1>3. i \in i .. Len(s) /\ \A k \in i + 1 .. Len(s) : k \in i .. Len(s) /\ k \in 1 .. Len(s) /\ i < k
  BY <1>1
<1>4. From(s, i) = {s[i]} \cup From(s, i + 1)
  BY <1>2, <1>3 DEF From
<1>5. \A y \in From(s, i + 1) : s[i] < y
  BY <1>3 DEF From, Ascending
<1>6. \A y \in From(s, i) : s[i] <= y
  <2>1. s[i] \in Nat
    BY <1>1
  <2>2. \A y \in From(s, i + 1) : y \in Nat
    BY <1>1, <1>3 DEF From
  <2> QED
    BY <1>4, <1>5, <2>1, <2>2
<1> QED
  BY <1>1, <1>4, <1>5, <1>6

\* What the merge has made of the ids in S.
Sorted(a, len, S) == a \in Seq(Pages) /\ Len(a) = len /\ Ascending(a) /\ ToSet(a) = S

\* mergeids_ of two sorted vectors that share no id gives a sorted vector with
\* the ids of both.
LEMMA MergeFacts ==
  ASSUME NEW src \in Seq(Pages), Ascending(src), NEW own \in Seq(Pages), Ascending(own),
         ToSet(src) \cap ToSet(own) = {}
  PROVE  /\ Merge(src, own) \in Seq(Pages) /\ Ascending(Merge(src, own))
         /\ Len(Merge(src, own)) = Len(src) + Len(own)
         /\ ToSet(Merge(src, own)) = ToSet(src) \cup ToSet(own)
<1> DEFINE n == Len(src)
           m == Len(own)
           D == (1 .. n + 1) \X (1 .. m + 1)
           rank == [p \in D |-> (n + 1 - p[1]) + (m + 1 - p[2])]
<1>1. n \in Nat /\ m \in Nat /\ Pages \in SUBSET Nat
  BY FreeListAssumption DEF Pages
<1>2. PICK g : /\ Merge(src, own) = g[<<1, 1>>]
               /\ \A i \in 1 .. n + 1, j \in 1 .. m + 1 :
                    g[<<i, j>>] =
                      IF i > n THEN SubSeq(own, j, m)
                      ELSE IF j > m THEN SubSeq(src, i, n)
                      ELSE IF src[i] < own[j] THEN <<src[i]>> \o g[<<i + 1, j>>]
                      ELSE <<own[j]>> \o g[<<i, j + 1>>]
  BY MergeLoop
<1> DEFINE Good(i, j) == Sorted(g[<<i, j>>], (n + 1 - i) + (m + 1 - j), From(src, i) \cup From(own, j))
           Q == {p \in D : Good(p[1], p[2])}
<1>3. ASSUME NEW i \in 1 .. n + 1, NEW j \in 1 .. m + 1,
             i <= n /\ j <= m => Good(i + 1, j) /\ Good(i, j + 1)
      PROVE  Good(i, j)
  <2>1. CASE i > n
    <3>1. g[<<i, j>>] = SubSeq(own, j, m)
      BY <1>2, <2>1
    <3>2. Sorted(SubSeq(own, j, m), m + 1 - j, From(own, j))
      BY <1>1, TailFacts DEF Sorted
    <3>3. i = n + 1 /\ From(src, i) = {}
      BY <1>1, <2>1 DEF From
    <3>4. (n + 1 - i) + (m + 1 - j) = m + 1 - j
      BY <1>1, <3>3
    <3> QED
      BY <3>1, <3>2, <3>3, <3>4
  <2>2. CASE ~(i > n) /\ j > m
    <3>1. g[<<i, j>>] = SubSeq(src, i, n)
      BY <1>2, <2>2
    <3>2. Sorted(SubSeq(src, i, n), n + 1 - i, From(src, i))
      BY <1>1, TailFacts DEF Sorted
    <3>3. j = m + 1 /\ From(own, j) = {}
      BY <1>1, <2>2 DEF From
    <3>4. (n + 1 - i) + (m + 1 - j) = n + 1 - i
      BY <1>1, <3>3
    <3> QED
      BY <3>1, <3>2, <3>3, <3>4
  <2>3. CASE ~(i > n) /\ ~(j > m)
    <3>1. i \in 1 .. n /\ j \in 1 .. m /\ i <= n /\ j <= m
      BY <1>1, <2>3
    <3>2. /\ src[i] \in Pages /\ From(src, i) = {src[i]} \cup From(src, i + 1)
          /\ \A y \in From(src, i + 1) : src[i] < y
          /\ \A y \in From(src, i) : src[i] <= y
      BY <1>1, <3>1, FromFacts
    <3>3. /\ own[j] \in Pages /\ From(own, j) = {own[j]} \cup From(own, j + 1)
          /\ \A y \in From(own, j + 1) : own[j] < y
          /\ \A y \in From(own, j) : own[j] <= y
      BY <1>1, <3>1, FromFacts
    <3>4. src[i] # own[j]
      <4>1. src[i] \in ToSet(src) /\ own[j] \in ToSet(own)
        BY <3>1 DEF ToSet
      <4> QED
        BY <4>1
    <3>5. From(src, i) \subseteq Nat /\ From(own, j) \subseteq Nat /\ src[i] \in Nat /\ own[j] \in Nat
      <4>1. From(src, i) \subseteq Pages /\ From(own, j) \subseteq Pages
        BY <3>1 DEF From
      <4> QED
        BY <4>1, <3>2, <3>3, <1>1
    <3>6. CASE src[i] < own[j]
      <4> DEFINE x == src[i]
                 a == g[<<i + 1, j>>]
      <4>1. g[<<i, j>>] = <<x>> \o a
        BY <1>2, <2>3, <3>6
      <4>2. Sorted(a, (n + 1 - (i + 1)) + (m + 1 - j), From(src, i + 1) \cup From(own, j))
        BY <1>3, <3>1
      <4>3. \A y \in ToSet(a) : x < y
        <5>1. \A y \in From(own, j) : x < y
          BY <3>3, <3>5, <3>6
        <5> QED
          BY <4>2, <5>1, <3>2 DEF Sorted
      <4>4. x \in Pages
        BY <3>2
      <4> HIDE DEF a, x
      <4>5. /\ <<x>> \o a \in Seq(Pages) /\ Len(<<x>> \o a) = Len(a) + 1
            /\ Ascending(<<x>> \o a) /\ ToSet(<<x>> \o a) = {x} \cup ToSet(a)
        BY <1>1, <4>2, <4>3, <4>4, PrependFacts DEF Sorted
      <4>6. (n + 1 - (i + 1)) + (m + 1 - j) + 1 = (n + 1 - i) + (m + 1 - j)
        BY <1>1
      <4>7. {x} \cup (From(src, i + 1) \cup From(own, j)) = From(src, i) \cup From(own, j)
        BY <3>2 DEF x
      <4> QED
        BY <4>1, <4>2, <4>5, <4>6, <4>7 DEF Sorted
    <3>7. CASE ~(src[i] < own[j])
      <4> DEFINE x == own[j]
                 a == g[<<i, j + 1>>]
      <4>1. g[<<i, j>>] = <<x>> \o a
        BY <1>2, <2>3, <3>7
      <4>2. Sorted(a, (n + 1 - i) + (m + 1 - (j + 1)), From(src, i) \cup From(own, j + 1))
        BY <1>3, <3>1
      <4>3. \A y \in ToSet(a) : x < y
        <5>1. own[j] < src[i]
          BY <3>4, <3>5, <3>7
        <5>2. \A y \in From(src, i) : x < y
          BY <3>2, <3>5, <5>1
        <5> QED
          BY <4>2, <5>2, <3>3 DEF Sorted
      <4>4. x \in Pages
        BY <3>3
      <4> HIDE DEF a, x
      <4>5. /\ <<x>> \o a \in Seq(Pages) /\ Len(<<x>> \o a) = Len(a) + 1
            /\ Ascending(<<x>> \o a) /\ ToSet(<<x>> \o a) = {x} \cup ToSet(a)
        BY <1>1, <4>2, <4>3, <4>4, PrependFacts DEF Sorted
      <4>6. (n + 1 - i) + (m + 1 - (j + 1)) + 1 = (n + 1 - i) + (m + 1 - j)
        BY <1>1
      <4>7. {x} \cup (From(src, i) \cup From(own, j + 1)) = From(src, i) \cup From(own, j)
        BY <3>3 DEF x
      <4> QED
        BY <4>1, <4>2, <4>5, <4>6, <4>7 DEF Sorted
    <3> QED
      BY <3>6, <3>7
  <2> QED
    BY <2>1, <2>2, <2>3
<1> HIDE DEF Good
<1>4. Progress(D, rank, Q)
  <2>1. rank \in [D -> Nat]
    BY <1>1
  <2>2. ASSUME NEW p \in D, \A q \in D : rank[q] < rank[p] => q \in Q PROVE p \in Q
    <3> DEFINE i == p[1]
               j == p[2]
    <3>1. i \in 1 .. n + 1 /\ j \in 1 .. m + 1
      OBVIOUS
    <3>2. ASSUME i <= n, j <= m PROVE Good(i + 1, j) /\ Good(i, j + 1)
      <4>1. <<i + 1, j>> \in D /\ <<i, j + 1>> \in D
        BY <1>1, <3>1, <3>2
      <4>2. /\ rank[p] = (n + 1 - i) + (m + 1 - j)
            /\ rank[<<i + 1, j>>] = (n + 1 - (i + 1)) + (m + 1 - j)
            /\ rank[<<i, j + 1>>] = (n + 1 - i) + (m + 1 - (j + 1))
        BY <4>1
      <4>3. rank[<<i + 1, j>>] < rank[p] /\ rank[<<i, j + 1>>] < rank[p]
        <5>1. i \in Int /\ j \in Int /\ n \in Int /\ m \in Int
          BY <1>1, <3>1
        <5> HIDE DEF rank, i, j, n, m
        <5>2. /\ (n + 1 - (i + 1)) + (m + 1 - j) < (n + 1 - i) + (m + 1 - j)
              /\ (n + 1 - i) + (m + 1 - (j + 1)) < (n + 1 - i) + (m + 1 - j)
          BY <5>1
        <5> QED
          BY <4>2, <5>2
      <4>4. <<i + 1, j>> \in Q /\ <<i, j + 1>> \in Q
        <5> HIDE DEF D, Q, rank, i, j
        <5> QED
          BY <2>2, <4>1, <4>3
      <4> QED
        BY <4>4
    <3>3. Good(i, j)
      BY <1>3, <3>1, <3>2
    <3> QED
      BY <3>3
  <2> HIDE DEF D, Q, rank
  <2> QED
    BY <2>1, <2>2 DEF Progress
<1>5. <<1, 1>> \in Q
  <2>1. <<1, 1>> \in D
    BY <1>1
  <2> HIDE DEF D, Q, rank
  <2> QED
    BY <1>4, <2>1, RankInduction
<1>6. Good(1, 1)
  BY <1>5
<1>7. From(src, 1) = ToSet(src) /\ From(own, 1) = ToSet(own)
  BY ToSetFacts DEF From
<1>8. (n + 1 - 1) + (m + 1 - 1) = n + m
  BY <1>1
<1> QED
  BY <1>2, <1>6, <1>7, <1>8 DEF Good, Sorted

---------------------------------------------------------------------------
(* freeList::allocate.                                                     *)

\* The loop of allocate, step by step.
LEMMA ScanLoop ==
  ASSUME NEW s \in Seq(Pages), NEW n \in Nat \ {0}
  PROVE  \E f :
           /\ Scan(s, n) = f[<<1, 0>>]
           /\ \A i \in 1 .. Len(s) + 1, c \in Pages \cup {0} :
                f[<<i, c>>] =
                  IF i > Len(s) THEN [at |-> 0, init |-> 0]
                  ELSE IF s[i] - RunStart(s, i, c) + 1 = n
                       THEN [at |-> i, init |-> RunStart(s, i, c)]
                       ELSE f[<<i + 1, RunStart(s, i, c)>>]
<1> DEFINE N == Len(s)
           C == Pages \cup {0}
           D == (1 .. N + 1) \X C
           A == [at : 0 .. N, init : C]
           B(f, p) ==
             LET i == p[1]
                 init == RunStart(s, i, p[2])
             IN  IF i > N THEN [at |-> 0, init |-> 0]
                 ELSE IF s[i] - init + 1 = n THEN [at |-> i, init |-> init]
                 ELSE f[<<i + 1, init>>]
           G(h) == [p \in D |-> B(h, p)]
           g == CHOOSE h : h = G(h)
           Step == [x \in [D -> A] \X D |-> B(x[1], x[2])]
           rank == [p \in D |-> N + 1 - p[1]]
           a0 == [at |-> 0, init |-> 0]
<1>1. N \in Nat /\ \A i \in 1 .. N : s[i] \in Pages
  OBVIOUS
<1>2. Scan(s, n) = g[<<1, 0>>]
  BY DEF Scan
<1>3. \A p \in D : p = <<p[1], p[2]>> /\ p[1] \in 1 .. N + 1 /\ p[2] \in C
  OBVIOUS
<1>r. \A i \in 1 .. N, c \in C : RunStart(s, i, c) \in C
  BY <1>1 DEF RunStart
<1>a. a0 \in A
  BY <1>1
<1>4. ASSUME NEW f \in [D -> A], NEW p \in D PROVE B(f, p) \in A
  <2> DEFINE i == p[1]
             r == RunStart(s, i, p[2])
  <2>1. i \in 1 .. N + 1 /\ p[2] \in C
    BY <1>3
  <2>2. CASE i > N
    BY <1>a, <2>2
  <2>3. CASE ~(i > N)
    <3>1. i \in 1 .. N /\ i + 1 \in 1 .. N + 1
      BY <1>1, <2>1, <2>3
    <3>2. r \in C
      BY <1>r, <2>1, <3>1
    <3> HIDE DEF r, C
    <3>3. [at |-> i, init |-> r] \in A
      BY <3>1, <3>2
    <3>4. <<i + 1, r>> \in D
      BY <3>1, <3>2
    <3>5. f[<<i + 1, r>>] \in A
      <4> HIDE DEF D, A
      <4> QED
        BY <3>4
    <3> HIDE DEF A
    <3> QED
      BY <2>3, <3>3, <3>5 DEF r
  <2> QED
    BY <2>2, <2>3
<1>5. ASSUME NEW f \in [D -> A], NEW h \in [D -> A], NEW p \in D,
             \A q \in D : rank[q] < rank[p] => f[q] = h[q]
      PROVE  B(f, p) = B(h, p)
  <2> DEFINE i == p[1]
             r == RunStart(s, i, p[2])
  <2>1. i \in 1 .. N + 1 /\ p[2] \in C
    BY <1>3
  <2> SUFFICES ASSUME ~(i > N) PROVE B(f, p) = B(h, p)
    OBVIOUS
  <2>2. i \in 1 .. N /\ i + 1 \in 1 .. N + 1
    BY <1>1, <2>1
  <2>3. r \in C
    BY <1>r, <2>1, <2>2
  <2> HIDE DEF r, C
  <2>4. <<i + 1, r>> \in D
    BY <2>2, <2>3
  <2>5. rank[p] = N + 1 - i /\ rank[<<i + 1, r>>] = N + 1 - (i + 1)
    BY <2>4
  <2>6. rank[<<i + 1, r>>] < rank[p]
    <3>1. i \in Int /\ N \in Int
      BY <1>1, <2>1
    <3> HIDE DEF rank, i, N
    <3>2. N + 1 - (i + 1) < N + 1 - i
      BY <3>1
    <3> QED
      BY <2>5, <3>2
  <2>7. f[<<i + 1, r>>] = h[<<i + 1, r>>]
    <3> HIDE DEF D, rank, i
    <3> QED
      BY <1>5, <2>4, <2>6
  <2> QED
    BY <2>7 DEF r
<1>6. PICK f \in [D -> A] : \A p \in D : f[p] = Step[<<f, p>>]
  <2>1. Recursive(D, A, N, rank, a0, Step)
    <3>1. N \in Nat
      BY <1>1
    <3>2. rank \in [D -> 0 .. N]
      BY <1>1
    <3> HIDE DEF B, D, A, rank, a0, N
    <3>3. Step \in [[D -> A] \X D -> A] /\ \A f \in [D -> A], p \in D : Step[<<f, p>>] = B(f, p)
      BY <1>4
    <3> HIDE DEF Step
    <3>4. \A f, h \in [D -> A], p \in D :
            (\A q \in D : rank[q] < rank[p] => f[q] = h[q]) => Step[<<f, p>>] = Step[<<h, p>>]
      <4> SUFFICES ASSUME NEW f \in [D -> A], NEW h \in [D -> A], NEW p \in D,
                          \A q \in D : rank[q] < rank[p] => f[q] = h[q]
                   PROVE  Step[<<f, p>>] = Step[<<h, p>>]
        OBVIOUS
      <4>1. B(f, p) = B(h, p)
        BY <1>5
      <4> QED
        BY <3>3, <4>1
    <3>5. Step \in [[D -> A] \X D -> A]
      BY <3>3
    <3> QED
      BY <1>a, <3>1, <3>2, <3>4, <3>5 DEF Recursive
  <2> HIDE DEF D, A, rank, Step, N, a0
  <2> QED
    BY <2>1, Recursion
<1>7. f = G(f)
  <2> HIDE DEF B, D, A
  <2>1. \A p \in D : f[p] = B(f, p)
    BY <1>6
  <2> QED
    BY <2>1
<1>8. g = G(g)
  <2> HIDE DEF G
  <2> QED
    BY <1>7
<1> HIDE DEF g
<1>9. \A i \in 1 .. N + 1, c \in C : <<i, c>> \in D /\ g[<<i, c>>] = B(g, <<i, c>>)
  <2>1. \A i \in 1 .. N + 1, c \in C : <<i, c>> \in D
    OBVIOUS
  <2> HIDE DEF D, B
  <2> QED
    BY <1>8, <2>1
<1> QED
  BY <1>2, <1>9

\* The n pages that end at index e of s are not all free.
NoRun(s, n, e) == ~(s[e] - n + 1 .. s[e] \subseteq ToSet(s))

\* The scan stands at index i and the run that ends before it starts at page
\* c, with fewer than n pages so far.
ScanAt(s, n, i, c) ==
  i > 1 =>
    /\ \E b \in 1 .. i - 1 : /\ \A k \in b .. i - 1 : s[k] = c + (k - b)
                             /\ i - b < n
    /\ c - 1 \notin ToSet(s)
    /\ \A e \in 1 .. i - 1 : NoRun(s, n, e)

\* The scan ended with nothing, or with the first n pages in a row.
ScanEnds(s, n, st) ==
  \/ /\ st = [at |-> 0, init |-> 0]
     /\ \A e \in 1 .. Len(s) : NoRun(s, n, e)
  \/ /\ st.at \in 1 .. Len(s) /\ n <= st.at /\ st.init \in Pages
     /\ \A k \in 1 .. n : s[st.at - n + k] = st.init + k - 1
     /\ \A e \in 1 .. st.at - 1 : NoRun(s, n, e)

\* One turn of the loop.
LEMMA ScanTurn ==
  ASSUME NEW s \in Seq(Pages), Ascending(s), NEW n \in Nat \ {0},
         NEW i \in 1 .. Len(s), NEW c \in Pages \cup {0}, ScanAt(s, n, i, c)
  PROVE  LET r == RunStart(s, i, c) IN
         /\ r \in Pages
         /\ s[i] - r + 1 = n => ScanEnds(s, n, [at |-> i, init |-> r])
         /\ s[i] - r + 1 # n => ScanAt(s, n, i + 1, r)
<1> DEFINE r == RunStart(s, i, c)
           N == Len(s)
<1>1. /\ N \in Nat /\ i \in Int /\ n \in Int /\ \A k \in 1 .. N : s[k] \in Pages /\ s[k] \in Nat
      /\ ToSet(s) = {s[k] : k \in 1 .. N}
  BY ToSetFacts, FreeListAssumption DEF Pages
<1>2. /\ r \in Pages /\ r - 1 \notin ToSet(s)
      /\ \E b \in 1 .. i : (\A k \in b .. i : s[k] = r + (k - b)) /\ i + 1 - b <= n
  <2>1. CASE i = 1 \/ s[i] - s[i - 1] # 1
    <3>1. r = s[i] /\ r \in Pages /\ r \in Nat
      BY <1>1, <2>1 DEF RunStart
    <3>2. ASSUME NEW k \in 1 .. N PROVE s[k] # s[i] - 1
      <4>1. CASE k >= i
        <5>1. s[k] >= s[i]
          BY <1>1, <4>1 DEF Ascending
        <5> QED
          BY <5>1, <1>1
      <4>2. CASE k < i
        <5>1. i - 1 \in 1 .. N /\ i # 1 /\ k <= i - 1 /\ i - 1 < i
          BY <1>1, <4>2
        <5>2. s[i - 1] < s[i] /\ s[i - 1] \in Nat
          BY <1>1, <5>1 DEF Ascending
        <5>3. s[i - 1] # s[i] - 1
          BY <1>1, <2>1, <5>1, <5>2
        <5>4. s[k] <= s[i - 1]
          BY <1>1, <5>1 DEF Ascending
        <5> QED
          BY <1>1, <5>2, <5>3, <5>4
      <4> QED
        BY <1>1, <4>1, <4>2
    <3>3. r - 1 \notin ToSet(s)
      BY <1>1, <3>1, <3>2
    <3>4. \A k \in i .. i : s[k] = r + (k - i)
      BY <1>1, <3>1
    <3> QED
      BY <1>1, <3>1, <3>3, <3>4
  <2>2. CASE i # 1 /\ s[i] - s[i - 1] = 1
    <3>1. r = c /\ i > 1 /\ i - 1 \in 1 .. N
      BY <1>1, <2>2 DEF RunStart
    <3>2. PICK b \in 1 .. i - 1 : (\A k \in b .. i - 1 : s[k] = c + (k - b)) /\ i - b < n
      BY <3>1 DEF ScanAt
    <3>3. c - 1 \notin ToSet(s)
      BY <3>1 DEF ScanAt
    <3>4. b \in Int /\ b \in 1 .. i /\ i - 1 \in b .. i - 1 /\ b \in b .. i - 1 /\ b \in 1 .. N
      BY <1>1, <3>1
    <3>5. s[b] = c + (b - b)
      BY <3>2, <3>4
    <3>6. c \in Nat
      BY FreeListAssumption DEF Pages
    <3>7. c = s[b] /\ c \in Pages
      BY <1>1, <3>4, <3>5, <3>6
    <3>8. s[i - 1] = c + (i - 1 - b) /\ s[i] \in Nat /\ s[i - 1] \in Nat
      BY <1>1, <3>1, <3>2, <3>4
    <3>9. s[i] = c + (i - b)
      <4>1. s[i] = s[i - 1] + 1
        BY <2>2, <3>8
      <4>2. \A v \in Int : v = c + (i - 1 - b) => v + 1 = c + (i - b)
        BY <1>1, <3>4, <3>6
      <4> QED
        BY <3>8, <4>1, <4>2
    <3>10. \A k \in b .. i : k \in b .. i - 1 \/ k = i
      BY <1>1, <3>4
    <3>11. \A k \in b .. i : s[k] = r + (k - b)
      BY <3>1, <3>2, <3>9, <3>10
    <3>12. i + 1 - b <= n
      BY <1>1, <3>2, <3>4
    <3> QED
      BY <3>1, <3>3, <3>4, <3>7, <3>11, <3>12
  <2> QED
    BY <2>1, <2>2
<1> HIDE DEF r
<1>3. PICK b \in 1 .. i : (\A k \in b .. i : s[k] = r + (k - b)) /\ i + 1 - b <= n
  BY <1>2
<1>4. r \in Nat /\ b \in Int /\ i \in b .. i /\ b >= 1 /\ b <= i
  BY <1>1, <1>2, FreeListAssumption DEF Pages
<1>5. s[i] = r + (i - b)
  BY <1>3, <1>4
<1>6. \A e \in 1 .. i - 1 : NoRun(s, n, e)
  <2>1. i > 1 \/ 1 .. i - 1 = {}
    BY <1>1
  <2> QED
    BY <2>1 DEF ScanAt
<1>7. ASSUME s[i] - r + 1 = n PROVE ScanEnds(s, n, [at |-> i, init |-> r])
  <2>1. n = i - b + 1 /\ n <= i
    BY <1>1, <1>4, <1>5, <1>7
  <2>2. ASSUME NEW k \in 1 .. n PROVE s[i - n + k] = r + k - 1
    <3>1. i - n + k \in b .. i /\ (i - n + k) - b = k - 1
      BY <1>1, <1>4, <2>1
    <3>2. s[i - n + k] = r + ((i - n + k) - b)
      BY <1>3, <3>1
    <3> QED
      BY <1>4, <3>1, <3>2
  <2> DEFINE st == [at |-> i, init |-> r]
  <2>3. st.at = i /\ st.init = r
    OBVIOUS
  <2> HIDE DEF st
  <2>4. ScanEnds(s, n, st)
    BY <1>2, <1>6, <2>1, <2>2, <2>3 DEF ScanEnds
  <2> QED
    BY <2>4 DEF st
<1>8. ASSUME s[i] - r + 1 # n PROVE ScanAt(s, n, i + 1, r)
  <2>1. i + 1 - b < n
    BY <1>1, <1>3, <1>4, <1>5, <1>8
  <2>2. NoRun(s, n, i)
    <3>1. r - 1 \in s[i] - n + 1 .. s[i]
      BY <1>1, <1>4, <1>5, <2>1
    <3> QED
      BY <1>2, <3>1 DEF NoRun
  <2>3. (i + 1) - 1 = i /\ \A e \in 1 .. i : e \in 1 .. i - 1 \/ e = i
    BY <1>1
  <2>4. \A e \in 1 .. i : NoRun(s, n, e)
    BY <1>6, <2>2, <2>3
  <2> QED
    BY <1>2, <1>3, <2>1, <2>3, <2>4 DEF ScanAt
<1> QED
  BY <1>2, <1>7, <1>8 DEF r

\* The scan of allocate ends at the lowest run of n free pages, or finds that
\* there is none.
LEMMA ScanFacts ==
  ASSUME NEW s \in Seq(Pages), Ascending(s), NEW n \in Nat \ {0}
  PROVE  ScanEnds(s, n, Scan(s, n))
<1> DEFINE N == Len(s)
           C == Pages \cup {0}
           D == (1 .. N + 1) \X C
           rank == [p \in D |-> N + 1 - p[1]]
<1>1. N \in Nat
  OBVIOUS
<1>2. PICK f : /\ Scan(s, n) = f[<<1, 0>>]
               /\ \A i \in 1 .. N + 1, c \in C :
                    f[<<i, c>>] =
                      IF i > N THEN [at |-> 0, init |-> 0]
                      ELSE IF s[i] - RunStart(s, i, c) + 1 = n
                           THEN [at |-> i, init |-> RunStart(s, i, c)]
                           ELSE f[<<i + 1, RunStart(s, i, c)>>]
  BY ScanLoop
<1> DEFINE Good(i, c) == ScanAt(s, n, i, c) => ScanEnds(s, n, f[<<i, c>>])
           Q == {p \in D : Good(p[1], p[2])}
<1>3. ASSUME NEW i \in 1 .. N + 1, NEW c \in C,
             i <= N => \A d \in C : Good(i + 1, d)
      PROVE  Good(i, c)
  <2> SUFFICES ASSUME ScanAt(s, n, i, c) PROVE ScanEnds(s, n, f[<<i, c>>])
    OBVIOUS
  <2>1. CASE i > N
    <3>1. f[<<i, c>>] = [at |-> 0, init |-> 0]
      BY <1>2, <2>1
    <3>2. i = N + 1 /\ i - 1 = N /\ (i > 1 \/ 1 .. N = {})
      BY <1>1, <2>1
    <3>3. \A e \in 1 .. N : NoRun(s, n, e)
      BY <3>2 DEF ScanAt
    <3> QED
      BY <3>1, <3>3 DEF ScanEnds
  <2>2. CASE ~(i > N)
    <3>1. i \in 1 .. N /\ i <= N
      BY <1>1, <2>2
    <3> DEFINE r == RunStart(s, i, c)
    <3>2. /\ r \in Pages
          /\ s[i] - r + 1 = n => ScanEnds(s, n, [at |-> i, init |-> r])
          /\ s[i] - r + 1 # n => ScanAt(s, n, i + 1, r)
      BY <3>1, ScanTurn
    <3>3. f[<<i, c>>] = IF s[i] - r + 1 = n THEN [at |-> i, init |-> r] ELSE f[<<i + 1, r>>]
      BY <1>2, <2>2
    <3> HIDE DEF r
    <3> QED
      BY <1>3, <3>1, <3>2, <3>3
  <2> QED
    BY <2>1, <2>2
<1> HIDE DEF Good
<1>4. Progress(D, rank, Q)
  <2>1. rank \in [D -> Nat]
    BY <1>1
  <2>2. ASSUME NEW p \in D, \A q \in D : rank[q] < rank[p] => q \in Q PROVE p \in Q
    <3> DEFINE i == p[1]
               c == p[2]
    <3>1. i \in 1 .. N + 1 /\ c \in C
      OBVIOUS
    <3>2. ASSUME i <= N, NEW d \in C PROVE Good(i + 1, d)
      <4>1. <<i + 1, d>> \in D
        BY <1>1, <3>1, <3>2
      <4>2. rank[p] = N + 1 - i /\ rank[<<i + 1, d>>] = N + 1 - (i + 1)
        BY <4>1
      <4>3. rank[<<i + 1, d>>] < rank[p]
        <5>1. i \in Int /\ N \in Int
          BY <1>1, <3>1
        <5> HIDE DEF rank, i, N
        <5>2. N + 1 - (i + 1) < N + 1 - i
          BY <5>1
        <5> QED
          BY <4>2, <5>2
      <4>4. <<i + 1, d>> \in Q
        <5> HIDE DEF D, Q, rank, i
        <5> QED
          BY <2>2, <4>1, <4>3
      <4> QED
        BY <4>4
    <3>3. Good(i, c)
      BY <1>3, <3>1, <3>2
    <3> QED
      BY <3>3
  <2> HIDE DEF D, Q, rank
  <2> QED
    BY <2>1, <2>2 DEF Progress
<1>5. <<1, 0>> \in Q
  <2>1. <<1, 0>> \in D
    BY <1>1
  <2> HIDE DEF D, Q, rank
  <2> QED
    BY <1>4, <2>1, RankInduction
<1>6. Good(1, 0)
  BY <1>5
<1>7. ScanAt(s, n, 1, 0)
  BY DEF ScanAt
<1> QED
  BY <1>2, <1>6, <1>7 DEF Good

\* Erasing the indices a to b of a sorted vector leaves it sorted and takes out
\* just those ids.
LEMMA EraseFacts ==
  ASSUME NEW P \in SUBSET Nat, NEW s \in Seq(P), Ascending(s),
         NEW a \in 1 .. Len(s), NEW b \in a .. Len(s)
  PROVE  /\ Erase(s, a, b) \in Seq(P) /\ Ascending(Erase(s, a, b))
         /\ Len(Erase(s, a, b)) = Len(s) - (b - a + 1)
         /\ ToSet(Erase(s, a, b)) = ToSet(s) \ {s[k] : k \in a .. b}
<1> DEFINE N == Len(s)
           d == b - a + 1
           x == SubSeq(s, 1, a - 1)
           y == SubSeq(s, b + 1, N)
           u == x \o y
<1>1. /\ N \in Nat /\ a \in Int /\ b \in Int /\ 1 <= a /\ a <= b /\ b <= N
      /\ d \in Int /\ \A k \in 1 .. N : s[k] \in P
  OBVIOUS
<1>2. x \in Seq(P) /\ Len(x) = a - 1 /\ \A k \in 1 .. a - 1 : x[k] = s[k]
  BY <1>1
<1>3. y \in Seq(P) /\ Len(y) = N - b /\ \A k \in 1 .. N - b : y[k] = s[b + k]
  BY <1>1
<1> HIDE DEF x, y
<1>4. /\ u \in Seq(P) /\ Len(u) = Len(x) + Len(y)
      /\ \A k \in 1 .. Len(x) : u[k] = x[k]
      /\ \A k \in 1 .. Len(y) : u[Len(x) + k] = y[k]
  <2>1. x \in Seq(P) /\ y \in Seq(P)
    BY <1>2, <1>3
  <2> QED
    BY <2>1
<1>5. Erase(s, a, b) = u
  BY DEF Erase, x, y
<1> HIDE DEF u
<1> DEFINE old(k) == IF k < a THEN k ELSE k + d
<1>6. Len(u) = N - d
  BY <1>1, <1>2, <1>3, <1>4
<1>7. ASSUME NEW k \in 1 .. N - d PROVE u[k] = s[old(k)] /\ old(k) \in 1 .. N /\ old(k) \notin a .. b
  <2>1. CASE k < a
    <3>1. k \in 1 .. a - 1
      BY <1>1, <2>1
    <3>2. u[k] = s[k]
      BY <1>2, <1>4, <3>1
    <3> QED
      BY <1>1, <2>1, <3>2
  <2>2. CASE ~(k < a)
    <3>1. k - (a - 1) \in 1 .. N - b /\ (a - 1) + (k - (a - 1)) = k /\ b + (k - (a - 1)) = k + d
      BY <1>1, <2>2
    <3>2. u[(a - 1) + (k - (a - 1))] = y[k - (a - 1)]
      BY <1>2, <1>3, <1>4, <3>1
    <3>3. u[k] = s[k + d]
      BY <1>3, <3>1, <3>2
    <3> QED
      BY <1>1, <2>2, <3>3
  <2> QED
    BY <2>1, <2>2
<1>8. ASSUME NEW k \in 1 .. N, k \notin a .. b
      PROVE  \E l \in 1 .. N - d : old(l) = k
  <2>1. CASE k < a
    <3>1. k \in 1 .. N - d /\ old(k) = k
      BY <1>1, <2>1
    <3> QED
      BY <3>1
  <2>2. CASE k > b
    <3> DEFINE l == k - d
    <3>1. l \in 1 .. N - d /\ old(l) = k
      BY <1>1, <2>2
    <3> QED
      BY <3>1
  <2> QED
    BY <1>1, <1>8, <2>1, <2>2
<1>9. \A k, l \in 1 .. N - d : k < l => old(k) < old(l)
  BY <1>1
<1> HIDE DEF old
<1>10. Ascending(u)
  BY <1>6, <1>7, <1>9 DEF Ascending
<1>11. ToSet(u) = ToSet(s) \ {s[k] : k \in a .. b}
  <2>1. ToSet(u) = {u[k] : k \in 1 .. N - d} /\ ToSet(s) = {s[k] : k \in 1 .. N}
    BY <1>4, <1>6, ToSetFacts
  <2>2. \A k, l \in 1 .. N : s[k] = s[l] => k = l
    BY AscendingFacts, ToSetFacts DEF IsInjective
  <2>3. a .. b \subseteq 1 .. N
    BY <1>1
  <2>4. ASSUME NEW k \in 1 .. N - d PROVE u[k] \in ToSet(s) \ {s[l] : l \in a .. b}
    <3>1. u[k] = s[old(k)] /\ old(k) \in 1 .. N /\ old(k) \notin a .. b
      BY <1>7
    <3>2. \A l \in a .. b : s[l] # s[old(k)]
      BY <2>2, <2>3, <3>1
    <3> QED
      BY <2>1, <3>1, <3>2
  <2>5. ASSUME NEW k \in 1 .. N, s[k] \notin {s[l] : l \in a .. b} PROVE s[k] \in ToSet(u)
    <3>1. PICK l \in 1 .. N - d : old(l) = k
      BY <1>8, <2>5
    <3> QED
      BY <1>7, <2>1, <3>1
  <2> QED
    BY <2>1, <2>4, <2>5
<1> QED
  BY <1>4, <1>5, <1>6, <1>10, <1>11

\* allocate hands out the lowest n free pages in a row and takes exactly them
\* out of ids_.
LEMMA AllocateFacts ==
  ASSUME NEW s \in Seq(Pages), Ascending(s), NEW n \in Nat \ {0}
  PROVE  /\ Found(s, n) = FirstRun(ToSet(s), n) /\ Found(s, n) \in Pages \cup {0}
         /\ Rest(s, n) \in Seq(Pages) /\ Ascending(Rest(s, n)) /\ Len(Rest(s, n)) <= Len(s)
         /\ Found(s, n) = 0 => Rest(s, n) = s
         /\ Found(s, n) # 0 => /\ Span(Found(s, n), n) \subseteq ToSet(s)
                               /\ ToSet(Rest(s, n)) = ToSet(s) \ Span(Found(s, n), n)
<1> DEFINE N == Len(s)
           S == ToSet(s)
           st == Scan(s, n)
<1>1. /\ N \in Nat /\ n \in Int /\ n >= 1 /\ \A k \in 1 .. N : s[k] \in Pages /\ s[k] \in Nat
      /\ S = {s[k] : k \in 1 .. N} /\ Pages \in SUBSET Nat /\ 0 \notin Pages
  <2>1. Pages \in SUBSET Nat /\ 0 \notin Pages /\ n \in Int /\ n >= 1
    BY FreeListAssumption DEF Pages
  <2>2. N \in Nat /\ S = {s[k] : k \in 1 .. N} /\ \A k \in 1 .. N : s[k] \in Pages
    BY ToSetFacts
  <2> QED
    BY <2>1, <2>2
<1>2. Found(s, n) = st.init /\ Rest(s, n) = IF st.at = 0 THEN s ELSE Erase(s, st.at - n + 1, st.at)
  BY DEF Found, Rest
<1>3. ScanEnds(s, n, st)
  BY ScanFacts
<1>4. ASSUME NEW x \in RunStarts(S, n)
      PROVE  x \in Nat /\ \E e \in 1 .. N : s[e] = x + n - 1 /\ ~NoRun(s, n, e)
  <2>1. x \in S /\ Span(x, n) \subseteq S
    BY DEF RunStarts
  <2>2. x \in Nat
    BY <1>1, <2>1
  <2>3. x + n - 1 \in Span(x, n)
    BY <1>1, <2>2 DEF Span
  <2>4. PICK e \in 1 .. N : s[e] = x + n - 1
    BY <1>1, <2>1, <2>3
  <2>5. s[e] - n + 1 = x
    BY <1>1, <2>2, <2>4
  <2>6. ~NoRun(s, n, e)
    BY <2>1, <2>4, <2>5 DEF NoRun, Span
  <2> QED
    BY <2>2, <2>4, <2>6
<1> HIDE DEF st, S
<1>5. CASE st = [at |-> 0, init |-> 0] /\ \A e \in 1 .. N : NoRun(s, n, e)
  <2>1. st.at = 0 /\ st.init = 0
    BY <1>5
  <2>2. RunStarts(S, n) = {}
    BY <1>4, <1>5
  <2>3. FirstRun(S, n) = 0
    BY <2>2 DEF FirstRun
  <2> QED
    BY <1>1, <1>2, <2>1, <2>3 DEF S
<1>6. CASE /\ st.at \in 1 .. N /\ n <= st.at /\ st.init \in Pages
           /\ \A k \in 1 .. n : s[st.at - n + k] = st.init + k - 1
           /\ \A e \in 1 .. st.at - 1 : NoRun(s, n, e)
  <2> DEFINE at == st.at
             x == st.init
  <2> HIDE DEF at, x
  <2>1. at \in 1 .. N /\ at \in Int /\ n <= at /\ x \in Pages /\ x \in Nat /\ x # 0
    <3>1. at \in 1 .. N /\ n <= at /\ x \in Pages
      BY <1>6 DEF at, x
    <3> QED
      BY <1>1, <3>1
  <2>2. \A k \in 1 .. n : s[at - n + k] = x + k - 1
    BY <1>6 DEF at, x
  <2>3. \A e \in 1 .. at - 1 : NoRun(s, n, e)
    BY <1>6 DEF at
  <2>4. \A k \in 1 .. n : at - n + k \in at - n + 1 .. at /\ at - n + k \in 1 .. N
    BY <1>1, <2>1
  <2>5. \A k \in at - n + 1 .. at : k - (at - n) \in 1 .. n /\ at - n + (k - (at - n)) = k
    BY <1>1, <2>1
  <2>6. Span(x, n) = {s[k] : k \in at - n + 1 .. at}
    <3>1. ASSUME NEW y \in Span(x, n) PROVE \E k \in at - n + 1 .. at : y = s[k]
      <4> DEFINE k == y - x + 1
      <4>1. k \in 1 .. n /\ x + k - 1 = y
        BY <1>1, <2>1 DEF Span
      <4> HIDE DEF k
      <4>2. s[at - n + k] = y /\ at - n + k \in at - n + 1 .. at
        BY <2>2, <2>4, <4>1
      <4> QED
        BY <4>2
    <3>2. ASSUME NEW k \in at - n + 1 .. at PROVE s[k] \in Span(x, n)
      <4> DEFINE l == k - (at - n)
      <4>1. l \in 1 .. n /\ at - n + l = k
        BY <2>5
      <4> HIDE DEF l
      <4>2. s[k] = x + l - 1
        BY <2>2, <4>1
      <4> QED
        BY <1>1, <2>1, <4>1, <4>2 DEF Span
    <3> QED
      BY <3>1, <3>2
  <2>7. Span(x, n) \subseteq S
    <3>1. at - n + 1 .. at \subseteq 1 .. N
      BY <1>1, <2>1
    <3> QED
      BY <1>1, <2>6, <3>1
  <2>8. s[at] = x + n - 1
    <3>1. n \in 1 .. n /\ at - n + n = at
      BY <1>1, <2>1
    <3>2. s[at - n + n] = x + n - 1
      BY <2>2, <3>1
    <3> QED
      BY <3>1, <3>2
  <2>9. x \in RunStarts(S, n)
    <3>1. x \in Span(x, n)
      BY <1>1, <2>1 DEF Span
    <3> QED
      BY <2>7, <3>1 DEF RunStarts
  <2>10. ASSUME NEW y \in RunStarts(S, n) PROVE x <= y
    <3>1. y \in Nat
      BY <1>4
    <3>2. PICK e \in 1 .. N : s[e] = y + n - 1 /\ ~NoRun(s, n, e)
      BY <1>4
    <3>3. e \notin 1 .. at - 1
      BY <2>3, <3>2
    <3>4. at <= e
      BY <1>1, <2>1, <3>3
    <3>5. s[at] <= s[e]
      BY <1>1, <2>1, <3>4 DEF Ascending
    <3> QED
      BY <1>1, <2>1, <2>8, <3>1, <3>2, <3>5
  <2>11. FirstRun(S, n) = x
    <3> DEFINE R == RunStarts(S, n)
    <3>1. \A y \in R : y \in Nat
      BY <1>4
    <3>2. x \in R /\ \A y \in R : x <= y
      BY <2>9, <2>10
    <3> HIDE DEF R
    <3>3. Min(R) \in R /\ \A y \in R : Min(R) <= y
      BY <3>2 DEF Min
    <3>4. Min(R) = x
      <4> DEFINE z == Min(R)
      <4>1. z \in Nat /\ z <= x /\ x <= z
        BY <3>1, <3>2, <3>3
      <4> HIDE DEF z
      <4>2. z = x
        BY <2>1, <4>1
      <4> QED
        BY <4>2 DEF z
    <3> QED
      BY <3>2, <3>4 DEF FirstRun, R
  <2>12. at - n + 1 \in 1 .. N /\ at \in at - n + 1 .. N /\ at - (at - n + 1) + 1 = n
    BY <1>1, <2>1
  <2>13. /\ Erase(s, at - n + 1, at) \in Seq(Pages) /\ Ascending(Erase(s, at - n + 1, at))
         /\ Len(Erase(s, at - n + 1, at)) = Len(s) - n
         /\ ToSet(Erase(s, at - n + 1, at)) = ToSet(s) \ Span(x, n)
    <3> DEFINE lo == at - n + 1
    <3>1. /\ Erase(s, lo, at) \in Seq(Pages) /\ Ascending(Erase(s, lo, at))
          /\ Len(Erase(s, lo, at)) = Len(s) - (at - lo + 1)
          /\ ToSet(Erase(s, lo, at)) = ToSet(s) \ {s[k] : k \in lo .. at}
      <4>1. lo \in 1 .. Len(s) /\ at \in lo .. Len(s)
        BY <2>12
      <4> HIDE DEF lo
      <4> QED
        BY <1>1, <4>1, EraseFacts
    <3> QED
      BY <2>6, <2>12, <3>1
  <2>14. Found(s, n) = x /\ Rest(s, n) = Erase(s, at - n + 1, at)
    BY <1>2, <2>1 DEF at, x
  <2>15. Len(s) - n <= Len(s)
    BY <1>1
  <2> QED
    BY <2>1, <2>7, <2>11, <2>13, <2>14, <2>15 DEF S
<1> QED
  BY <1>3, <1>5, <1>6 DEF ScanEnds

---------------------------------------------------------------------------
(* The freelist page.                                                      *)

\* The vectors hold no page twice, in all.
AllApart(s, p) == Apart(p, TxIds) /\ ToSet(s) \cap ToSet(Gather(p, TxIds)) = {}

\* copyall gives all free and pending ids in order, as many as count says.
LEMMA CopyFacts ==
  ASSUME NEW s \in Seq(Pages), Ascending(s), NEW p \in [TxIds -> Seq(Pages)], AllApart(s, p)
  PROVE  /\ Copyall(s, p) \in Seq(Pages) /\ Ascending(Copyall(s, p))
         /\ Len(Copyall(s, p)) = Count(s, p) /\ Count(s, p) \in Nat
         /\ ToSet(Copyall(s, p)) = ToSet(s) \cup ToSet(Gather(p, TxIds))
<1> DEFINE a == Gather(p, TxIds)
           b == Sort(a)
<1>1. Pages \in SUBSET Nat /\ Len(s) \in Nat
  BY FreeListAssumption DEF Pages
<1>2. a \in Seq(Pages) /\ IsInjective(a)
  BY GatherFacts DEF AllApart
<1>3. PendingCount(p) \in Nat /\ Len(a) = PendingCount(p)
  BY CountFacts
<1>4. ToSet(a) \cap ToSet(s) = {}
  BY DEF AllApart
<1> HIDE DEF a
<1>5. b \in Seq(Pages) /\ Len(b) = Len(a) /\ Ascending(b) /\ ToSet(b) = ToSet(a)
  BY <1>1, <1>2, SortFacts
<1> HIDE DEF b
<1>6. /\ Merge(b, s) \in Seq(Pages) /\ Ascending(Merge(b, s))
      /\ Len(Merge(b, s)) = Len(b) + Len(s)
      /\ ToSet(Merge(b, s)) = ToSet(b) \cup ToSet(s)
  BY <1>4, <1>5, MergeFacts
<1>7. Count(s, p) = Len(s) + PendingCount(p) /\ Copyall(s, p) = Merge(b, s)
  BY DEF Count, Copyall, a, b
<1>8. Len(b) + Len(s) = Count(s, p) /\ Count(s, p) \in Nat
  BY <1>1, <1>3, <1>5, <1>7
<1> QED
  BY <1>5, <1>6, <1>7, <1>8 DEF a

\* What read finds in the page that write fills.
LEMMA ReadBack ==
  ASSUME NEW s \in Seq(Pages), Ascending(s), NEW p \in [TxIds -> Seq(Pages)], AllApart(s, p)
  PROVE  LET pg == WritePage(s, p)
             all == ReadPage(pg)
         IN  /\ pg.count \in 0 .. CountMax /\ Len(pg.slots) \in Nat
             /\ Len(pg.slots) <= SerialSlots(Count(s, p)) - HeaderSlots
             /\ all \in Seq(Pages) /\ Ascending(all)
             /\ ToSet(all) = ToSet(s) \cup ToSet(Gather(p, TxIds))
<1> DEFINE pg == WritePage(s, p)
           c == Copyall(s, p)
           cnt == Count(s, p)
           index == IF pg.count = CountMax THEN 1 ELSE 0
           count == IF pg.count = CountMax THEN pg.slots[1] ELSE pg.count
           body == SubSeq(pg.slots, index + 1, index + count)
<1>1. /\ c \in Seq(Pages) /\ Ascending(c) /\ Len(c) = cnt /\ cnt \in Nat
      /\ ToSet(c) = ToSet(s) \cup ToSet(Gather(p, TxIds))
  BY CopyFacts
<1>2. CountMax \in Nat /\ CountMax > 0 /\ Pages \in SUBSET Nat
  BY PageAllocAssumption, FreeListAssumption DEF Pages
<1>3. pg = IF cnt = 0 THEN [count |-> 0, slots |-> <<>>]
           ELSE IF cnt < CountMax THEN [count |-> cnt, slots |-> c]
           ELSE [count |-> CountMax, slots |-> <<cnt>> \o c]
  BY DEF WritePage
<1>4. ReadPage(pg) = Sort(body)
  BY DEF ReadPage
<1> HIDE DEF pg, c, cnt
<1>5. /\ body = c /\ pg.count \in 0 .. CountMax /\ Len(pg.slots) \in Nat
      /\ Len(pg.slots) <= SerialSlots(cnt) - HeaderSlots
  <2>1. CASE cnt = 0
    <3>1. pg.count = 0 /\ pg.slots = <<>>
      BY <1>3, <2>1
    <3>2. c = <<>>
      BY <1>1, <2>1
    <3>3. body = SubSeq(<<>>, 1, 0)
      BY <1>2, <3>1
    <3>4. SubSeq(<<>>, 1, 0) = <<>> /\ Len(<<>>) = 0
      OBVIOUS
    <3>5. SerialSlots(cnt) - HeaderSlots >= 0
      BY <1>2, <2>1 DEF SerialSlots, HeaderSlots
    <3> QED
      BY <1>2, <3>1, <3>2, <3>3, <3>4, <3>5
  <2>2. CASE cnt # 0 /\ cnt < CountMax
    <3>1. pg.count = cnt /\ pg.slots = c
      BY <1>3, <2>2
    <3>2. body = SubSeq(c, 1, cnt)
      BY <1>1, <1>2, <2>2, <3>1
    <3>3. SubSeq(c, 1, cnt) = c
      BY <1>1
    <3>4. SerialSlots(cnt) - HeaderSlots >= cnt
      BY <1>1, <1>2, <2>2 DEF SerialSlots, HeaderSlots
    <3>5. Len(pg.slots) = cnt /\ pg.count \in 0 .. CountMax
      BY <1>1, <1>2, <2>2, <3>1
    <3> QED
      BY <1>1, <3>2, <3>3, <3>4, <3>5
  <2>3. CASE cnt # 0 /\ ~(cnt < CountMax)
    <3> DEFINE t == <<cnt>>
    <3>1. t \in Seq(Nat) /\ Len(t) = 1 /\ t[1] = cnt
      BY <1>1
    <3>2. pg.count = CountMax /\ pg.slots = t \o c
      BY <1>3, <2>3
    <3> HIDE DEF t
    <3>3. c \in Seq(Nat)
      BY <1>1, <1>2, WidenSeq
    <3>4. /\ t \o c \in Seq(Nat) /\ Len(t \o c) = 1 + cnt /\ (t \o c)[1] = cnt
          /\ \A k \in 1 .. cnt : (t \o c)[1 + k] = c[k]
      <4>1. /\ t \o c \in Seq(Nat) /\ Len(t \o c) = Len(t) + Len(c)
            /\ \A k \in 1 .. Len(t) : (t \o c)[k] = t[k]
            /\ \A k \in 1 .. Len(c) : (t \o c)[Len(t) + k] = c[k]
        <5>1. t \in Seq(Nat) /\ c \in Seq(Nat)
          BY <3>1, <3>3
        <5> QED
          BY ONLY <5>1, ConcatIndices
      <4> QED
        BY <1>1, <3>1, <4>1
    <3> DEFINE u == t \o c
    <3> HIDE DEF u
    <3>5. u \in Seq(Nat) /\ Len(u) = 1 + cnt /\ u[1] = cnt /\ \A k \in 1 .. cnt : u[1 + k] = c[k]
      BY <3>4 DEF u
    <3>6. body = SubSeq(u, 2, 1 + cnt)
      BY <1>1, <3>2, <3>5 DEF u
    <3>7. SubSeq(u, 2, 1 + cnt) = c
      <4>1. /\ SubSeq(u, 2, 1 + cnt) \in Seq(Nat) /\ Len(SubSeq(u, 2, 1 + cnt)) = cnt
            /\ \A k \in 1 .. cnt : SubSeq(u, 2, 1 + cnt)[k] = u[1 + k]
        BY <1>1, <3>5
      <4> QED
        BY <1>1, <3>3, <3>5, <4>1
    <3>8. SerialSlots(cnt) - HeaderSlots >= 1 + cnt
      BY <1>1, <1>2, <2>3 DEF SerialSlots, HeaderSlots
    <3>9. pg.count \in 0 .. CountMax
      BY <1>2, <3>2
    <3>10. Len(pg.slots) = 1 + cnt /\ Len(pg.slots) \in Nat
      BY <1>1, <3>2, <3>5 DEF u
    <3> QED
      BY <3>6, <3>7, <3>8, <3>9, <3>10
  <2> QED
    BY <2>1, <2>2, <2>3
<1> HIDE DEF body
<1>6. IsInjective(c)
  BY <1>1, <1>2, AscendingFacts
<1>7. Sort(c) \in Seq(Pages) /\ Ascending(Sort(c)) /\ ToSet(Sort(c)) = ToSet(c)
  BY <1>1, <1>2, <1>6, SortFacts
<1> QED
  BY <1>1, <1>4, <1>5, <1>7 DEF pg, cnt

\* A freelist fits in the pages commit allocates for it, and for any longer
\* one.
LEMMA SerialFits ==
  ASSUME NEW c \in Nat, NEW d \in Nat, c <= d
  PROVE  /\ SerialPages(d) \in Nat \ {0}
         /\ SerialSlots(c) - HeaderSlots <= SerialPages(d) * PageSlots - HeaderSlots
<1> DEFINE a == SerialSlots(c)
           b == SerialSlots(d)
           q == b \div PageSlots
<1>1. PageSlots \in Nat /\ PageSlots > 2 /\ CountMax \in Nat
  BY PageAllocAssumption
<1>2. a \in Nat /\ b \in Nat /\ a <= b
  BY <1>1 DEF SerialSlots, HeaderSlots
<1>3. q \in Nat /\ b < (q + 1) * PageSlots
  <2> HIDE DEF b
  <2>1. q \in Nat
    BY <1>1, <1>2
  <2> QED
    BY <1>1, <1>2, <2>1
<1>4. SerialPages(d) = q + 1
  BY DEF SerialPages
<1> HIDE DEF a, b, q
<1>5. (q + 1) * PageSlots \in Int /\ HeaderSlots \in Int
  BY <1>1, <1>3 DEF HeaderSlots
<1>6. a - HeaderSlots <= (q + 1) * PageSlots - HeaderSlots
  <2> DEFINE z == (q + 1) * PageSlots
  <2> HIDE DEF z
  <2>1. z \in Int /\ b < z
    BY <1>3, <1>5 DEF z
  <2>2. a - HeaderSlots <= z - HeaderSlots
    BY <1>2, <1>5, <2>1
  <2> QED
    BY <2>2 DEF z
<1> QED
  BY <1>3, <1>4, <1>6 DEF a

---------------------------------------------------------------------------
(* Runs of pages.                                                          *)

\* The pages of the vectors of pending_.
Pend(p) == UNION {ToSet(p[k]) : k \in TxIds}

\* The ids gathered from all of pending_ are the pending pages.
LEMMA PendFacts ==
  ASSUME NEW p \in [TxIds -> Seq(Pages)]
  PROVE  /\ ToSet(Gather(p, TxIds)) = Pend(p) /\ Pend(p) \subseteq Pages
         /\ \A k \in TxIds : ToSet(p[k]) \subseteq Pend(p)
<1>1. ToSet(Gather(p, TxIds)) = Pend(p)
  BY GatherFacts DEF Pend
<1>2. \A k \in TxIds : ToSet(p[k]) \subseteq Pages
  BY ToSetFacts
<1> QED
  BY <1>1, <1>2 DEF Pend

\* An empty pending_ holds no page.
LEMMA NoPendingFacts == NoPending \in [TxIds -> Seq(Pages)] /\ Pend(NoPending) = {}
<1>1. \A k \in TxIds : NoPending[k] = <<>>
  BY DEF NoPending
<1>2. ToSet(<<>>) = {}
  BY DEF ToSet
<1> QED
  BY <1>1, <1>2 DEF NoPending, Pend

\* A run lies between the metas and the end of the file.
LEMMA RunFacts ==
  ASSUME NEW R, NEW end \in Nat, RunsApart(R, end), NEW r \in R
  PROVE  /\ r.first \in Nat /\ r.n \in Nat \ {0} /\ r.first >= 2 /\ r.first + r.n <= end
         /\ r.first \in Span(r.first, r.n)
         /\ Span(r.first, r.n) \subseteq PagesOf(R) /\ Span(r.first, r.n) \subseteq 2 .. end - 1
<1>1. r.first \in 2 .. end /\ r.n \in Nat \ {0} /\ r.first + r.n <= end
  BY DEF RunsApart
<1>2. r.first \in Span(r.first, r.n) /\ Span(r.first, r.n) \subseteq 2 .. end - 1
  BY <1>1 DEF Span
<1>3. Span(r.first, r.n) \subseteq PagesOf(R)
  BY DEF PagesOf
<1> QED
  BY <1>1, <1>2, <1>3

\* So do all the pages of a set of runs.
LEMMA RunsBelow ==
  ASSUME NEW R, NEW end \in Nat, RunsApart(R, end)
  PROVE  PagesOf(R) \subseteq 2 .. end - 1
<1>1. \A r \in R : Span(r.first, r.n) \subseteq 2 .. end - 1
  BY RunFacts
<1> QED
  BY <1>1 DEF PagesOf

\* A run taken out of a set of runs takes just its own pages along.
LEMMA RunsRemove ==
  ASSUME NEW R, NEW end \in Nat, RunsApart(R, end), NEW r \in R
  PROVE  /\ RunsApart(R \ {r}, end)
         /\ PagesOf(R \ {r}) = PagesOf(R) \ Span(r.first, r.n)
<1>1. \A q \in R \ {r} : Span(q.first, q.n) \cap Span(r.first, r.n) = {}
  BY DEF RunsApart
<1>2. RunsApart(R \ {r}, end)
  BY DEF RunsApart
<1> QED
  BY <1>1, <1>2 DEF PagesOf

\* A run on other pages can be added to a set of runs.
LEMMA RunsAdd ==
  ASSUME NEW R, NEW end \in Nat, RunsApart(R, end), NEW q, NEW to \in Nat, end <= to,
         q.first \in Nat, q.first >= 2, q.n \in Nat \ {0}, q.first + q.n <= to,
         Span(q.first, q.n) \cap PagesOf(R) = {}
  PROVE  /\ q \notin R /\ RunsApart(R \cup {q}, to)
         /\ PagesOf(R \cup {q}) = PagesOf(R) \cup Span(q.first, q.n)
<1>1. \A r \in R : r.first \in 2 .. to /\ r.n \in Nat \ {0} /\ r.first + r.n <= to
  <2> SUFFICES ASSUME NEW r \in R
               PROVE  r.first \in 2 .. to /\ r.n \in Nat \ {0} /\ r.first + r.n <= to
    OBVIOUS
  <2>1. r.first \in Nat /\ r.first >= 2 /\ r.n \in Nat \ {0} /\ r.first + r.n <= end
    BY RunFacts
  <2> QED
    BY <2>1
<1>2. q.first \in 2 .. to /\ q.first \in Span(q.first, q.n)
  BY DEF Span
<1>3. q \notin R
  BY <1>2 DEF PagesOf
<1>4. \A r \in R : Span(r.first, r.n) \cap Span(q.first, q.n) = {}
  BY DEF PagesOf
<1>5. RunsApart(R \cup {q}, to)
  BY <1>1, <1>2, <1>4 DEF RunsApart
<1>6. PagesOf(R \cup {q}) = PagesOf(R) \cup Span(q.first, q.n)
  BY DEF PagesOf
<1> QED
  BY <1>3, <1>5, <1>6

\* The ids free pushes for a run.
RunIds(r) == [i \in 1 .. r.n |-> r.first + i - 1]

\* The ids free pushes are the pages of the run, each once.
LEMMA RunIdsFacts ==
  ASSUME NEW r, r.first \in Nat, r.first >= 2, r.n \in Nat \ {0}, r.first + r.n <= MaxPage
  PROVE  /\ RunIds(r) \in Seq(Pages) /\ ToSet(RunIds(r)) = Span(r.first, r.n)
         /\ IsInjective(RunIds(r))
<1> DEFINE v == RunIds(r)
           f == r.first
           n == r.n
<1>1. f \in Nat /\ f >= 2 /\ n \in Nat \ {0} /\ f + n <= MaxPage /\ MaxPage \in Nat
  BY FreeListAssumption
<1>2. v = [i \in 1 .. n |-> f + i - 1]
  BY DEF RunIds
<1> HIDE DEF f, n, v
<1>3. \A i \in 1 .. n : f + i - 1 \in Pages
  BY <1>1 DEF Pages
<1>4. v \in [1 .. n -> Pages] /\ \A i \in 1 .. n : v[i] = f + i - 1
  BY <1>2, <1>3
<1>5. v \in Seq(Pages) /\ Len(v) = n /\ DOMAIN v = 1 .. n
  BY <1>1, <1>4
<1>6. ToSet(v) = Span(f, n)
  <2>1. ToSet(v) = {v[i] : i \in 1 .. n}
    BY <1>5, ToSetFacts
  <2>2. \A i \in 1 .. n : v[i] \in Span(f, n)
    BY <1>1, <1>4 DEF Span
  <2>3. ASSUME NEW y \in Span(f, n) PROVE \E i \in 1 .. n : v[i] = y
    <3>1. y - f + 1 \in 1 .. n /\ f + (y - f + 1) - 1 = y
      BY <1>1 DEF Span
    <3> QED
      BY <1>4, <3>1
  <2> QED
    BY <2>1, <2>2, <2>3
<1>7. IsInjective(v)
  BY <1>1, <1>4, <1>5 DEF IsInjective
<1> QED
  BY <1>5, <1>6, <1>7 DEF v, f, n

\* Where a request for n pages is placed: in free pages, which leave ids_ and
\* cache_, or at the end of the file.
LEMMA PlacedFacts ==
  ASSUME ids \in Seq(Pages), Ascending(ids), total \in 4 .. MaxPage,
         ToSet(ids) \subseteq 2 .. total - 1, cache \subseteq 2 .. total - 1,
         NEW n \in Nat \ {0}
  PROVE  LET q == Placed(n)
             S == Span(q.first, q.n)
         IN  /\ q.n = n /\ q.first \in Nat /\ q.first >= 2
             /\ TotalAfter(n) \in Nat /\ total <= TotalAfter(n)
             /\ q.first + q.n <= TotalAfter(n)
             /\ S \cap (2 .. total - 1) \subseteq ToSet(ids)
             /\ (2 .. total - 1) \cup S = 2 .. TotalAfter(n) - 1
             /\ Rest(ids, n) \in Seq(Pages) /\ Ascending(Rest(ids, n))
             /\ Len(Rest(ids, n)) <= Len(ids)
             /\ ToSet(Rest(ids, n)) = ToSet(ids) \ S
             /\ CacheAfter(cache, ids, n) = cache \ S
<1> DEFINE q == Placed(n)
           S == Span(q.first, q.n)
           x == Found(ids, n)
<1>1. /\ x \in Pages \cup {0}
      /\ Rest(ids, n) \in Seq(Pages) /\ Ascending(Rest(ids, n)) /\ Len(Rest(ids, n)) <= Len(ids)
      /\ x = 0 => Rest(ids, n) = ids
      /\ x # 0 => Span(x, n) \subseteq ToSet(ids) /\ ToSet(Rest(ids, n)) = ToSet(ids) \ Span(x, n)
  BY AllocateFacts
<1>2. /\ q.n = n /\ q.first = IF x = 0 THEN total ELSE x
      /\ TotalAfter(n) = IF x = 0 THEN total + n ELSE total
      /\ CacheAfter(cache, ids, n) = IF x = 0 THEN cache ELSE cache \ Span(x, n)
  BY DEF Placed, TotalAfter, CacheAfter
<1>3. total \in Nat /\ total >= 4 /\ n \in Nat /\ n >= 1
  BY FreeListAssumption
<1> HIDE DEF x, q
<1>4. CASE x = 0
  <2>1. S = total .. total + n - 1
    BY <1>2, <1>4 DEF Span
  <2>2. S \cap (2 .. total - 1) = {} /\ (2 .. total - 1) \cup S = 2 .. total + n - 1
    BY <1>3, <2>1
  <2>3. ToSet(ids) \ S = ToSet(ids) /\ cache \ S = cache
    BY <2>2
  <2> HIDE DEF S
  <2>4. total <= total + n /\ total + n \in Nat
    BY <1>3
  <2> QED
    BY <1>1, <1>2, <1>3, <1>4, <2>2, <2>3, <2>4 DEF q, S
<1>5. CASE x # 0
  <2>1. S = Span(x, n)
    BY <1>2, <1>5
  <2>2. x \in Nat /\ x >= 2
    BY <1>1, <1>5, FreeListAssumption DEF Pages
  <2>3. x + n - 1 \in Span(x, n)
    BY <1>3, <2>2 DEF Span
  <2>4. Span(x, n) \subseteq 2 .. total - 1
    BY <1>1, <1>5
  <2>5. x + n <= total
    <3>1. x + n - 1 \in 2 .. total - 1
      BY <2>3, <2>4
    <3> QED
      BY <1>3, <2>2, <3>1
  <2>6. (2 .. total - 1) \cup S = 2 .. total - 1
    BY <2>1, <2>4
  <2> HIDE DEF S
  <2> QED
    BY <1>1, <1>2, <1>3, <1>5, <2>1, <2>2, <2>5, <2>6 DEF q, S
<1> QED
  BY <1>4, <1>5

---------------------------------------------------------------------------
(* The inductive invariant.                                                *)

IInv == TypeOK /\ ListInv /\ InUseNotFree /\ PageHoldsAll

\* VectorsApart, with what is pending as one set.
Vectors(s, p, t) ==
  /\ Ascending(s) /\ Apart(p, TxIds) /\ ToSet(s) \cap Pend(p) = {}
  /\ \A k \in TxIds : k > t => p[k] = <<>>

\* Vectors is VectorsApart, for any values of the variables.
LEMMA VectorsAre ==
  ASSUME NEW s, NEW p, NEW t
  PROVE  Vectors(s, p, t) <=>
           /\ Ascending(s)
           /\ \A k \in TxIds : IsInjective(p[k]) /\ ToSet(p[k]) \cap ToSet(s) = {}
           /\ \A k, l \in TxIds : k # l => ToSet(p[k]) \cap ToSet(p[l]) = {}
           /\ \A k \in TxIds : k > t => p[k] = <<>>
<1>1. ToSet(s) \cap Pend(p) = {} <=> \A k \in TxIds : ToSet(p[k]) \cap ToSet(s) = {}
  BY DEF Pend
<1>2. TxIds \cap TxIds = TxIds
  OBVIOUS
<1> QED
  BY <1>1, <1>2 DEF Vectors, Apart

\* The invariant as facts about sets.
LEMMA StateFacts ==
  ASSUME IInv
  PROVE  /\ ids \in Seq(Pages) /\ pending \in [TxIds -> Seq(Pages)]
         /\ Vectors(ids, pending, tid) /\ AllApart(ids, pending)
         /\ FreePages = ToSet(ids) \cup Pend(pending)
         /\ InUse = PagesOf(used \cup {fl}) /\ RunsApart(used \cup {fl}, total)
         /\ InUse \subseteq 2 .. total - 1 /\ ToSet(ids) \subseteq 2 .. total - 1
         /\ Pend(pending) \subseteq 2 .. total - 1 /\ cache \subseteq 2 .. total - 1
         /\ cache \subseteq FreePages /\ InUse \cap FreePages = {}
         /\ InUse \cup FreePages = 2 .. total - 1
         /\ total \in 4 .. MaxPage /\ total \in Nat /\ tid \in TxIds /\ tid \in Nat
         /\ active \in BOOLEAN
<1>1. /\ ids \in Seq(Pages) /\ pending \in [TxIds -> Seq(Pages)] /\ total \in 4 .. MaxPage
      /\ tid \in TxIds /\ active \in BOOLEAN
  BY DEF IInv, TypeOK
<1>2. Vectors(ids, pending, tid)
  BY VectorsAre DEF IInv, ListInv, VectorsApart
<1>3. ToSet(Gather(pending, TxIds)) = Pend(pending)
  BY <1>1, PendFacts
<1>4. AllApart(ids, pending)
  BY <1>2, <1>3 DEF AllApart, Vectors
<1>5. FreePages = ToSet(ids) \cup Pend(pending)
  BY <1>3 DEF FreePages
<1>6. /\ RunsApart(used \cup {fl}, total) /\ cache \subseteq FreePages
      /\ InUse \cap FreePages = {} /\ InUse \cup FreePages = 2 .. total - 1
  BY DEF IInv, ListInv, InUseNotFree
<1>7. total \in Nat /\ tid \in Nat
  BY <1>1, FreeListAssumption DEF TxIds
<1> QED
  BY <1>1, <1>2, <1>4, <1>5, <1>6, <1>7 DEF InUse

\* And back.
LEMMA InvFromFacts ==
  ASSUME ids' \in Seq(Pages), pending' \in [TxIds -> Seq(Pages)],
         Vectors(ids', pending', tid'),
         fl' \notin used', RunsApart(used' \cup {fl'}, total'),
         \A r \in used' \cup base'.used \cup {fl'} : r.n \in Sizes,
         cache' \subseteq ToSet(ids') \cup Pend(pending'),
         PagesOf(used' \cup {fl'}) \cap (ToSet(ids') \cup Pend(pending')) = {},
         PagesOf(used' \cup {fl'}) \cup (ToSet(ids') \cup Pend(pending')) = 2 .. total' - 1,
         CommitKept', tid' > IF active' THEN 1 ELSE 0,
         page'.count \in 0 .. CountMax, got' \in Pages \cup {0}, tid' \in TxIds,
         active' \in BOOLEAN, total' \in 4 .. MaxPage,
         Len(page'.slots) <= base'.fl.n * PageSlots - HeaderSlots,
         Ascending(ReadPage(page')),
         ~active' => ToSet(ids') \cup Pend(pending') = Saved'
  PROVE  IInv'
<1>1. ToSet(Gather(pending', TxIds)) = Pend(pending') /\ Pend(pending') \subseteq Pages
  BY PendFacts
<1>2. ToSet(ids') \subseteq Pages
  BY ToSetFacts
<1>3. FreePages' = ToSet(ids') \cup Pend(pending') /\ InUse' = PagesOf(used' \cup {fl'})
  BY <1>1 DEF FreePages, InUse
<1>4. TypeOK'
  BY <1>1, <1>2 DEF TypeOK
<1>5. VectorsApart'
  BY VectorsAre DEF VectorsApart
<1>6. ListInv'
  BY <1>3, <1>5 DEF ListInv
<1>7. InUseNotFree'
  <2>1. InUse' \cap cache' = {}
    BY <1>3
  <2> QED
    BY <1>3, <2>1 DEF InUseNotFree
<1>8. PageHoldsAll'
  BY <1>3 DEF PageHoldsAll
<1> QED
  BY <1>4, <1>6, <1>7, <1>8 DEF IInv

\* Only a commit changes what rollback and open go back to.
LEMMA KeptSame ==
  ASSUME CommitKept, UNCHANGED <<page, fl, base>>,
         \A k \in TxIds : (active' => k # tid') => ToSet(pending'[k]) \subseteq Saved,
         ~active' => used' = base.used /\ total' = base.total
  PROVE  CommitKept'
<1>1. page' = page /\ fl' = fl /\ base' = base /\ Saved' = Saved
  BY DEF Saved
<1> QED
  BY <1>1 DEF CommitKept

\* The invariant holds of the freelist Init writes.
LEMMA InitInv == Init => IInv
<1> SUFFICES ASSUME Init PROVE IInv
  OBVIOUS
<1> DEFINE r == [first |-> 3, n |-> 1]
           f == [first |-> 2, n |-> 1]
<1>1. /\ ids = <<>> /\ pending = NoPending /\ cache = {} /\ got = 0 /\ tid = 1 /\ active = FALSE
      /\ page.count = 0 /\ page.slots = <<>> /\ total = 4 /\ fl = f /\ used = {r}
      /\ base.used = used /\ base.fl = fl /\ base.total = total
  BY DEF Init
<1>2. r.first = 3 /\ r.n = 1 /\ f.first = 2 /\ f.n = 1
  OBVIOUS
<1> HIDE DEF r, f
<1>3. r # f
  BY <1>2
<1>4. Span(3, 1) = {3} /\ Span(2, 1) = {2}
  BY DEF Span
<1>5. PagesOf(used \cup {fl}) = {2, 3}
  BY <1>1, <1>2, <1>4 DEF PagesOf
<1>6. RunsApart(used \cup {fl}, total)
  <2>1. used \cup {fl} = {r, f}
    BY <1>1
  <2>2. \A q \in {r, f} : q.first \in 2 .. 4 /\ q.n \in Nat \ {0} /\ q.first + q.n <= 4
    BY <1>2
  <2>3. \A q, s \in {r, f} : q # s => Span(q.first, q.n) \cap Span(s.first, s.n) = {}
    BY <1>2, <1>4
  <2> QED
    BY <1>1, <2>1, <2>2, <2>3 DEF RunsApart
<1>7. <<>> \in Seq(Pages) /\ Len(<<>>) = 0 /\ ToSet(<<>>) = {} /\ IsInjective(<<>>) /\ Ascending(<<>>)
  BY DEF ToSet, IsInjective, Ascending
<1>8. pending \in [TxIds -> Seq(Pages)] /\ Pend(pending) = {} /\ \A k \in TxIds : pending[k] = <<>>
  BY <1>1, NoPendingFacts DEF NoPending
<1>9. /\ CountMax \in Nat /\ CountMax > 0 /\ PageSlots \in Nat /\ PageSlots > 2
      /\ MaxPage \in Nat /\ MaxPage >= 4 /\ MaxTx \in Nat \ {0} /\ Pages \in SUBSET Nat
  BY PageAllocAssumption, FreeListAssumption DEF Pages
<1>10. ReadPage(page) \in Seq(Pages) /\ Ascending(ReadPage(page)) /\ ToSet(ReadPage(page)) = {}
  <2>1. ReadPage(page) = Sort(SubSeq(<<>>, 1, 0))
    BY <1>1, <1>9 DEF ReadPage
  <2>2. SubSeq(<<>>, 1, 0) = <<>>
    OBVIOUS
  <2>3. Sort(<<>>) \in Seq(Pages) /\ Ascending(Sort(<<>>)) /\ ToSet(Sort(<<>>)) = ToSet(<<>>)
    <3> DEFINE e == <<>>
    <3>1. e \in Seq(Pages) /\ IsInjective(e)
      BY <1>7
    <3> HIDE DEF e
    <3>2. Sort(e) \in Seq(Pages) /\ Ascending(Sort(e)) /\ ToSet(Sort(e)) = ToSet(e)
      BY <1>9, <3>1, SortFacts
    <3> QED
      BY <3>2 DEF e
  <2> QED
    BY <1>7, <2>1, <2>2, <2>3
<1>11. FreePages = {} /\ InUse = {2, 3}
  <2>1. ToSet(Gather(pending, TxIds)) = {}
    BY <1>8, PendFacts
  <2> QED
    BY <1>1, <1>5, <1>7, <2>1 DEF FreePages, InUse
<1>12. 2 .. total - 1 = {2, 3}
  BY <1>1
<1>13. TypeOK
  <2>1. 1 \in TxIds /\ 4 \in 4 .. MaxPage /\ 0 \in 0 .. CountMax
    BY <1>9 DEF TxIds
  <2> QED
    BY <1>1, <1>7, <1>8, <2>1 DEF TypeOK
<1>14. VectorsApart
  BY <1>1, <1>7, <1>8 DEF VectorsApart
<1>15. CommitKept
  <2>1. fl \notin base.used /\ base.total \in 4 .. MaxPage
    BY <1>1, <1>3, <1>9
  <2> QED
    BY <1>1, <1>5, <1>6, <1>7, <1>8, <1>10, <1>12, <2>1 DEF CommitKept, Saved
<1>16. \A q \in used \cup base.used \cup {fl} : q.n \in Sizes
  <2>1. 1 \in Sizes
    <3>1. SerialPages(MaxPage) \in Nat \ {0}
      BY <1>9, SerialFits
    <3> QED
      BY <3>1 DEF Sizes
  <2> QED
    BY <1>1, <1>2, <2>1
<1>17. ListInv
  BY <1>1, <1>3, <1>6, <1>14, <1>15, <1>16 DEF ListInv
<1>18. InUseNotFree
  BY <1>1, <1>11, <1>12 DEF InUseNotFree
<1>19. PageHoldsAll
  <2>1. Len(page.slots) <= base.fl.n * PageSlots - HeaderSlots
    BY <1>1, <1>2, <1>7, <1>9 DEF HeaderSlots
  <2> QED
    BY <1>10, <1>11, <2>1 DEF PageHoldsAll, Saved
<1> QED
  BY <1>13, <1>17, <1>18, <1>19 DEF IInv

\* What an action that leaves the page alone leaves of the invariant.
LEMMA PageSame ==
  ASSUME IInv, UNCHANGED <<page, base>>
  PROVE  /\ page'.count \in 0 .. CountMax
         /\ Len(page'.slots) <= base'.fl.n * PageSlots - HeaderSlots
         /\ Ascending(ReadPage(page')) /\ Saved' = Saved /\ base' = base
  BY DEF IInv, TypeOK, PageHoldsAll, Saved

\* What release leaves in ids_.
LEMMA ReleaseFacts ==
  ASSUME IInv, NEW t \in 0 .. tid
  PROVE  LET S == 0 .. t
             m == Merge(Sort(Gather(pending, S)), ids)
         IN  /\ m \in Seq(Pages) /\ Ascending(m)
             /\ ToSet(m) = (UNION {ToSet(pending[k]) : k \in TxIds \cap S}) \cup ToSet(ids)
<1> DEFINE S == 0 .. t
           G == Gather(pending, S)
           out == UNION {ToSet(pending[k]) : k \in TxIds \cap S}
<1>1. /\ ids \in Seq(Pages) /\ pending \in [TxIds -> Seq(Pages)]
      /\ Vectors(ids, pending, tid)
  BY StateFacts
<1>2. Pages \in SUBSET Nat
  BY FreeListAssumption DEF Pages
<1>3. Apart(pending, S)
  BY <1>1 DEF Vectors, Apart
<1>4. G \in Seq(Pages) /\ ToSet(G) = out /\ IsInjective(G)
  BY <1>1, <1>3, GatherFacts
<1> HIDE DEF G
<1>5. Sort(G) \in Seq(Pages) /\ Ascending(Sort(G)) /\ ToSet(Sort(G)) = out
  BY <1>2, <1>4, SortFacts
<1>6. out \subseteq Pend(pending)
  BY DEF Pend
<1>7. ToSet(Sort(G)) \cap ToSet(ids) = {}
  BY <1>1, <1>5, <1>6 DEF Vectors
<1> DEFINE a == Sort(G)
<1> HIDE DEF a, out
<1>8. a \in Seq(Pages) /\ Ascending(a) /\ ToSet(a) \cap ToSet(ids) = {} /\ ToSet(a) = out
  BY <1>5, <1>7 DEF a
<1>9. Ascending(ids)
  BY <1>1 DEF Vectors
<1>10. /\ Merge(a, ids) \in Seq(Pages) /\ Ascending(Merge(a, ids))
       /\ ToSet(Merge(a, ids)) = ToSet(a) \cup ToSet(ids)
  BY <1>1, <1>8, <1>9, MergeFacts
<1> QED
  BY <1>8, <1>10 DEF a, G, out

\* freeList::release keeps the invariant.
LEMMA ReleaseStep ==
  ASSUME IInv, NEW t \in 0 .. tid, Release(t)
  PROVE  IInv'
<1> DEFINE S == 0 .. t
           out == UNION {ToSet(pending[k]) : k \in TxIds \cap S}
<1>0. /\ ids \in Seq(Pages) /\ pending \in [TxIds -> Seq(Pages)]
      /\ Vectors(ids, pending, tid)
      /\ FreePages = ToSet(ids) \cup Pend(pending)
      /\ InUse = PagesOf(used \cup {fl}) /\ RunsApart(used \cup {fl}, total)
      /\ cache \subseteq FreePages /\ InUse \cap FreePages = {}
      /\ InUse \cup FreePages = 2 .. total - 1 /\ tid \in Nat
  BY StateFacts
<1>1. /\ ~active /\ tid < MaxTx
      /\ ids' = Merge(Sort(Gather(pending, S)), ids)
      /\ pending' = [k \in TxIds |-> IF k <= t THEN <<>> ELSE pending[k]]
      /\ tid' = tid + 1 /\ active' = TRUE
      /\ UNCHANGED <<cache, page, got, used, fl, total, base>>
  BY DEF Release
<1>2. TxIds \subseteq Nat /\ <<>> \in Seq(Pages) /\ ToSet(<<>>) = {} /\ IsInjective(<<>>)
  BY FreeListAssumption DEF TxIds, ToSet, IsInjective
<1>8. ids' \in Seq(Pages) /\ Ascending(ids') /\ ToSet(ids') = out \cup ToSet(ids)
  BY <1>1, ReleaseFacts
<1> HIDE DEF out
<1>9. /\ pending' \in [TxIds -> Seq(Pages)]
      /\ \A k \in TxIds : pending'[k] = IF k <= t THEN <<>> ELSE pending[k]
  BY <1>0, <1>1, <1>2
<1>10. \A k \in TxIds : k <= t <=> k \in S
  BY <1>2
<1>11. out \cup Pend(pending') = Pend(pending) /\ out \cap Pend(pending') = {}
  <2>1. Pend(pending') = UNION {ToSet(pending[k]) : k \in TxIds \ S}
    <3>1. \A k \in TxIds : ToSet(pending'[k]) = IF k \in S THEN {} ELSE ToSet(pending[k])
      BY <1>2, <1>9, <1>10
    <3> HIDE DEF S
    <3> QED
      BY <3>1 DEF Pend
  <2>2. \A k \in TxIds \cap S, l \in TxIds \ S : ToSet(pending[k]) \cap ToSet(pending[l]) = {}
    BY <1>0 DEF Vectors, Apart
  <2> HIDE DEF S
  <2>3. out \cap Pend(pending') = {}
    BY <2>1, <2>2 DEF out
  <2>4. out \cup Pend(pending') = Pend(pending)
    BY <2>1 DEF out, Pend
  <2> QED
    BY <2>3, <2>4
<1>12. ToSet(ids') \cup Pend(pending') = FreePages
  BY <1>0, <1>8, <1>11
<1>13. Vectors(ids', pending', tid')
  <2>1. Apart(pending', TxIds)
    <3>1. \A k \in TxIds : IsInjective(pending'[k]) /\ ToSet(pending'[k]) \subseteq ToSet(pending[k])
      BY <1>0, <1>2, <1>9 DEF Vectors, Apart
    <3> QED
      BY <1>0, <3>1 DEF Vectors, Apart
  <2>2. ToSet(ids') \cap Pend(pending') = {}
    BY <1>0, <1>8, <1>11 DEF Vectors
  <2>3. \A k \in TxIds : k > tid' => pending'[k] = <<>>
    <3>1. \A k \in TxIds : k > tid' => k > tid
      BY <1>0, <1>1, <1>2
    <3> QED
      BY <1>0, <1>9, <3>1 DEF Vectors
  <2> QED
    BY <1>8, <2>1, <2>2, <2>3 DEF Vectors
<1>14. CommitKept'
  <2>1. CommitKept
    BY DEF IInv, ListInv
  <2>2. \A k \in TxIds : ToSet(pending'[k]) \subseteq Saved
    BY <1>1, <1>2, <1>9, <2>1 DEF CommitKept
  <2> QED
    BY <1>1, <2>1, <2>2, KeptSame
<1>15. /\ fl' = fl /\ used' = used /\ total' = total /\ base' = base /\ cache' = cache
       /\ got' = got /\ page' = page /\ active'
  BY <1>1
<1>16. fl \notin used /\ \A r \in used \cup base.used \cup {fl} : r.n \in Sizes
  BY DEF IInv, ListInv
<1>17. tid' \in TxIds /\ tid' > 1
  <2>1. tid > 0
    BY <1>1 DEF IInv, ListInv
  <2> QED
    BY <1>0, <1>1, <2>1, FreeListAssumption DEF TxIds
<1>18. got \in Pages \cup {0} /\ total \in 4 .. MaxPage
  BY DEF IInv, TypeOK
<1> QED
  BY <1>0, <1>8, <1>9, <1>12, <1>13, <1>14, <1>15, <1>16, <1>17, <1>18, PageSame, InvFromFacts

\* What free does to pending_: the pages S are added to the vector of t.
Pushed(q, p, t, S) ==
  /\ q \in [TxIds -> Seq(Pages)] /\ Apart(q, TxIds)
  /\ Pend(q) = Pend(p) \cup S
  /\ \A k \in TxIds : k # t => q[k] = p[k]
  /\ ToSet(q[t]) = ToSet(p[t]) \cup S

\* free adds the pages of the run to the vector of its transaction and leaves
\* the other vectors alone.
LEMMA PushFacts ==
  ASSUME NEW p \in [TxIds -> Seq(Pages)], Apart(p, TxIds), NEW t \in TxIds,
         NEW r, r.first \in Nat, r.first >= 2, r.n \in Nat \ {0}, r.first + r.n <= MaxPage,
         Span(r.first, r.n) \cap Pend(p) = {}
  PROVE  Pushed(FreeRun(p, t, r), p, t, Span(r.first, r.n))
<1> DEFINE q == FreeRun(p, t, r)
           v == RunIds(r)
           S == Span(r.first, r.n)
<1>1. v \in Seq(Pages) /\ ToSet(v) = S /\ IsInjective(v)
  BY RunIdsFacts
<1>2. q = [p EXCEPT ![t] = @ \o v]
  BY DEF FreeRun, RunIds
<1> HIDE DEF v, q, S
<1>3. p[t] \in Seq(Pages) /\ IsInjective(p[t]) /\ ToSet(p[t]) \cap S = {}
  BY PendFacts DEF Apart, S
<1>4. /\ p[t] \o v \in Seq(Pages) /\ ToSet(p[t] \o v) = ToSet(p[t]) \cup S
      /\ IsInjective(p[t] \o v)
  BY <1>1, <1>3, ConcatFacts
<1>5. /\ q \in [TxIds -> Seq(Pages)] /\ q[t] = p[t] \o v
      /\ \A k \in TxIds : k # t => q[k] = p[k]
  BY <1>2, <1>4
<1>6. \A k \in TxIds : ToSet(q[k]) = IF k = t THEN ToSet(p[t]) \cup S ELSE ToSet(p[k])
  BY <1>4, <1>5
<1>7. Pend(q) = Pend(p) \cup S
  BY <1>6 DEF Pend
<1>8. \A k \in TxIds : ToSet(p[k]) \cap S = {}
  BY PendFacts DEF S
<1>9. Apart(q, TxIds)
  <2>1. \A k \in TxIds : IsInjective(q[k])
    BY <1>4, <1>5 DEF Apart
  <2>2. \A k, l \in TxIds : k # l => ToSet(p[k]) \cap ToSet(p[l]) = {}
    BY DEF Apart
  <2>3. \A k, l \in TxIds : k # l => ToSet(q[k]) \cap ToSet(q[l]) = {}
    BY <1>6, <1>8, <2>2
  <2> QED
    BY <2>1, <2>3 DEF Apart
<1> QED
  BY <1>4, <1>5, <1>7, <1>9 DEF q, S, Pushed

\* A transaction frees a run in use, its own freelist's included.
LEMMA FreeFacts ==
  ASSUME IInv, NEW r \in used \cup {fl}
  PROVE  LET q == FreeRun(pending, tid, r)
             S == Span(r.first, r.n)
         IN  /\ q \in [TxIds -> Seq(Pages)] /\ Apart(q, TxIds)
             /\ Pend(q) = Pend(pending) \cup S
             /\ \A k \in TxIds : k # tid => q[k] = pending[k]
             /\ ToSet(q[tid]) = ToSet(pending[tid]) \cup S
             /\ S \subseteq InUse /\ S \cap FreePages = {}
             /\ Vectors(ids, q, tid)
<1> DEFINE q == FreeRun(pending, tid, r)
           S == Span(r.first, r.n)
<1>0. /\ ids \in Seq(Pages) /\ pending \in [TxIds -> Seq(Pages)]
      /\ Vectors(ids, pending, tid)
      /\ FreePages = ToSet(ids) \cup Pend(pending)
      /\ InUse = PagesOf(used \cup {fl}) /\ RunsApart(used \cup {fl}, total)
      /\ InUse \cap FreePages = {} /\ total \in Nat /\ total \in 4 .. MaxPage /\ tid \in TxIds /\ tid \in Nat
  BY StateFacts
<1>1. /\ r.first \in Nat /\ r.n \in Nat \ {0} /\ r.first >= 2 /\ r.first + r.n <= total
      /\ S \subseteq PagesOf(used \cup {fl})
  BY <1>0, RunFacts
<1>2. r.first + r.n <= MaxPage
  BY <1>0, <1>1, FreeListAssumption
<1>3. S \cap FreePages = {} /\ S \cap Pend(pending) = {} /\ S \subseteq InUse
  BY <1>0, <1>1
<1>4. Apart(pending, TxIds)
  BY <1>0 DEF Vectors
<1>5. /\ q \in [TxIds -> Seq(Pages)] /\ Apart(q, TxIds)
      /\ Pend(q) = Pend(pending) \cup S
      /\ \A k \in TxIds : k # tid => q[k] = pending[k]
      /\ ToSet(q[tid]) = ToSet(pending[tid]) \cup S
  <2>1. Pushed(q, pending, tid, S)
    BY <1>0, <1>1, <1>2, <1>3, <1>4, PushFacts
  <2> QED
    BY <2>1 DEF Pushed
<1> HIDE DEF q, S
<1>6. Vectors(ids, q, tid)
  <2>1. ToSet(ids) \cap Pend(q) = {}
    BY <1>0, <1>3, <1>5 DEF Vectors
  <2>2. \A k \in TxIds : k > tid => k # tid
    BY <1>0
  <2> QED
    BY <1>0, <1>5, <2>1, <2>2 DEF Vectors
<1> QED
  BY <1>3, <1>5, <1>6 DEF q, S

\* freeList::free keeps the invariant.
LEMMA FreeStep ==
  ASSUME IInv, NEW r \in used, Free(r)
  PROVE  IInv'
<1> DEFINE S == Span(r.first, r.n)
<1>0. /\ ids \in Seq(Pages)
      /\ FreePages = ToSet(ids) \cup Pend(pending)
      /\ InUse = PagesOf(used \cup {fl}) /\ RunsApart(used \cup {fl}, total)
      /\ cache \subseteq FreePages /\ InUse \cap FreePages = {}
      /\ InUse \cup FreePages = 2 .. total - 1 /\ total \in Nat
  BY StateFacts
<1>1. /\ active /\ pending' = FreeRun(pending, tid, r) /\ used' = used \ {r}
      /\ ids' = ids /\ cache' = cache /\ page' = page /\ got' = got /\ tid' = tid
      /\ active' = active /\ fl' = fl /\ total' = total /\ base' = base
  BY DEF Free
<1>2. /\ pending' \in [TxIds -> Seq(Pages)]
      /\ Pend(pending') = Pend(pending) \cup S
      /\ \A k \in TxIds : k # tid => pending'[k] = pending[k]
      /\ S \subseteq InUse /\ S \cap FreePages = {}
      /\ Vectors(ids', pending', tid')
  BY <1>1, FreeFacts
<1>3. fl \notin used /\ \A q \in used \cup base.used \cup {fl} : q.n \in Sizes
  BY DEF IInv, ListInv
<1>4. used' \cup {fl'} = (used \cup {fl}) \ {r}
  BY <1>1, <1>3
<1>5. RunsApart(used' \cup {fl'}, total') /\ PagesOf(used' \cup {fl'}) = InUse \ S
  <2> DEFINE R == used \cup {fl}
  <2>1. r \in R /\ RunsApart(R, total) /\ total \in Nat
    BY <1>0
  <2> HIDE DEF R
  <2>2. RunsApart(R \ {r}, total) /\ PagesOf(R \ {r}) = PagesOf(R) \ S
    BY <2>1, RunsRemove
  <2> QED
    BY <1>0, <1>1, <1>4, <2>2 DEF R
<1>6. /\ PagesOf(used' \cup {fl'}) \cap (ToSet(ids') \cup Pend(pending')) = {}
      /\ PagesOf(used' \cup {fl'}) \cup (ToSet(ids') \cup Pend(pending')) = 2 .. total' - 1
      /\ cache' \subseteq ToSet(ids') \cup Pend(pending')
  <2> HIDE DEF S
  <2> QED
    BY <1>0, <1>1, <1>2, <1>5
<1>7. CommitKept'
  <2>1. CommitKept
    BY DEF IInv, ListInv
  <2>2. \A k \in TxIds : (active' => k # tid') => ToSet(pending'[k]) \subseteq Saved
    BY <1>1, <1>2, <2>1 DEF CommitKept
  <2> QED
    BY <1>1, <2>1, <2>2, KeptSame
<1>8. /\ got \in Pages \cup {0} /\ total \in 4 .. MaxPage /\ tid \in TxIds /\ active \in BOOLEAN
      /\ tid > IF active THEN 1 ELSE 0
  BY DEF IInv, TypeOK, ListInv
<1> QED
  BY <1>0, <1>1, <1>2, <1>3, <1>5, <1>6, <1>7, <1>8, PageSame, InvFromFacts

\* Where allocate places n pages in a state of the invariant, and what it
\* leaves free.
LEMMA PlaceFacts ==
  ASSUME IInv, NEW n \in Nat \ {0}
  PROVE  LET q == Placed(n)
             S == Span(q.first, q.n)
             to == TotalAfter(n)
         IN  /\ q.n = n /\ q.first \in Nat /\ q.first >= 2 /\ to \in Nat /\ total <= to
             /\ q.first + q.n <= to
             /\ S \cap InUse = {} /\ S \cap Pend(pending) = {}
             /\ (2 .. total - 1) \cup S = 2 .. to - 1
             /\ Rest(ids, n) \in Seq(Pages) /\ Ascending(Rest(ids, n))
             /\ Len(Rest(ids, n)) <= Len(ids)
             /\ ToSet(Rest(ids, n)) = ToSet(ids) \ S
             /\ CacheAfter(cache, ids, n) = cache \ S
<1> DEFINE q == Placed(n)
           S == Span(q.first, q.n)
           to == TotalAfter(n)
<1>0. /\ ids \in Seq(Pages) /\ Vectors(ids, pending, tid)
      /\ FreePages = ToSet(ids) \cup Pend(pending)
      /\ InUse \subseteq 2 .. total - 1 /\ ToSet(ids) \subseteq 2 .. total - 1
      /\ Pend(pending) \subseteq 2 .. total - 1 /\ cache \subseteq 2 .. total - 1
      /\ InUse \cap FreePages = {} /\ total \in 4 .. MaxPage
  BY StateFacts
<1>1. Ascending(ids) /\ ToSet(ids) \cap Pend(pending) = {}
  BY <1>0 DEF Vectors
<1>2. /\ q.n = n /\ q.first \in Nat /\ q.first >= 2 /\ to \in Nat /\ total <= to
      /\ q.first + q.n <= to
      /\ S \cap (2 .. total - 1) \subseteq ToSet(ids)
      /\ (2 .. total - 1) \cup S = 2 .. to - 1
      /\ Rest(ids, n) \in Seq(Pages) /\ Ascending(Rest(ids, n))
      /\ Len(Rest(ids, n)) <= Len(ids)
      /\ ToSet(Rest(ids, n)) = ToSet(ids) \ S
      /\ CacheAfter(cache, ids, n) = cache \ S
  BY <1>0, <1>1, PlacedFacts
<1>3. S \cap InUse = {} /\ S \cap Pend(pending) = {}
  <2> HIDE DEF S
  <2> DEFINE below == 2 .. total - 1
  <2>1. S \cap below \subseteq ToSet(ids) /\ InUse \subseteq below /\ Pend(pending) \subseteq below
    BY <1>0, <1>2
  <2> HIDE DEF below
  <2> QED
    BY <1>0, <1>1, <2>1
<1> QED
  BY <1>2, <1>3

\* freeList::allocate, or taking pages at the end of the file, keeps the
\* invariant.
LEMMA AllocateStep ==
  ASSUME IInv, NEW n \in AllocSizes, Allocate(n)
  PROVE  IInv'
<1> DEFINE q == Placed(n)
           S == Span(q.first, q.n)
           to == TotalAfter(n)
           R == used \cup {fl}
<1>0. /\ ids \in Seq(Pages) /\ pending \in [TxIds -> Seq(Pages)] /\ Vectors(ids, pending, tid)
      /\ FreePages = ToSet(ids) \cup Pend(pending)
      /\ InUse = PagesOf(R) /\ RunsApart(R, total)
      /\ cache \subseteq FreePages /\ InUse \cap FreePages = {}
      /\ InUse \cup FreePages = 2 .. total - 1 /\ total \in Nat /\ total \in 4 .. MaxPage
  BY StateFacts
<1>1. /\ active /\ to <= MaxPage /\ got' = Found(ids, n) /\ ids' = Rest(ids, n)
      /\ cache' = CacheAfter(cache, ids, n) /\ used' = used \cup {q} /\ total' = to
      /\ pending' = pending /\ page' = page /\ tid' = tid /\ active' = active
      /\ fl' = fl /\ base' = base
  BY DEF Allocate
<1>2. n \in Nat \ {0} /\ n \in Sizes
  BY FreeListAssumption DEF Sizes
<1>3. /\ q.n = n /\ q.first \in Nat /\ q.first >= 2 /\ to \in Nat /\ total <= to
      /\ q.first + q.n <= to /\ S \cap InUse = {} /\ S \cap Pend(pending) = {}
      /\ (2 .. total - 1) \cup S = 2 .. to - 1
      /\ Rest(ids, n) \in Seq(Pages) /\ Ascending(Rest(ids, n))
      /\ ToSet(Rest(ids, n)) = ToSet(ids) \ S
      /\ CacheAfter(cache, ids, n) = cache \ S
  BY <1>2, PlaceFacts
<1>4. got' \in Pages \cup {0}
  <2>1. Ascending(ids)
    BY <1>0 DEF Vectors
  <2> QED
    BY <1>0, <1>1, <1>2, <2>1, AllocateFacts
<1> HIDE DEF q, to, R
<1>5. /\ q \notin R /\ RunsApart(R \cup {q}, to) /\ PagesOf(R \cup {q}) = InUse \cup S
  <2>1. q.n \in Nat \ {0}
    BY <1>2, <1>3
  <2> QED
    BY <1>0, <1>3, <2>1, RunsAdd
<1>6. used' \cup {fl'} = R \cup {q}
  BY <1>1 DEF R
<1>7. fl \notin used /\ \A r \in used \cup base.used \cup {fl} : r.n \in Sizes
  BY DEF IInv, ListInv
<1>8. fl' \notin used' /\ \A r \in used' \cup base'.used \cup {fl'} : r.n \in Sizes
  BY <1>1, <1>2, <1>3, <1>5, <1>7 DEF R
<1> HIDE DEF S
<1>9. Vectors(ids', pending', tid')
  <2>1. ToSet(ids') \cap Pend(pending') = {}
    BY <1>0, <1>1, <1>3 DEF Vectors
  <2> QED
    BY <1>0, <1>1, <1>3, <2>1 DEF Vectors
<1>10. /\ PagesOf(used' \cup {fl'}) \cap (ToSet(ids') \cup Pend(pending')) = {}
       /\ PagesOf(used' \cup {fl'}) \cup (ToSet(ids') \cup Pend(pending')) = 2 .. total' - 1
       /\ cache' \subseteq ToSet(ids') \cup Pend(pending')
  <2> DEFINE below == 2 .. total - 1
  <2>1. InUse \cup FreePages = below /\ below \cup S = 2 .. total' - 1
    BY <1>0, <1>1, <1>3
  <2> HIDE DEF below
  <2>2. ToSet(ids') \cup Pend(pending') = FreePages \ S
    BY <1>0, <1>1, <1>3
  <2>3. PagesOf(used' \cup {fl'}) = InUse \cup S
    BY <1>5, <1>6
  <2>4. (InUse \cup S) \cup (FreePages \ S) = below \cup S
    BY <2>1
  <2>5. cache' \subseteq FreePages \ S
    BY <1>0, <1>1, <1>3
  <2> QED
    BY <1>0, <2>1, <2>2, <2>3, <2>4, <2>5
<1>11. CommitKept'
  <2>1. CommitKept
    BY DEF IInv, ListInv
  <2>2. \A k \in TxIds : (active' => k # tid') => ToSet(pending'[k]) \subseteq Saved
    BY <1>1, <2>1 DEF CommitKept
  <2> QED
    BY <1>1, <2>1, <2>2, KeptSame
<1>12. /\ tid \in TxIds /\ active \in BOOLEAN /\ tid > IF active THEN 1 ELSE 0
  BY DEF IInv, TypeOK, ListInv
<1>13. total' \in 4 .. MaxPage
  BY <1>0, <1>1, <1>3, FreeListAssumption
<1>14. ids' \in Seq(Pages) /\ pending' \in [TxIds -> Seq(Pages)] /\ RunsApart(used' \cup {fl'}, total')
  BY <1>0, <1>1, <1>3, <1>5, <1>6
<1>15. tid' = tid /\ active' = active /\ active /\ base' = base /\ page' = page
  BY <1>1
<1> QED
  BY <1>4, <1>8, <1>9, <1>10, <1>11, <1>12, <1>13, <1>14, <1>15, PageSame, InvFromFacts

\* freeList::size never asks for more pages than one freelist of every page
\* would take.
LEMMA SerialPagesBound ==
  ASSUME NEW c \in Nat, NEW d \in Nat, c <= d
  PROVE  SerialPages(c) <= SerialPages(d)
<1> DEFINE a == SerialSlots(c)
           b == SerialSlots(d)
           x == a \div PageSlots
           y == b \div PageSlots
<1>1. PageSlots \in Nat /\ PageSlots > 2 /\ CountMax \in Nat
  BY PageAllocAssumption
<1>2. a \in Nat /\ b \in Nat /\ a <= b
  BY <1>1 DEF SerialSlots, HeaderSlots
<1> HIDE DEF a, b
<1>3. x \in Nat /\ y \in Nat /\ x * PageSlots <= a /\ b < (y + 1) * PageSlots
  BY <1>1, <1>2
<1> HIDE DEF x, y
<1>4. x <= y
  <2> SUFFICES ASSUME x > y PROVE FALSE
    BY <1>3
  <2> DEFINE k == x - (y + 1)
  <2>1. k \in Nat /\ x = (y + 1) + k
    BY <1>3
  <2> HIDE DEF k
  <2>2. ((y + 1) + k) * PageSlots = (y + 1) * PageSlots + k * PageSlots /\ k * PageSlots \in Nat
        /\ (y + 1) * PageSlots \in Nat
    BY <1>1, <1>3, <2>1
  <2>3. x * PageSlots = (y + 1) * PageSlots + k * PageSlots
    BY <2>1, <2>2
  <2> DEFINE u == (y + 1) * PageSlots
             v == k * PageSlots
             w == x * PageSlots
  <2>4. u \in Nat /\ v \in Nat /\ w = u + v /\ w <= a /\ b < u
    BY <1>3, <2>2, <2>3
  <2> HIDE DEF u, v, w
  <2> QED
    BY <1>2, <2>4
<1>5. SerialPages(c) = x + 1 /\ SerialPages(d) = y + 1
  BY DEF SerialPages, a, b, x, y
<1> QED
  BY <1>3, <1>4, <1>5

\* count never exceeds the number of pages.
LEMMA CountBound ==
  ASSUME NEW s \in Seq(Pages), Ascending(s), NEW p \in [TxIds -> Seq(Pages)], AllApart(s, p)
  PROVE  Count(s, p) \in Nat /\ Count(s, p) <= MaxPage
<1> DEFINE c == Copyall(s, p)
<1>1. /\ c \in Seq(Pages) /\ Ascending(c) /\ Len(c) = Count(s, p) /\ Count(s, p) \in Nat
  BY CopyFacts
<1> HIDE DEF c
<1>2. Pages \in SUBSET Nat /\ MaxPage \in Nat /\ MaxPage >= 4
  BY FreeListAssumption DEF Pages
<1>3. Cardinality(ToSet(c)) = Len(c)
  BY <1>1, <1>2, AscendingFacts
<1>4. ToSet(c) \subseteq Pages
  BY <1>1, ToSetFacts
<1>5. IsFiniteSet(Pages) /\ Cardinality(Pages) = MaxPage - 1
  <2>1. 2 \in Int /\ MaxPage \in Int
    BY <1>2
  <2>2. IsFiniteSet(2 .. MaxPage) /\ Cardinality(2 .. MaxPage) = IF 2 > MaxPage THEN 0 ELSE MaxPage - 2 + 1
    BY <2>1, FS_Interval
  <2> QED
    BY <1>2, <2>2 DEF Pages
<1>6. Cardinality(ToSet(c)) <= Cardinality(Pages)
  BY <1>4, <1>5, FS_Subset
<1> QED
  BY <1>1, <1>2, <1>3, <1>5, <1>6

\* Freeing the old freelist page, allocating the new one and writing it keeps
\* the invariant.
LEMMA CommitStep ==
  ASSUME IInv, Commit
  PROVE  IInv'
<1> DEFINE p == FreeRun(pending, tid, fl)
           n == PagesForList(p)
           q == Placed(n)
           S == Span(q.first, q.n)
           F == Span(fl.first, fl.n)
           to == TotalAfter(n)
<1>0. /\ ids \in Seq(Pages) /\ Vectors(ids, pending, tid)
      /\ FreePages = ToSet(ids) \cup Pend(pending)
      /\ InUse = PagesOf(used \cup {fl}) /\ RunsApart(used \cup {fl}, total)
      /\ cache \subseteq FreePages /\ InUse \cap FreePages = {}
      /\ InUse \cup FreePages = 2 .. total - 1 /\ total \in Nat /\ total \in 4 .. MaxPage
  BY StateFacts
<1>1. /\ active /\ to <= MaxPage /\ pending' = p /\ got' = Found(ids, n) /\ ids' = Rest(ids, n)
      /\ cache' = CacheAfter(cache, ids, n) /\ page' = WritePage(ids', p) /\ fl' = q /\ total' = to
      /\ base' = [used |-> used, fl |-> fl', total |-> total']
      /\ active' = FALSE /\ tid' = tid /\ used' = used
  BY DEF Commit
<1>2. base'.used = used /\ base'.fl = fl' /\ base'.total = total'
  BY <1>1
<1>3. /\ p \in [TxIds -> Seq(Pages)] /\ Apart(p, TxIds)
      /\ Pend(p) = Pend(pending) \cup F /\ F \subseteq InUse /\ F \cap FreePages = {}
      /\ Vectors(ids, p, tid)
  BY FreeFacts
<1>4. Ascending(ids) /\ AllApart(ids, p) /\ \A s \in Seq(Pages) : ToSet(s) \subseteq ToSet(ids) => AllApart(s, p)
  <2>1. ToSet(Gather(p, TxIds)) = Pend(p)
    BY <1>3, PendFacts
  <2> QED
    BY <1>0, <1>3, <2>1 DEF AllApart, Vectors
<1>5. n = SerialPages(Count(ids, p))
  BY DEF PagesForList
<1>6. Count(ids, p) \in Nat /\ Count(ids, p) <= MaxPage /\ MaxPage \in Nat
  BY <1>0, <1>3, <1>4, CountBound, FreeListAssumption
<1> HIDE DEF p
<1>7. n \in Nat \ {0} /\ n \in Sizes
  <2> DEFINE c == Count(ids, p)
             m == SerialPages(c)
  <2>0. c \in Nat /\ c <= MaxPage /\ c <= c
    BY <1>6
  <2> HIDE DEF c
  <2>1. m \in Nat \ {0} /\ m <= SerialPages(MaxPage) /\ SerialPages(MaxPage) \in Nat
    BY <1>6, <2>0, SerialFits, SerialPagesBound
  <2>2. n = m
    BY <1>5 DEF c
  <2> HIDE DEF m, n
  <2>3. m \in 1 .. SerialPages(MaxPage)
    BY <2>1
  <2> QED
    BY <2>1, <2>2, <2>3 DEF Sizes
<1> HIDE DEF n
<1>8. /\ q.n = n /\ q.first \in Nat /\ q.first >= 2 /\ to \in Nat /\ total <= to
      /\ q.first + q.n <= to /\ S \cap InUse = {} /\ S \cap Pend(pending) = {}
      /\ (2 .. total - 1) \cup S = 2 .. to - 1
      /\ Rest(ids, n) \in Seq(Pages) /\ Ascending(Rest(ids, n)) /\ Len(Rest(ids, n)) <= Len(ids)
      /\ ToSet(Rest(ids, n)) = ToSet(ids) \ S
      /\ CacheAfter(cache, ids, n) = cache \ S
  BY <1>7, PlaceFacts
<1>9. got' \in Pages \cup {0}
  BY <1>0, <1>1, <1>4, <1>7, AllocateFacts
<1>10. fl \notin used /\ \A r \in used \cup base.used \cup {fl} : r.n \in Sizes
  BY DEF IInv, ListInv
<1> HIDE DEF q, to
<1>11. RunsApart(used, total) /\ PagesOf(used) = InUse \ F
  <2> DEFINE R == used \cup {fl}
  <2>1. fl \in R /\ RunsApart(R, total) /\ total \in Nat
    BY <1>0
  <2>2. R \ {fl} = used
    BY <1>10
  <2> HIDE DEF R
  <2>3. RunsApart(R \ {fl}, total) /\ PagesOf(R \ {fl}) = PagesOf(R) \ F
    BY <2>1, RunsRemove
  <2> QED
    BY <1>0, <2>2, <2>3 DEF R
<1> HIDE DEF F
<1>12. q \notin used /\ RunsApart(used \cup {q}, to) /\ PagesOf(used \cup {q}) = (InUse \ F) \cup S
  <2>1. S \cap PagesOf(used) = {}
    BY <1>8, <1>11
  <2>2. /\ q.first \in Nat /\ q.first >= 2 /\ q.n \in Nat \ {0} /\ q.first + q.n <= to
        /\ to \in Nat /\ total \in Nat /\ total <= to /\ RunsApart(used, total)
    BY <1>0, <1>7, <1>8, <1>11
  <2>3. /\ q \notin used /\ RunsApart(used \cup {q}, to)
        /\ PagesOf(used \cup {q}) = PagesOf(used) \cup S
    BY ONLY <2>1, <2>2, RunsAdd DEF S
  <2> QED
    BY <1>11, <2>3
<1> HIDE DEF S
<1>13. ids' \in Seq(Pages) /\ Ascending(ids') /\ ToSet(ids') = ToSet(ids) \ S /\ AllApart(ids', p)
  BY <1>1, <1>4, <1>8
<1>14. Vectors(ids', pending', tid')
  <2>1. ToSet(ids') \cap Pend(p) = {}
    BY <1>3, <1>13 DEF Vectors
  <2> QED
    BY <1>1, <1>3, <1>13, <2>1 DEF Vectors
<1>15. ToSet(ids') \cup Pend(pending') = (FreePages \ S) \cup F
  BY <1>0, <1>1, <1>3, <1>8, <1>13
<1>16. PagesOf(used' \cup {fl'}) = (InUse \ F) \cup S
  BY <1>1, <1>12
<1>17. /\ PagesOf(used' \cup {fl'}) \cap (ToSet(ids') \cup Pend(pending')) = {}
       /\ PagesOf(used' \cup {fl'}) \cup (ToSet(ids') \cup Pend(pending')) = 2 .. total' - 1
       /\ cache' \subseteq ToSet(ids') \cup Pend(pending')
  <2> DEFINE below == 2 .. total - 1
  <2>1. InUse \cup FreePages = below /\ below \cup S = 2 .. total' - 1
    BY <1>0, <1>1, <1>8
  <2> HIDE DEF below
  <2>2. ((InUse \ F) \cup S) \cup ((FreePages \ S) \cup F) = below \cup S
    BY <1>3, <2>1
  <2>3. ((InUse \ F) \cup S) \cap ((FreePages \ S) \cup F) = {}
    BY <1>0, <1>3, <1>8
  <2>4. cache' \subseteq FreePages \ S
    BY <1>0, <1>1, <1>8
  <2> QED
    BY <1>15, <1>16, <2>1, <2>2, <2>3, <2>4
<1>18. /\ page'.count \in 0 .. CountMax /\ Len(page'.slots) \in Nat
       /\ Len(page'.slots) <= SerialSlots(Count(ids', p)) - HeaderSlots
       /\ ReadPage(page') \in Seq(Pages) /\ Ascending(ReadPage(page'))
       /\ ToSet(ReadPage(page')) = ToSet(ids') \cup Pend(pending')
  <2>1. ToSet(Gather(p, TxIds)) = Pend(pending')
    BY <1>1, <1>3, PendFacts
  <2> DEFINE s == ids'
  <2>2. s \in Seq(Pages) /\ Ascending(s) /\ AllApart(s, p)
    BY <1>13
  <2> HIDE DEF s
  <2>3. /\ WritePage(s, p).count \in 0 .. CountMax /\ Len(WritePage(s, p).slots) \in Nat
        /\ Len(WritePage(s, p).slots) <= SerialSlots(Count(s, p)) - HeaderSlots
        /\ ReadPage(WritePage(s, p)) \in Seq(Pages) /\ Ascending(ReadPage(WritePage(s, p)))
        /\ ToSet(ReadPage(WritePage(s, p))) = ToSet(s) \cup ToSet(Gather(p, TxIds))
    BY <1>3, <2>2, ReadBack
  <2> QED
    BY <1>1, <2>1, <2>3 DEF s
<1>19. Len(page'.slots) <= base'.fl.n * PageSlots - HeaderSlots
  <2> DEFINE c == Count(ids', p)
             d == Count(ids, p)
  <2>1. c \in Nat /\ d \in Nat
    BY <1>3, <1>6, <1>13, CountBound
  <2>2. c <= d
    <3>1. c = Len(ids') + PendingCount(p) /\ d = Len(ids) + PendingCount(p)
      BY DEF Count
    <3>2. PendingCount(p) \in Nat /\ Len(ids) \in Nat /\ Len(ids') \in Nat /\ Len(ids') <= Len(ids)
      BY <1>0, <1>1, <1>3, <1>8, CountFacts, ToSetFacts
    <3> QED
      BY <3>1, <3>2
  <2> HIDE DEF c
  <2>3. SerialSlots(c) - HeaderSlots <= SerialPages(d) * PageSlots - HeaderSlots
    <3> HIDE DEF d
    <3> QED
      BY <2>1, <2>2, SerialFits
  <2>4. base'.fl.n = SerialPages(d)
    BY <1>1, <1>2, <1>5, <1>8
  <2> DEFINE x == SerialSlots(c) - HeaderSlots
             y == SerialPages(d) * PageSlots - HeaderSlots
             z == Len(page'.slots)
  <2>5. z <= x /\ x <= y
    BY <1>18, <2>3 DEF c
  <2>6. x \in Int /\ y \in Int /\ z \in Int
    <3>1. x \in Int
      BY <2>1, PageAllocAssumption DEF SerialSlots, HeaderSlots
    <3>2. y \in Int
      <4>1. SerialPages(d) \in Nat
        <5> HIDE DEF d
        <5> QED
          BY <2>1, SerialFits
      <4> QED
        BY <4>1, PageAllocAssumption DEF HeaderSlots
    <3>3. z \in Int
      BY <1>18
    <3> QED
      BY <3>1, <3>2, <3>3
  <2> HIDE DEF x, y, z
  <2>7. z <= y
    BY <2>5, <2>6
  <2> QED
    BY <2>4, <2>7 DEF y, z
<1>20. CommitKept'
  <2>1. Saved' = ToSet(ids') \cup Pend(pending')
    BY <1>18 DEF Saved
  <2>2. base'.total \in 4 .. MaxPage
    BY <1>0, <1>1, <1>2, <1>8, FreeListAssumption
  <2>3. \A k \in TxIds : ToSet(pending'[k]) \subseteq Saved'
    BY <1>1, <1>3, <2>1, PendFacts
  <2>4. base'.used = used' /\ base'.used \cup {fl'} = used' \cup {fl'} /\ used' = used /\ fl' = q /\ total' = to
    BY <1>1, <1>2
  <2> QED
    BY <1>2, <1>12, <1>17, <1>18, <2>1, <2>2, <2>3, <2>4 DEF CommitKept
<1>21. tid \in TxIds /\ tid > 1
  BY <1>1 DEF IInv, TypeOK, ListInv
<1>22. tid' > IF active' THEN 1 ELSE 0
  BY <1>1, <1>21, FreeListAssumption DEF TxIds
<1>23. \A r \in used' \cup base'.used \cup {fl'} : r.n \in Sizes
  BY <1>1, <1>2, <1>7, <1>8, <1>10
<1>24. /\ pending' \in [TxIds -> Seq(Pages)] /\ fl' \notin used' /\ RunsApart(used' \cup {fl'}, total')
       /\ tid' \in TxIds /\ active' \in BOOLEAN
  BY <1>1, <1>3, <1>12, <1>21
<1>25. total' \in 4 .. MaxPage
  BY <1>0, <1>1, <1>8, FreeListAssumption
<1>26. ToSet(ids') \cup Pend(pending') = Saved'
  BY <1>18 DEF Saved
<1> QED
  BY <1>9, <1>13, <1>14, <1>17, <1>18, <1>19, <1>20, <1>22, <1>23, <1>24, <1>25, <1>26, InvFromFacts

\* Rollback and open go back to the last commit: every page saved is free or
\* pending again.
LEMMA BackToCommit ==
  ASSUME IInv, UNCHANGED <<page, got, fl, base>>,
         ids' \in Seq(Pages), pending' \in [TxIds -> Seq(Pages)], Vectors(ids', pending', tid'),
         ToSet(ids') \cup Pend(pending') = Saved, cache' = Saved,
         used' = base.used, total' = base.total, active' = FALSE, tid' \in TxIds, tid' > 0
  PROVE  IInv'
<1>1. CommitKept /\ \A r \in used \cup base.used \cup {fl} : r.n \in Sizes
  BY DEF IInv, ListInv
<1>2. page' = page /\ got' = got /\ fl' = fl /\ base' = base
  OBVIOUS
<1>3. /\ fl \notin base.used /\ base.total \in 4 .. MaxPage
      /\ RunsApart(base.used \cup {fl}, base.total)
      /\ PagesOf(base.used \cup {fl}) \cap Saved = {}
      /\ PagesOf(base.used \cup {fl}) \cup Saved = 2 .. (base.total - 1)
  BY <1>1 DEF CommitKept
<1>4. \A k \in TxIds : ToSet(pending'[k]) \subseteq Saved
  BY PendFacts
<1>5. CommitKept'
  BY <1>1, <1>4, KeptSame
<1>6. got' \in Pages \cup {0}
  BY <1>2 DEF IInv, TypeOK
<1>7. active' \in BOOLEAN /\ ~active'
  OBVIOUS
<1>8. used' \cup {fl'} = base.used \cup {fl} /\ fl' \notin used' /\ total' \in 4 .. MaxPage
  BY <1>2, <1>3
<1>9. \A r \in used' \cup base'.used \cup {fl'} : r.n \in Sizes
  BY <1>1, <1>2
<1> QED
  BY <1>2, <1>3, <1>5, <1>6, <1>7, <1>8, <1>9, PageSame, InvFromFacts

\* reindex enters all free and pending pages into cache_.
LEMMA ReindexFacts ==
  ASSUME NEW s, NEW p
  PROVE  Reindex(s, p) = ToSet(s) \cup Pend(p)
  BY DEF Reindex, Pend

\* freeList::rollback with reload keeps the invariant.
LEMMA RollbackStep ==
  ASSUME IInv, Rollback
  PROVE  IInv'
<1> DEFINE p == [pending EXCEPT ![tid] = <<>>]
           all == ToSet(Gather(p, TxIds))
           s == ReadPage(page)
<1>0. /\ pending \in [TxIds -> Seq(Pages)] /\ Vectors(ids, pending, tid)
      /\ tid \in TxIds /\ tid \in Nat
  BY StateFacts
<1>1. /\ active /\ pending' = p /\ ids' = Keep(s, all) /\ cache' = Reindex(ids', p)
      /\ used' = base.used /\ total' = base.total /\ active' = FALSE /\ tid' = tid - 1
      /\ UNCHANGED <<page, got, fl, base>>
  BY DEF Rollback
<1>2. s \in Seq(Pages) /\ Ascending(s) /\ ToSet(s) = Saved
  BY DEF IInv, ListInv, CommitKept, PageHoldsAll, Saved
<1>3. <<>> \in Seq(Pages) /\ ToSet(<<>>) = {} /\ IsInjective(<<>>)
  BY DEF ToSet, IsInjective
<1>4. /\ p \in [TxIds -> Seq(Pages)]
      /\ \A k \in TxIds : p[k] = IF k = tid THEN <<>> ELSE pending[k]
  BY <1>0, <1>3
<1> HIDE DEF p, s
<1>5. all = Pend(p)
  BY <1>4, PendFacts
<1>6. Pend(p) \subseteq Saved
  <2>1. \A k \in TxIds : k # tid => ToSet(pending[k]) \subseteq Saved
    BY <1>1 DEF IInv, ListInv, CommitKept
  <2>2. \A k \in TxIds : ToSet(p[k]) \subseteq Saved
    BY <1>3, <1>4, <2>1
  <2> QED
    BY <2>2 DEF Pend
<1> HIDE DEF all
<1>7. ids' \in Seq(Pages) /\ Ascending(ids') /\ ToSet(ids') = Saved \ Pend(p)
  BY <1>1, <1>2, <1>5, KeepFacts
<1>8. ToSet(ids') \cup Pend(p) = Saved /\ cache' = Saved
  <2>1. ToSet(ids') \cup Pend(p) = Saved
    BY <1>6, <1>7
  <2> QED
    BY <1>1, <2>1, ReindexFacts
<1>9. Vectors(ids', pending', tid')
  <2>1. \A k \in TxIds : IsInjective(p[k]) /\ ToSet(p[k]) \subseteq ToSet(pending[k])
    BY <1>0, <1>3, <1>4 DEF Vectors, Apart
  <2>2. Apart(p, TxIds)
    BY <1>0, <2>1 DEF Vectors, Apart
  <2>3. ASSUME NEW k \in TxIds, k > tid' PROVE p[k] = <<>>
    <3>1. k = tid \/ k > tid
      BY <1>0, <1>1, <2>3, FreeListAssumption DEF TxIds
    <3> QED
      BY <1>0, <1>4, <3>1 DEF Vectors
  <2> QED
    BY <1>1, <1>7, <2>2, <2>3 DEF Vectors
<1>10. tid' \in TxIds /\ tid' > 0
  <2>1. tid > 1
    BY <1>1 DEF IInv, ListInv
  <2> QED
    BY <1>0, <1>1, <2>1, FreeListAssumption DEF TxIds
<1> QED
  BY <1>1, <1>4, <1>7, <1>8, <1>9, <1>10, BackToCommit

\* Reading the freelist page after an open keeps the invariant.
LEMMA ReopenStep ==
  ASSUME IInv, Reopen
  PROVE  IInv'
<1> DEFINE s == ReadPage(page)
<1>1. /\ pending' = NoPending /\ ids' = s /\ cache' = Reindex(ids', NoPending)
      /\ used' = base.used /\ total' = base.total /\ active' = FALSE
      /\ tid' = (IF active THEN tid - 1 ELSE tid)
      /\ UNCHANGED <<page, got, fl, base>>
  BY DEF Reopen
<1>2. s \in Seq(Pages) /\ Ascending(s) /\ ToSet(s) = Saved
  BY DEF IInv, ListInv, CommitKept, PageHoldsAll, Saved
<1>3. NoPending \in [TxIds -> Seq(Pages)] /\ Pend(NoPending) = {}
  BY NoPendingFacts
<1>4. \A k \in TxIds : NoPending[k] = <<>>
  BY DEF NoPending
<1> HIDE DEF s
<1>5. ToSet(ids') \cup Pend(pending') = Saved /\ cache' = Saved
  BY <1>1, <1>2, <1>3, ReindexFacts
<1>6. Vectors(ids', pending', tid')
  <2>1. IsInjective(<<>>) /\ ToSet(<<>>) = {}
    BY DEF IsInjective, ToSet
  <2>2. Apart(NoPending, TxIds)
    BY <1>4, <2>1 DEF Apart
  <2> QED
    BY <1>1, <1>2, <1>3, <1>4, <2>2 DEF Vectors
<1>7. tid' \in TxIds /\ tid' > 0
  <2>1. tid \in TxIds /\ active \in BOOLEAN /\ tid > IF active THEN 1 ELSE 0
    BY DEF IInv, TypeOK, ListInv
  <2> QED
    BY <1>1, <2>1, FreeListAssumption DEF TxIds
<1> QED
  BY <1>1, <1>2, <1>3, <1>5, <1>6, <1>7, BackToCommit

\* So does every step.
LEMMA InvStep == IInv /\ [Next]_vars => IInv'
<1> SUFFICES ASSUME IInv, [Next]_vars PROVE IInv'
  OBVIOUS
<1>1. CASE \E t \in 0 .. tid : Release(t)
  BY <1>1, ReleaseStep
<1>2. CASE \E r \in used : Free(r)
  BY <1>2, FreeStep
<1>3. CASE \E n \in AllocSizes : Allocate(n)
  BY <1>3, AllocateStep
<1>4. CASE Commit
  BY <1>4, CommitStep
<1>5. CASE Rollback
  BY <1>5, RollbackStep
<1>6. CASE Reopen
  BY <1>6, ReopenStep
<1>7. CASE UNCHANGED vars
  BY <1>7 DEF vars, list, env, IInv, TypeOK, ListInv, VectorsApart, CommitKept, InUseNotFree,
     PageHoldsAll, FreePages, InUse, Saved
<1> QED
  BY <1>1, <1>2, <1>3, <1>4, <1>5, <1>6, <1>7 DEF Next

\* The vectors, the runs in use and the freelist page fit together in every
\* reachable state of freeList, whatever its sizes and limits.
THEOREM Invariant == Spec => []IInv
  BY InitInv, InvStep, PTL DEF Spec

\* Every variable of the freelist keeps its type: ids_ and pending_ hold pages
\* between the metas and the bound.
THEOREM TypeCorrect == Spec => []TypeOK
<1>1. IInv => TypeOK
  BY DEF IInv
<1> QED
  BY <1>1, Invariant, PTL

\* The inductive invariant: every page below the end of the file is in one run
\* in use or once in one vector, now and in the commit to go back to.
THEOREM ListIsWhole == Spec => []ListInv
<1>1. IInv => ListInv
  BY DEF IInv
<1> QED
  BY <1>1, Invariant, PTL

\* freeList::allocate, free, release, rollback, reload and read never make a
\* page in use free, and never lose one.
THEOREM UsedIsNotFree == Spec => []InUseNotFree
<1>1. IInv => InUseNotFree
  BY DEF IInv
<1> QED
  BY <1>1, Invariant, PTL

\* The page that commit writes fits where it is put and reads back as every
\* free and pending page.
THEOREM PageReadsBack == Spec => []PageHoldsAll
<1>1. IInv => PageHoldsAll
  BY DEF IInv
<1> QED
  BY <1>1, Invariant, PTL

\* ids_ stays sorted and no page is in the vectors twice: freeList::count
\* counts pages.
THEOREM NoPageTwice == Spec => []NoDuplicates
<1>1. IInv => NoDuplicates
  <2> SUFFICES ASSUME IInv PROVE NoDuplicates
    OBVIOUS
  <2>1. /\ ids \in Seq(Pages) /\ pending \in [TxIds -> Seq(Pages)]
        /\ Vectors(ids, pending, tid) /\ AllApart(ids, pending)
    BY StateFacts
  <2>2. Ascending(ids)
    BY <2>1 DEF Vectors
  <2> DEFINE c == Copyall(ids, pending)
  <2>3. /\ c \in Seq(Pages) /\ Ascending(c) /\ Len(c) = Count(ids, pending)
        /\ ToSet(c) = ToSet(ids) \cup ToSet(Gather(pending, TxIds))
    BY <2>1, <2>2, CopyFacts
  <2> HIDE DEF c
  <2>4. Pages \in SUBSET Nat
    BY FreeListAssumption DEF Pages
  <2>5. Cardinality(ToSet(c)) = Len(c)
    BY <2>3, <2>4, AscendingFacts
  <2> QED
    BY <2>2, <2>3, <2>5 DEF NoDuplicates, FreePages
<1> QED
  BY <1>1, Invariant, PTL

---------------------------------------------------------------------------
(* The vectors implement the sets of FreeSet.                              *)

\* What is pending, as FreeSet sees it.
PendingSets == [k \in TxIds |-> ToSet(pending[k])]

\* What FreeSet takes to be pending is what the vectors hold.
LEMMA AbstractPending ==
  /\ Abstract!AllPending(PendingSets) = Pend(pending)
  /\ Abstract!AllPending(PendingSets') = Pend(pending')
<1>1. DOMAIN PendingSets = TxIds /\ \A k \in TxIds : PendingSets[k] = ToSet(pending[k])
  BY DEF PendingSets
<1>2. DOMAIN PendingSets' = TxIds /\ \A k \in TxIds : PendingSets'[k] = ToSet(pending'[k])
  BY DEF PendingSets
<1> QED
  BY <1>1, <1>2 DEF Abstract!AllPending, Pend

\* FreeSet and FreeList mean the same by the lowest run of free pages.
LEMMA AbstractFirstRun ==
  ASSUME NEW S, NEW n
  PROVE  Abstract!FirstRun(S, n) = FirstRun(S, n) /\ Abstract!Span(S, n) = Span(S, n)
  BY DEF Abstract!FirstRun, FirstRun, Abstract!RunStarts, RunStarts, Abstract!Span, Span,
     Abstract!Min, Min

\* The initial freelist is an initial state of FreeSet.
LEMMA InitRefines == Init => Abstract!Init
<1> SUFFICES ASSUME Init PROVE Abstract!Init
  OBVIOUS
<1>1. IInv
  BY InitInv
<1>2. ids = <<>> /\ pending = NoPending /\ got = 0 /\ ~active
  BY DEF Init
<1>3. ToSet(<<>>) = {}
  BY DEF ToSet
<1>4. ToSet(ids) = {} /\ \A k \in TxIds : ToSet(pending[k]) = {}
  BY <1>2, <1>3 DEF NoPending
<1>5. ToSet(ReadPage(page)) = {}
  <2>1. FreePages = Saved
    BY <1>1, <1>2 DEF IInv, PageHoldsAll
  <2>2. FreePages = ToSet(ids) \cup Pend(pending)
    BY <1>1, StateFacts
  <2> QED
    BY <1>4, <2>1, <2>2 DEF Saved, Pend
<1> QED
  BY <1>2, <1>4, <1>5 DEF Abstract!Init, Abstract!TxIds, TxIds

\* release on vectors is release on sets.
LEMMA ReleaseRefines ==
  ASSUME IInv, NEW t \in 0 .. tid, Release(t)
  PROVE  Abstract!Release(t)
<1> DEFINE S == 0 .. t
           out == UNION {ToSet(pending[k]) : k \in TxIds \cap S}
<1>1. /\ ids' = Merge(Sort(Gather(pending, S)), ids)
      /\ pending' = [k \in TxIds |-> IF k <= t THEN <<>> ELSE pending[k]]
      /\ page' = page /\ got' = got
  BY DEF Release
<1>2. ToSet(ids') = ToSet(ids) \cup out
  BY <1>1, ReleaseFacts
<1>3. Abstract!Released(PendingSets, t) = out
  <2>1. TxIds \subseteq Nat /\ tid \in Nat
    BY StateFacts, FreeListAssumption DEF TxIds
  <2>2. \A k \in TxIds : k <= t <=> k \in S
    BY <2>1
  <2>3. DOMAIN PendingSets = TxIds /\ \A k \in TxIds : PendingSets[k] = ToSet(pending[k])
    BY DEF PendingSets
  <2>4. {j \in TxIds : j <= t} = TxIds \cap S
    BY <2>2
  <2> HIDE DEF S
  <2> QED
    BY <2>3, <2>4 DEF Abstract!Released
<1>4. \A k \in TxIds : ToSet(pending'[k]) = IF k <= t THEN {} ELSE PendingSets[k]
  BY <1>1 DEF ToSet, PendingSets
<1>5. PendingSets' = [k \in TxIds |-> IF k <= t THEN {} ELSE PendingSets[k]]
  BY <1>4 DEF PendingSets
<1> HIDE DEF out
<1> QED
  BY <1>1, <1>2, <1>3, <1>5 DEF Abstract!Release, PendingSets, Abstract!TxIds, TxIds

\* free on vectors is free on sets.
LEMMA FreeRefines ==
  ASSUME IInv, NEW r \in used, Free(r)
  PROVE  /\ Abstract!Free(tid, r.first, r.n)
         /\ tid \in TxIds /\ r.first \in Pages /\ r.n \in Sizes
<1> DEFINE S == Span(r.first, r.n)
<1>0. /\ FreePages = ToSet(ids) \cup Pend(pending) /\ RunsApart(used \cup {fl}, total)
      /\ total \in Nat /\ total \in 4 .. MaxPage /\ tid \in TxIds
  BY StateFacts
<1>1. pending' = FreeRun(pending, tid, r) /\ ids' = ids /\ page' = page /\ got' = got
  BY DEF Free
<1>2. /\ \A k \in TxIds : k # tid => pending'[k] = pending[k]
      /\ ToSet(pending'[tid]) = ToSet(pending[tid]) \cup S
      /\ S \cap FreePages = {}
  BY <1>1, FreeFacts
<1>3. PendingSets' = [PendingSets EXCEPT ![tid] = @ \cup S]
  <2> HIDE DEF S
  <2> QED
    BY <1>0, <1>2 DEF PendingSets
<1>4. S \cap (ToSet(ids) \cup Abstract!AllPending(PendingSets)) = {}
  BY <1>0, <1>2, AbstractPending
<1>5. r.n \in Sizes
  BY DEF IInv, ListInv
<1>6. r.first \in Nat /\ r.n \in Nat \ {0} /\ r.first >= 2 /\ r.first + r.n <= total
  BY <1>0, RunFacts
<1>7. r.first \in Pages
  BY <1>0, <1>6, FreeListAssumption DEF Pages
<1>8. Abstract!Span(r.first, r.n) = S
  BY AbstractFirstRun
<1> HIDE DEF S
<1>9. Abstract!Free(tid, r.first, r.n)
  BY <1>1, <1>3, <1>4, <1>8 DEF Abstract!Free, PendingSets
<1> QED
  BY <1>0, <1>5, <1>7, <1>9

\* allocate takes the run FreeSet takes.
LEMMA AllocateRefines ==
  ASSUME IInv, NEW n \in AllocSizes, Allocate(n)
  PROVE  Abstract!Allocate(n)
<1>1. got' = Found(ids, n) /\ ids' = Rest(ids, n) /\ pending' = pending /\ page' = page
  BY DEF Allocate
<1>2. ids \in Seq(Pages) /\ Ascending(ids) /\ n \in Nat \ {0}
  BY StateFacts, FreeListAssumption DEF Vectors
<1>3. /\ Found(ids, n) = FirstRun(ToSet(ids), n)
      /\ Found(ids, n) = 0 => Rest(ids, n) = ids
      /\ Found(ids, n) # 0 => ToSet(Rest(ids, n)) = ToSet(ids) \ Span(Found(ids, n), n)
  BY <1>2, AllocateFacts
<1>4. got' = Abstract!FirstRun(ToSet(ids), n) /\ Abstract!Span(got', n) = Span(got', n)
  BY <1>1, <1>3, AbstractFirstRun
<1>5. ToSet(ids') = IF got' = 0 THEN ToSet(ids) ELSE ToSet(ids) \ Abstract!Span(got', n)
  BY <1>1, <1>3, <1>4
<1> QED
  BY <1>1, <1>4, <1>5 DEF Abstract!Allocate

\* A commit is one Save of FreeSet, with the size of the new freelist page.
LEMMA CommitRefines ==
  ASSUME IInv, IInv', Commit
  PROVE  \E m \in Sizes : /\ Abstract!Save(tid, fl.first, fl.n, m)
                          /\ tid \in TxIds /\ fl.first \in Pages /\ fl.n \in Sizes
<1> DEFINE p == FreeRun(pending, tid, fl)
           n == PagesForList(p)
           S == Span(fl.first, fl.n)
<1>0. /\ FreePages = ToSet(ids) \cup Pend(pending) /\ RunsApart(used \cup {fl}, total)
      /\ total \in Nat /\ total \in 4 .. MaxPage /\ tid \in TxIds /\ ids \in Seq(Pages) /\ Ascending(ids)
  BY StateFacts DEF Vectors
<1>1. /\ pending' = p /\ got' = Found(ids, n) /\ ids' = Rest(ids, n) /\ fl' = Placed(n) /\ ~active'
  BY DEF Commit
<1>2. /\ \A k \in TxIds : k # tid => pending'[k] = pending[k]
      /\ ToSet(pending'[tid]) = ToSet(pending[tid]) \cup S
      /\ S \cap FreePages = {}
  BY <1>1, FreeFacts
<1> HIDE DEF p, n
<1>3. n \in Nat \ {0} /\ n \in Sizes
  <2>1. fl'.n = n
    BY <1>1 DEF Placed
  <2>2. fl'.n \in Sizes /\ fl'.n \in Nat \ {0}
    BY DEF IInv, ListInv, RunsApart
  <2> QED
    BY <2>1, <2>2
<1>4. /\ Found(ids, n) = FirstRun(ToSet(ids), n)
      /\ Found(ids, n) = 0 => Rest(ids, n) = ids
      /\ Found(ids, n) # 0 => ToSet(Rest(ids, n)) = ToSet(ids) \ Span(Found(ids, n), n)
  BY <1>0, <1>3, AllocateFacts
<1>5. got' = Abstract!FirstRun(ToSet(ids), n) /\ Abstract!Span(got', n) = Span(got', n)
  BY <1>1, <1>4, AbstractFirstRun
<1>6. ToSet(ids') = IF got' = 0 THEN ToSet(ids) ELSE ToSet(ids) \ Abstract!Span(got', n)
  BY <1>1, <1>4, <1>5
<1>7. PendingSets' = [PendingSets EXCEPT ![tid] = @ \cup S]
  <2> HIDE DEF S
  <2> QED
    BY <1>0, <1>2 DEF PendingSets
<1>8. S \cap (ToSet(ids) \cup Abstract!AllPending(PendingSets)) = {}
  BY <1>0, <1>2, AbstractPending
<1>9. ToSet(ReadPage(page')) = ToSet(ids') \cup Abstract!AllPending(PendingSets')
  <2>1. FreePages' = Saved' /\ pending' \in [TxIds -> Seq(Pages)]
    BY <1>1 DEF IInv, PageHoldsAll, TypeOK
  <2>2. FreePages' = ToSet(ids') \cup ToSet(Gather(pending', TxIds)) /\ Saved' = ToSet(ReadPage(page'))
    BY DEF FreePages, Saved
  <2>3. ToSet(Gather(pending', TxIds)) = Pend(pending')
    BY <2>1, PendFacts
  <2> QED
    BY <2>1, <2>2, <2>3, AbstractPending
<1>10. fl.n \in Sizes
  BY DEF IInv, ListInv
<1>11. fl.first \in Nat /\ fl.n \in Nat \ {0} /\ fl.first >= 2 /\ fl.first + fl.n <= total
  BY <1>0, RunFacts
<1>12. fl.first \in Pages
  BY <1>0, <1>11, FreeListAssumption DEF Pages
<1>13. Abstract!Span(fl.first, fl.n) = S
  BY AbstractFirstRun
<1> HIDE DEF S
<1>14. Abstract!Save(tid, fl.first, fl.n, n)
  BY <1>5, <1>6, <1>7, <1>8, <1>9, <1>13 DEF Abstract!Save, PendingSets
<1> QED
  BY <1>0, <1>3, <1>10, <1>12, <1>14

\* rollback with reload is Undo of FreeSet.
LEMMA RollbackRefines ==
  ASSUME IInv, IInv', Rollback
  PROVE  Abstract!Undo(tid) /\ tid \in TxIds
<1>1. /\ pending' = [pending EXCEPT ![tid] = <<>>] /\ page' = page /\ got' = got /\ ~active'
  BY DEF Rollback
<1>2. tid \in TxIds /\ pending \in [TxIds -> Seq(Pages)]
  BY StateFacts
<1>3. PendingSets' = [PendingSets EXCEPT ![tid] = {}]
  <2>1. \A k \in TxIds : ToSet(pending'[k]) = IF k = tid THEN {} ELSE ToSet(pending[k])
    BY <1>1, <1>2 DEF ToSet
  <2> QED
    BY <1>2, <2>1 DEF PendingSets
<1>4. ToSet(ids') = ToSet(ReadPage(page)) \ Abstract!AllPending(PendingSets')
  <2>1. FreePages' = Saved' /\ pending' \in [TxIds -> Seq(Pages)] /\ VectorsApart'
    BY <1>1 DEF IInv, PageHoldsAll, TypeOK, ListInv
  <2>2. FreePages' = ToSet(ids') \cup ToSet(Gather(pending', TxIds)) /\ Saved' = ToSet(ReadPage(page))
    BY <1>1 DEF FreePages, Saved
  <2>3. ToSet(Gather(pending', TxIds)) = Pend(pending')
    BY <2>1, PendFacts
  <2>4. ToSet(ids') \cap Pend(pending') = {}
    BY <2>1 DEF VectorsApart, Pend
  <2> QED
    BY <2>1, <2>2, <2>3, <2>4, AbstractPending
<1> QED
  BY <1>1, <1>2, <1>3, <1>4 DEF Abstract!Undo, PendingSets

\* Reading the page gives the set that was saved.
LEMMA ReopenRefines ==
  ASSUME IInv, Reopen
  PROVE  Abstract!Reopen
<1>1. pending' = NoPending /\ ids' = ReadPage(page) /\ page' = page /\ got' = got
  BY DEF Reopen
<1>2. \A k \in TxIds : ToSet(pending'[k]) = {}
  BY <1>1 DEF NoPending, ToSet
<1>3. [k \in TxIds |-> ToSet(pending'[k])] = [k \in TxIds |-> {}]
  BY <1>2
<1> QED
  BY <1>1, <1>3 DEF Abstract!Reopen, Abstract!TxIds, TxIds

\* Every step of the vectors is a step of FreeSet or invisible to it.
LEMMA NextRefines == IInv /\ IInv' /\ [Next]_vars => [Abstract!Next]_(Abstract!vars)
<1> SUFFICES ASSUME IInv, IInv', [Next]_vars PROVE [Abstract!Next]_(Abstract!vars)
  OBVIOUS
<1> USE DEF Abstract!Next
<1>0. Abstract!TxIds = TxIds /\ Abstract!Pages = Pages /\ tid \in TxIds /\ tid \in Nat /\ MaxTx \in Nat
  BY StateFacts, FreeListAssumption DEF Abstract!TxIds, Abstract!Pages, TxIds, Pages
<1>1. ASSUME NEW t \in 0 .. tid, Release(t) PROVE Abstract!Next
  <2>1. t \in TxIds
    BY <1>0 DEF TxIds
  <2> QED
    BY <1>0, <1>1, <2>1, ReleaseRefines
<1>2. ASSUME NEW r \in used, Free(r) PROVE Abstract!Next
  BY <1>0, <1>2, FreeRefines
<1>3. ASSUME NEW n \in AllocSizes, Allocate(n) PROVE Abstract!Next
  BY <1>3, AllocateRefines DEF Sizes
<1>4. CASE Commit
  BY <1>0, <1>4, CommitRefines
<1>5. CASE Rollback
  BY <1>0, <1>5, RollbackRefines
<1>6. CASE Reopen
  BY <1>6, ReopenRefines
<1>7. CASE UNCHANGED vars
  BY <1>7 DEF vars, list, env, Abstract!vars
<1> QED
  BY <1>1, <1>2, <1>3, <1>4, <1>5, <1>6, <1>7 DEF Next

\* freeList, with its vectors, its cache and its page format, does what FreeSet
\* says of sets of pages: allocate hands out the lowest run, release, rollback
\* and reload move the right pages, the page read back is what was written.
THEOREM ListImplementsSet == Spec => ImplementsFreeSet
<1>1. Spec => []IInv
  BY Invariant
<1> QED
  BY <1>1, InitRefines, NextRefines, PTL DEF Spec, ImplementsFreeSet, Abstract!Spec
=============================================================================
