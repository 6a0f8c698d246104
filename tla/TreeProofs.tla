----------------------------- MODULE TreeProofs -----------------------------
(***************************************************************************)
(* Proofs about element lists (Node) and the tree that buckets make of     *)
(* them (Bucket), for every set of keys and names, every nesting, every    *)
(* page size and every number of pages and calls.  First, what searching,  *)
(* changing and splitting do to a list.  Then, that the invariant of       *)
(* BucketInv.tla is inductive; types, the rule for inline buckets and that *)
(* a stored bucket is never cut off from its parent follow from it.  While *)
(* the cursor shows no bucket as plain no assertion of Bucket::spill about *)
(* a child fails.                                                          *)
(***************************************************************************)
EXTENDS BucketInv, Loops, SequenceTheorems

---------------------------------------------------------------------------
(* Searching.                                                              *)

Mid(b, e) == (b + e) \div 2

\* f is the outcome of a search between b and e, for all b and e.
Searches(f, s, k) ==
  \A b \in 0 .. Len(s), e \in 0 .. Len(s) :
    f[<<b, e>>] =
      IF b >= e THEN [index |-> e, found |-> FALSE]
      ELSE IF s[Mid(b, e) + 1].key > k THEN f[<<b, Mid(b, e)>>]
      ELSE IF s[Mid(b, e) + 1].key = k THEN [index |-> Mid(b, e), found |-> TRUE]
      ELSE f[<<Mid(b, e) + 1, e>>]

\* The loop of binarySearch, step by step.
LEMMA SearchLoop ==
  ASSUME NEW S, NEW s \in Seq(S), NEW k
  PROVE  \E f : binarySearch(s, k) = f[<<0, Len(s)>>] /\ Searches(f, s, k)
<1> DEFINE n == Len(s)
           D == (0 .. n) \X (0 .. n)
           A == [index : 0 .. n, found : BOOLEAN]
           B(f, r) ==
             LET mid == (r[1] + r[2]) \div 2
             IN  IF r[1] >= r[2] THEN [index |-> r[2], found |-> FALSE]
                 ELSE IF s[mid + 1].key > k THEN f[<<r[1], mid>>]
                 ELSE IF s[mid + 1].key = k THEN [index |-> mid, found |-> TRUE]
                 ELSE f[<<mid + 1, r[2]>>]
           G(h) == [r \in D |-> B(h, r)]
           g == CHOOSE h : h = G(h)
           Step == [x \in [D -> A] \X D |-> B(x[1], x[2])]
           rank == [r \in D |-> IF r[1] >= r[2] THEN 0 ELSE r[2] - r[1]]
           a0 == [index |-> 0, found |-> FALSE]
<1>1. n \in Nat
  OBVIOUS
<1>2. binarySearch(s, k) = g[<<0, n>>]
  BY DEF binarySearch
<1> HIDE DEF n
<1>3. \A r \in D : r = <<r[1], r[2]>> /\ r[1] \in 0 .. n /\ r[2] \in 0 .. n
  OBVIOUS
<1>a. a0 \in A
  BY <1>1
<1>m. ASSUME NEW b \in 0 .. n, NEW e \in 0 .. n, ~(b >= e)
      PROVE  LET mid == (b + e) \div 2
             IN  /\ mid \in 0 .. n /\ mid + 1 \in 0 .. n
                 /\ <<b, mid>> \in D /\ <<mid + 1, e>> \in D
                 /\ rank[<<b, mid>>] < rank[<<b, e>>] /\ rank[<<mid + 1, e>>] < rank[<<b, e>>]
  <2> DEFINE mid == (b + e) \div 2
  <2>1. mid \in Int /\ b <= mid /\ mid < e
    BY <1>1, <1>m
  <2> HIDE DEF mid
  <2>2. mid \in 0 .. n /\ mid + 1 \in 0 .. n
    BY <1>1, <2>1
  <2>3. <<b, mid>> \in D /\ <<mid + 1, e>> \in D /\ <<b, e>> \in D
    BY <2>2
  <2>4. /\ rank[<<b, e>>] = e - b
        /\ rank[<<b, mid>>] = IF b >= mid THEN 0 ELSE mid - b
        /\ rank[<<mid + 1, e>>] = IF mid + 1 >= e THEN 0 ELSE e - (mid + 1)
    BY <1>m, <2>3
  <2> QED
    BY <1>1, <1>m, <2>1, <2>2, <2>3, <2>4 DEF mid
<1>4. ASSUME NEW f \in [D -> A], NEW r \in D PROVE B(f, r) \in A
  <2> DEFINE mid == (r[1] + r[2]) \div 2
  <2>1. CASE r[1] >= r[2]
    BY <1>3, <2>1
  <2>2. CASE ~(r[1] >= r[2])
    <3>1. /\ mid \in 0 .. n
          /\ <<r[1], mid>> \in D /\ <<mid + 1, r[2]>> \in D
      BY <1>3, <1>m, <2>2
    <3> HIDE DEF mid
    <3>2. [index |-> mid, found |-> TRUE] \in A
      BY <3>1
    <3>3. f[<<r[1], mid>>] \in A /\ f[<<mid + 1, r[2]>>] \in A
      <4> HIDE DEF D, A
      <4> QED
        BY <3>1
    <3> HIDE DEF A
    <3> QED
      BY <2>2, <3>2, <3>3 DEF mid
  <2> QED
    BY <2>1, <2>2
<1>5. ASSUME NEW f \in [D -> A], NEW h \in [D -> A], NEW r \in D,
             \A q \in D : rank[q] < rank[r] => f[q] = h[q]
      PROVE  B(f, r) = B(h, r)
  <2> DEFINE mid == (r[1] + r[2]) \div 2
  <2> SUFFICES ASSUME ~(r[1] >= r[2]) PROVE B(f, r) = B(h, r)
    OBVIOUS
  <2>1. /\ <<r[1], mid>> \in D /\ <<mid + 1, r[2]>> \in D
        /\ rank[<<r[1], mid>>] < rank[r] /\ rank[<<mid + 1, r[2]>>] < rank[r]
    BY <1>3, <1>m
  <2>2. f[<<r[1], mid>>] = h[<<r[1], mid>>] /\ f[<<mid + 1, r[2]>>] = h[<<mid + 1, r[2]>>]
    <3> HIDE DEF D, A, mid, rank
    <3> QED
      BY <1>5, <2>1
  <2> QED
    BY <2>2
<1>6. rank \in [D -> 0 .. n]
  BY <1>1, <1>3
<1>7. PICK f \in [D -> A] : \A r \in D : f[r] = Step[<<f, r>>]
  <2> HIDE DEF D, A, B
  <2>1. Step \in [[D -> A] \X D -> A]
    BY <1>4
  <2>2. \A h1, h2 \in [D -> A], r \in D :
          (\A q \in D : rank[q] < rank[r] => h1[q] = h2[q]) => Step[<<h1, r>>] = Step[<<h2, r>>]
    BY <1>5
  <2> HIDE DEF Step, rank
  <2>3. Recursive(D, A, n, rank, a0, Step)
    <3> HIDE DEF a0
    <3> QED
      BY <1>1, <1>a, <1>6, <2>1, <2>2 DEF Recursive
  <2> QED
    BY <2>3, Recursion
<1>8. f = G(f)
  <2> HIDE DEF D, A, B
  <2> QED
    BY <1>7
<1>9. g = G(g)
  <2> HIDE DEF G
  <2> QED
    BY <1>8
<1> HIDE DEF g
<1>10. \A b \in 0 .. n, e \in 0 .. n : g[<<b, e>>] = B(g, <<b, e>>)
  <2> SUFFICES ASSUME NEW b \in 0 .. n, NEW e \in 0 .. n PROVE g[<<b, e>>] = B(g, <<b, e>>)
    OBVIOUS
  <2>1. <<b, e>> \in D
    OBVIOUS
  <2> HIDE DEF D, B
  <2> QED
    BY <1>9, <2>1
<1>11. ASSUME NEW b \in 0 .. n, NEW e \in 0 .. n
       PROVE  g[<<b, e>>] =
                IF b >= e THEN [index |-> e, found |-> FALSE]
                ELSE IF s[Mid(b, e) + 1].key > k THEN g[<<b, Mid(b, e)>>]
                ELSE IF s[Mid(b, e) + 1].key = k THEN [index |-> Mid(b, e), found |-> TRUE]
                ELSE g[<<Mid(b, e) + 1, e>>]
  BY <1>10 DEF Mid
<1>12. Searches(g, s, k)
  BY <1>11, Zenon DEF n, Searches
<1> QED
  BY <1>2, <1>12, Zenon DEF n

\* A list of elements, whose keys are numbers.
Elements(S) == \A x \in S : x.key \in Int

\* The search ends at an element with the key or, in an ordered list, at the
\* place between the smaller keys and the larger ones.
LEMMA SearchFacts ==
  ASSUME NEW S, Elements(S), NEW s \in Seq(S), NEW k \in Int
  PROVE  LET at == binarySearch(s, k)
         IN  /\ at.index \in 0 .. Len(s) /\ at.found \in BOOLEAN
             /\ at.found => at.index < Len(s) /\ s[at.index + 1].key = k
             /\ Ordered(s) /\ ~at.found =>
                  /\ \A i \in 1 .. at.index : s[i].key < k
                  /\ \A i \in at.index + 1 .. Len(s) : s[i].key > k
<1>1. PICK f : binarySearch(s, k) = f[<<0, Len(s)>>] /\ Searches(f, s, k)
  BY SearchLoop
<1> DEFINE n == Len(s)
           D == (0 .. n) \X (0 .. n)
           rank == [r \in D |-> IF r[1] >= r[2] THEN 0 ELSE r[2] - r[1]]
           Split(b, e) == /\ \A i \in 1 .. b : s[i].key < k
                          /\ \A i \in e + 1 .. n : s[i].key > k
           Good(at) == /\ at.index \in 0 .. n /\ at.found \in BOOLEAN
                       /\ at.found => at.index < n /\ s[at.index + 1].key = k
                       /\ Ordered(s) /\ ~at.found => Split(at.index, at.index)
<1>0. n \in Nat /\ \A i \in 1 .. n : s[i].key \in Int
  BY DEF Elements
<1> DEFINE Q == {r \in D : r[1] <= r[2] /\ (Ordered(s) => Split(r[1], r[2])) => Good(f[r])}
<1> HIDE DEF n
<1>2. rank \in [D -> Nat]
  BY <1>0
<1>3. ASSUME NEW b \in 0 .. n, NEW e \in 0 .. n,
             \A q \in D : rank[q] < rank[<<b, e>>] => q \in Q,
             b <= e, Ordered(s) => Split(b, e)
      PROVE  Good(f[<<b, e>>])
  <2> DEFINE mid == (b + e) \div 2
  <2>0. f[<<b, e>>] = IF b >= e THEN [index |-> e, found |-> FALSE]
                      ELSE IF s[mid + 1].key > k THEN f[<<b, mid>>]
                      ELSE IF s[mid + 1].key = k THEN [index |-> mid, found |-> TRUE]
                      ELSE f[<<mid + 1, e>>]
    BY <1>1, Zenon DEF n, Mid, Searches
  <2>1. CASE b = e
    <3>1. f[<<b, e>>] = [index |-> e, found |-> FALSE]
      BY <1>0, <2>0, <2>1
    <3> QED
      BY <1>0, <1>3, <2>1, <3>1
  <2>2. CASE b < e
    <3>1. mid \in Int /\ b <= mid /\ mid < e
      BY <1>0, <2>2
    <3>2. f[<<b, e>>] = IF s[mid + 1].key > k THEN f[<<b, mid>>]
                        ELSE IF s[mid + 1].key = k THEN [index |-> mid, found |-> TRUE]
                        ELSE f[<<mid + 1, e>>]
      BY <1>0, <2>0, <2>2
    <3> HIDE DEF mid
    <3>3. /\ mid \in 0 .. n /\ mid + 1 \in 0 .. n /\ mid + 1 \in 1 .. n
          /\ <<b, mid>> \in D /\ <<mid + 1, e>> \in D /\ <<b, e>> \in D
          /\ s[mid + 1].key \in Int
      BY <1>0, <3>1
    <3>4. /\ rank[<<b, e>>] = e - b
          /\ rank[<<b, mid>>] = IF b >= mid THEN 0 ELSE mid - b
          /\ rank[<<mid + 1, e>>] = IF mid + 1 >= e THEN 0 ELSE e - (mid + 1)
      BY <2>2, <3>3
    <3>5. rank[<<b, mid>>] < rank[<<b, e>>] /\ rank[<<mid + 1, e>>] < rank[<<b, e>>]
      BY <2>2, <3>1, <3>4
    <3>6. <<b, mid>> \in Q /\ <<mid + 1, e>> \in Q
      <4> HIDE DEF D, rank, Q
      <4> QED
        BY <1>3, <3>3, <3>5
    <3>o. \A i, j \in 1 .. n : Ordered(s) /\ i < j => s[i].key < s[j].key
      BY DEF Ordered, n
    <3>7. CASE s[mid + 1].key > k
      <4>1. ASSUME Ordered(s) PROVE Split(b, mid)
        <5>1. ASSUME NEW i \in mid + 1 .. n PROVE s[i].key > k
          <6>1. i \in 1 .. n /\ s[i].key \in Int /\ (mid + 1 < i \/ mid + 1 = i)
            BY <1>0, <3>3
          <6> QED
            BY <3>3, <3>7, <3>o, <4>1, <6>1
        <5> QED
          BY <1>3, <4>1, <5>1
      <4>2. Good(f[<<b, mid>>])
        <5> HIDE DEF Good, Split
        <5>1. <<b, mid>>[1] = b /\ <<b, mid>>[2] = mid
          OBVIOUS
        <5> QED
          BY <3>1, <3>6, <4>1, <5>1
      <4> QED
        BY <3>2, <3>7, <4>2
    <3>8. CASE s[mid + 1].key = k
      <4>1. f[<<b, e>>] = [index |-> mid, found |-> TRUE]
        BY <3>2, <3>3, <3>8
      <4> QED
        BY <1>0, <3>1, <3>3, <3>8, <4>1
    <3>9. CASE s[mid + 1].key < k
      <4>1. ASSUME Ordered(s) PROVE Split(mid + 1, e)
        <5>1. ASSUME NEW i \in 1 .. mid + 1 PROVE s[i].key < k
          <6>1. i \in 1 .. n /\ s[i].key \in Int /\ (i < mid + 1 \/ mid + 1 = i)
            BY <1>0, <3>3
          <6> QED
            BY <3>3, <3>9, <3>o, <4>1, <6>1
        <5> QED
          BY <1>3, <4>1, <5>1
      <4>2. Good(f[<<mid + 1, e>>])
        <5> HIDE DEF Good, Split
        <5>1. <<mid + 1, e>>[1] = mid + 1 /\ <<mid + 1, e>>[2] = e
          OBVIOUS
        <5>2. mid + 1 <= e
          BY <3>1
        <5> QED
          BY <5>2, <3>6, <4>1, <5>1
      <4>3. f[<<b, e>>] = f[<<mid + 1, e>>]
        BY <3>2, <3>3, <3>9
      <4> QED
        BY <4>2, <4>3
    <3> HIDE DEF Good
    <3> QED
      BY <3>3, <3>7, <3>8, <3>9
  <2> HIDE DEF Good
  <2> QED
    BY <1>0, <1>3, <2>1, <2>2
<1>4. Progress(D, rank, Q)
  <2> SUFFICES ASSUME NEW r \in D, \A q \in D : rank[q] < rank[r] => q \in Q
               PROVE  r \in Q
    BY <1>2 DEF Progress
  <2>1. r[1] \in 0 .. n /\ r[2] \in 0 .. n /\ r = <<r[1], r[2]>>
    OBVIOUS
  <2> HIDE DEF D, rank, Good, Split
  <2>2. r[1] <= r[2] /\ (Ordered(s) => Split(r[1], r[2])) => Good(f[<<r[1], r[2]>>])
    BY <1>3, <2>1
  <2> QED
    BY <2>1, <2>2
<1>5. <<0, n>> \in D /\ <<0, n>>[1] = 0 /\ <<0, n>>[2] = n /\ 0 <= n
  BY <1>0
<1>6. Split(0, n)
  BY <1>0
<1>7. Good(f[<<0, n>>])
  <2> HIDE DEF D, rank, Good, Split
  <2>1. D \subseteq Q
    <3> HIDE DEF Q
    <3> QED
      BY <1>4, RankInduction
  <2> QED
    BY <1>5, <1>6, <2>1
<1> QED
  BY <1>1, <1>7 DEF n

\* What a set of elements and its list say of each other.
LEMMA ToSetFacts ==
  ASSUME NEW S, NEW s \in Seq(S)
  PROVE  /\ ToSet(s) = {s[i] : i \in 1 .. Len(s)} /\ ToSet(s) \subseteq S
         /\ DOMAIN s = 1 .. Len(s) /\ Len(s) \in Nat
         /\ s = <<>> <=> ToSet(s) = {}
         /\ s = <<>> <=> Len(s) = 0
<1>1. /\ ToSet(s) = {s[i] : i \in 1 .. Len(s)} /\ ToSet(s) \subseteq S
      /\ DOMAIN s = 1 .. Len(s) /\ Len(s) \in Nat
  BY DEF ToSet
<1>2. s = <<>> <=> Len(s) = 0
  OBVIOUS
<1>3. Len(s) # 0 => s[1] \in ToSet(s)
  BY <1>1
<1>4. Len(s) = 0 => ToSet(s) = {}
  BY <1>1
<1> QED
  BY <1>1, <1>2, <1>3, <1>4

---------------------------------------------------------------------------
(* Changing.                                                               *)

\* t is s with x inserted behind the first i elements.
Inserted(t, s, i, x) ==
  /\ Len(t) = Len(s) + 1
  /\ \A j \in 1 .. i : t[j] = s[j]
  /\ t[i + 1] = x
  /\ \A j \in i + 2 .. Len(s) + 1 : t[j] = s[j - 1]

\* What is where once x is inserted.
LEMMA InsertFacts ==
  ASSUME NEW S, NEW s \in Seq(S), NEW x \in S, NEW i \in 0 .. Len(s)
  PROVE  InsertAt(s, i + 1, x) \in Seq(S) /\ Inserted(InsertAt(s, i + 1, x), s, i, x)
<1> DEFINE a == SubSeq(s, 1, i)
           b == SubSeq(s, i + 1, Len(s))
           m == <<x>>
           am == a \o m
           t == am \o b
<1>0. Len(s) \in Nat /\ i \in Nat /\ i <= Len(s) /\ \A j \in 1 .. Len(s) : s[j] \in S
  OBVIOUS
<1>1. a \in Seq(S) /\ Len(a) = i /\ \A j \in 1 .. i : a[j] = s[j]
  BY <1>0, SubSeqProperties
<1>2. b \in Seq(S) /\ Len(b) = Len(s) - i /\ \A j \in 1 .. Len(s) - i : b[j] = s[i + j]
  BY <1>0, SubSeqProperties
<1>3. m \in Seq(S) /\ Len(m) = 1 /\ m[1] = x
  OBVIOUS
<1> HIDE DEF a, b, m
<1>c. /\ am \in Seq(S) /\ Len(am) = Len(a) + Len(m)
      /\ \A j \in 1 .. Len(a) + Len(m) : am[j] = IF j <= Len(a) THEN a[j] ELSE m[j - Len(a)]
  BY <1>1, <1>3, ConcatProperties
<1>4. /\ am \in Seq(S) /\ Len(am) = i + 1
      /\ \A j \in 1 .. i : am[j] = s[j]
      /\ am[i + 1] = x
  <2> HIDE DEF am
  <2> QED
    BY <1>0, <1>1, <1>3, <1>c
<1> HIDE DEF am
<1>5. /\ t \in Seq(S) /\ Len(t) = Len(s) + 1
      /\ \A j \in 1 .. i + 1 : t[j] = am[j]
      /\ \A j \in i + 2 .. Len(s) + 1 : t[j] = b[j - (i + 1)]
  BY <1>0, <1>2, <1>4, ConcatProperties
<1> HIDE DEF t
<1>6. \A j \in i + 2 .. Len(s) + 1 : t[j] = s[j - 1]
  <2> SUFFICES ASSUME NEW j \in i + 2 .. Len(s) + 1 PROVE t[j] = s[j - 1]
    OBVIOUS
  <2>1. j - (i + 1) \in 1 .. Len(s) - i /\ i + (j - (i + 1)) = j - 1
    BY <1>0
  <2> QED
    BY <1>2, <1>5, <2>1
<1>7. InsertAt(s, i + 1, x) = t
  <2>1. (i + 1) - 1 = i
    BY <1>0
  <2> QED
    BY <2>1 DEF InsertAt, t, am, a, b, m
<1>8. (\A j \in 1 .. i : t[j] = s[j]) /\ t[i + 1] = x
  BY <1>0, <1>4, <1>5
<1> QED
  BY <1>5, <1>6, <1>7, <1>8 DEF Inserted

\* t is s without the element behind the first i.
Removed(t, s, i) ==
  /\ Len(t) = Len(s) - 1
  /\ \A j \in 1 .. i : t[j] = s[j]
  /\ \A j \in i + 1 .. Len(s) - 1 : t[j] = s[j + 1]

\* What is where once an element is removed.
LEMMA RemoveFacts ==
  ASSUME NEW S, NEW s \in Seq(S), NEW i \in 0 .. Len(s) - 1
  PROVE  RemoveAt(s, i + 1) \in Seq(S) /\ Removed(RemoveAt(s, i + 1), s, i)
<1> DEFINE a == SubSeq(s, 1, i)
           b == SubSeq(s, i + 2, Len(s))
           t == a \o b
<1>0. Len(s) \in Nat /\ i \in Nat /\ i < Len(s) /\ \A j \in 1 .. Len(s) : s[j] \in S
  OBVIOUS
<1>1. a \in Seq(S) /\ Len(a) = i /\ \A j \in 1 .. i : a[j] = s[j]
  BY <1>0, SubSeqProperties
<1>2. /\ b \in Seq(S) /\ Len(b) = Len(s) - i - 1
      /\ \A j \in 1 .. Len(s) - i - 1 : b[j] = s[i + 1 + j]
  BY <1>0, SubSeqProperties
<1> HIDE DEF a, b
<1>3. /\ t \in Seq(S) /\ Len(t) = Len(s) - 1
      /\ \A j \in 1 .. i : t[j] = a[j]
      /\ \A j \in i + 1 .. Len(s) - 1 : t[j] = b[j - i]
  <2>1. /\ t \in Seq(S) /\ Len(t) = Len(a) + Len(b)
        /\ \A j \in 1 .. Len(a) + Len(b) : t[j] = IF j <= Len(a) THEN a[j] ELSE b[j - Len(a)]
    BY <1>1, <1>2, ConcatProperties
  <2> HIDE DEF t
  <2>2. Len(t) = Len(s) - 1 /\ Len(a) + Len(b) = Len(s) - 1
    BY <1>0, <1>1, <1>2, <2>1
  <2>3. \A j \in 1 .. i : t[j] = a[j]
    BY <1>0, <1>1, <2>1, <2>2
  <2>4. ASSUME NEW j \in i + 1 .. Len(s) - 1 PROVE t[j] = b[j - i]
    <3>1. j \in 1 .. Len(a) + Len(b) /\ ~(j <= Len(a))
      BY <1>0, <1>1, <2>2
    <3> QED
      BY <1>1, <2>1, <3>1
  <2> QED
    BY <2>1, <2>2, <2>3, <2>4
<1> HIDE DEF t
<1>4. \A j \in i + 1 .. Len(s) - 1 : t[j] = s[j + 1]
  <2> SUFFICES ASSUME NEW j \in i + 1 .. Len(s) - 1 PROVE t[j] = s[j + 1]
    OBVIOUS
  <2>1. j - i \in 1 .. Len(s) - i - 1 /\ i + 1 + (j - i) = j + 1
    BY <1>0
  <2> QED
    BY <1>2, <1>3, <2>1
<1>5. RemoveAt(s, i + 1) = t
  <2>1. (i + 1) - 1 = i /\ (i + 1) + 1 = i + 2
    BY <1>0
  <2> QED
    BY <2>1 DEF RemoveAt, t, a, b
<1> QED
  BY <1>1, <1>3, <1>4, <1>5 DEF Removed

\* Node::put on any list.
LEMMA PutAny ==
  ASSUME NEW S, Elements(S), NEW s \in Seq(S), NEW k \in Int, NEW x \in S
  PROVE  /\ put(s, k, x) \in Seq(S)
         /\ Len(put(s, k, x)) <= Len(s) + 1
         /\ put(s, k, x) # <<>>
<1> DEFINE at == binarySearch(s, k)
<1>1. at.index \in 0 .. Len(s) /\ (at.found => at.index < Len(s)) /\ at.found \in BOOLEAN
  BY SearchFacts
<1> HIDE DEF at
<1>2. CASE at.found
  <2>1. put(s, k, x) = [s EXCEPT ![at.index + 1] = x]
    BY <1>2 DEF put, at, ReplaceAt
  <2>2. at.index + 1 \in 1 .. Len(s)
    BY <1>1, <1>2
  <2>3. Len(put(s, k, x)) = Len(s) /\ put(s, k, x) \in Seq(S)
    BY <2>1, <2>2, ExceptSeq
  <2> QED
    BY <2>2, <2>3
<1>3. CASE ~at.found
  <2>1. put(s, k, x) = InsertAt(s, at.index + 1, x)
    BY <1>3 DEF put, at
  <2>2. put(s, k, x) \in Seq(S) /\ Len(put(s, k, x)) = Len(s) + 1
    BY <1>1, <2>1, InsertFacts DEF Inserted
  <2> QED
    BY <2>2
<1> QED
  BY <1>1, <1>2, <1>3

\* Node::put on an ordered list: x takes the place of the elements with its
\* key, of which there is at most one, and the list stays ordered.
LEMMA PutOrdered ==
  ASSUME NEW S, Elements(S), NEW s \in Seq(S), Ordered(s), NEW x \in S
  PROVE  LET t == put(s, x.key, x)
         IN  /\ t \in Seq(S) /\ Ordered(t)
             /\ ToSet(t) = {y \in ToSet(s) : y.key # x.key} \cup {x}
<1> DEFINE k == x.key
           at == binarySearch(s, k)
           t == put(s, k, x)
<1>0. k \in Int /\ Len(s) \in Nat /\ \A i \in 1 .. Len(s) : s[i] \in S /\ s[i].key \in Int
  BY DEF Elements
<1>1. /\ at.index \in 0 .. Len(s) /\ at.found \in BOOLEAN
      /\ at.found => at.index < Len(s) /\ s[at.index + 1].key = k
      /\ ~at.found => /\ \A i \in 1 .. at.index : s[i].key < k
                      /\ \A i \in at.index + 1 .. Len(s) : s[i].key > k
  BY <1>0, SearchFacts
<1>o. \A i, j \in 1 .. Len(s) : i < j => s[i].key < s[j].key
  BY DEF Ordered
<1>t. t \in Seq(S)
  BY <1>0, PutAny
<1>s. ToSet(s) = {s[i] : i \in 1 .. Len(s)} /\ ToSet(t) = {t[i] : i \in 1 .. Len(t)}
  BY <1>t, ToSetFacts
<1>2. CASE at.found
  <2> DEFINE c == at.index + 1
  <2>1. t = [s EXCEPT ![c] = x]
    BY <1>2 DEF put, ReplaceAt
  <2>2. c \in 1 .. Len(s) /\ s[c].key = k
    BY <1>1, <1>2
  <2> HIDE DEF at, t, c
  <2>3. Len(t) = Len(s) /\ \A j \in 1 .. Len(s) : t[j] = IF j = c THEN x ELSE s[j]
    BY <2>1, <2>2, ExceptSeq
  <2>4. \A j \in 1 .. Len(s) : t[j].key = s[j].key
    BY <2>2, <2>3
  <2>5. Ordered(t)
    BY <1>o, <2>3, <2>4 DEF Ordered
  <2>6. \A j \in 1 .. Len(s) : j # c => s[j].key # k
    BY <1>0, <1>o, <2>2
  <2> HIDE DEF k
  <2>7. ToSet(t) = {y \in ToSet(s) : y.key # k} \cup {x}
    <3>1. ASSUME NEW y \in ToSet(t) PROVE y \in {z \in ToSet(s) : z.key # k} \cup {x}
      BY <1>s, <2>3, <2>6
    <3>2. x \in ToSet(t)
      BY <1>s, <2>2, <2>3
    <3>3. ASSUME NEW y \in ToSet(s), y.key # k PROVE y \in ToSet(t)
      BY <1>s, <2>2, <2>3, <3>3
    <3> QED
      BY <3>1, <3>2, <3>3
  <2> QED
    BY <1>t, <2>5, <2>7 DEF t, k
<1>3. CASE ~at.found
  <2> DEFINE c == at.index
  <2>1. t = InsertAt(s, c + 1, x)
    BY <1>3 DEF put
  <2>2. /\ c \in 0 .. Len(s)
        /\ \A i \in 1 .. c : s[i].key < k
        /\ \A i \in c + 1 .. Len(s) : s[i].key > k
    BY <1>1, <1>3
  <2> HIDE DEF at, t, c
  <2>3. /\ Len(t) = Len(s) + 1
        /\ \A j \in 1 .. c : t[j] = s[j]
        /\ t[c + 1] = x
        /\ \A j \in c + 2 .. Len(s) + 1 : t[j] = s[j - 1]
    <3>1. c \in 0 .. Len(s)
      BY <2>2
    <3>2. Inserted(t, s, c, x)
      BY <2>1, <3>1, InsertFacts
    <3> QED
      BY <3>2 DEF Inserted
  <2>4. Ordered(t)
    <3> SUFFICES ASSUME NEW i \in 1 .. Len(t), NEW j \in 1 .. Len(t), i < j
                 PROVE  t[i].key < t[j].key
      BY DEF Ordered
    <3>1. CASE j <= c
      <4>1. i \in 1 .. c /\ j \in 1 .. c /\ i \in 1 .. Len(s) /\ j \in 1 .. Len(s)
        BY <1>0, <2>2, <3>1
      <4> QED
        BY <1>o, <2>3, <4>1
    <3>2. CASE j = c + 1
      <4>1. i \in 1 .. c
        BY <2>2, <3>2
      <4> QED
        BY <2>2, <2>3, <3>2, <4>1
    <3>3. CASE j > c + 1 /\ i <= c
      <4>1. /\ i \in 1 .. c /\ j \in c + 2 .. Len(s) + 1
            /\ i \in 1 .. Len(s) /\ j - 1 \in 1 .. Len(s) /\ i < j - 1
        BY <1>0, <2>2, <2>3, <3>3
      <4> QED
        BY <1>o, <2>3, <4>1
    <3>4. CASE j > c + 1 /\ i = c + 1
      <4>1. j \in c + 2 .. Len(s) + 1 /\ j - 1 \in c + 1 .. Len(s) /\ j - 1 \in 1 .. Len(s)
        BY <1>0, <2>2, <2>3, <3>4
      <4> QED
        BY <1>0, <2>2, <2>3, <3>4, <4>1
    <3>5. CASE j > c + 1 /\ i > c + 1
      <4>1. /\ i \in c + 2 .. Len(s) + 1 /\ j \in c + 2 .. Len(s) + 1
            /\ i - 1 \in 1 .. Len(s) /\ j - 1 \in 1 .. Len(s) /\ i - 1 < j - 1
        BY <1>0, <2>2, <2>3, <3>5
      <4> QED
        BY <1>o, <2>3, <4>1
    <3> QED
      BY <2>2, <3>1, <3>2, <3>3, <3>4, <3>5
  <2>5. \A j \in 1 .. Len(s) : s[j].key # k
    BY <1>0, <2>2
  <2> HIDE DEF k
  <2>6. ToSet(t) = {y \in ToSet(s) : y.key # k} \cup {x}
    <3>1. ASSUME NEW i \in 1 .. Len(t) PROVE t[i] \in {z \in ToSet(s) : z.key # k} \cup {x}
      <4>1. i \in 1 .. c \/ i = c + 1 \/ i \in c + 2 .. Len(s) + 1
        BY <1>0, <2>2, <2>3
      <4>2. i \in 1 .. c => i \in 1 .. Len(s)
        BY <1>0, <2>2
      <4>3. i \in c + 2 .. Len(s) + 1 => i - 1 \in 1 .. Len(s)
        BY <1>0, <2>2
      <4> QED
        BY <1>s, <2>3, <2>5, <4>1, <4>2, <4>3
    <3>2. x \in ToSet(t)
      <4>1. c + 1 \in 1 .. Len(t)
        BY <1>0, <2>2, <2>3
      <4> QED
        BY <1>s, <2>3, <4>1
    <3>3. ASSUME NEW i \in 1 .. Len(s) PROVE s[i] \in ToSet(t)
      <4>1. CASE i <= c
        <5>1. i \in 1 .. c /\ i \in 1 .. Len(t)
          BY <1>0, <2>2, <2>3, <4>1
        <5> QED
          BY <1>s, <2>3, <5>1
      <4>2. CASE i > c
        <5>1. i + 1 \in c + 2 .. Len(s) + 1 /\ i + 1 \in 1 .. Len(t) /\ (i + 1) - 1 = i
          BY <1>0, <2>2, <2>3, <4>2
        <5> QED
          BY <1>s, <2>3, <5>1
      <4> QED
        BY <2>2, <4>1, <4>2
    <3> QED
      BY <1>s, <3>1, <3>2, <3>3
  <2> QED
    BY <1>t, <2>4, <2>6 DEF t, k
<1> QED
  BY <1>1, <1>2, <1>3

\* Node::del on an ordered list: the element with the key is gone.
LEMMA DelOrdered ==
  ASSUME NEW S, Elements(S), NEW s \in Seq(S), Ordered(s), NEW k \in Int
  PROVE  LET t == del(s, k)
         IN  t \in Seq(S) /\ Ordered(t) /\ ToSet(t) = {y \in ToSet(s) : y.key # k}
<1> DEFINE at == binarySearch(s, k)
           t == del(s, k)
<1>0. Len(s) \in Nat /\ \A i \in 1 .. Len(s) : s[i] \in S /\ s[i].key \in Int
  BY DEF Elements
<1>1. /\ at.index \in 0 .. Len(s) /\ at.found \in BOOLEAN
      /\ at.found => at.index < Len(s) /\ s[at.index + 1].key = k
      /\ ~at.found => /\ \A i \in 1 .. at.index : s[i].key < k
                      /\ \A i \in at.index + 1 .. Len(s) : s[i].key > k
  BY SearchFacts
<1>o. \A i, j \in 1 .. Len(s) : i < j => s[i].key < s[j].key
  BY DEF Ordered
<1>2. CASE at.found
  <2> DEFINE c == at.index
  <2>1. t = RemoveAt(s, c + 1)
    BY <1>2 DEF del
  <2>2. c \in 0 .. Len(s) - 1 /\ c + 1 \in 1 .. Len(s) /\ s[c + 1].key = k
    BY <1>0, <1>1, <1>2
  <2> HIDE DEF at, t, c
  <2>3. t \in Seq(S) /\ Removed(t, s, c)
    BY <2>1, <2>2, RemoveFacts
  <2>4. /\ Len(t) = Len(s) - 1
        /\ \A j \in 1 .. c : t[j] = s[j]
        /\ \A j \in c + 1 .. Len(s) - 1 : t[j] = s[j + 1]
    BY <2>3 DEF Removed
  <2>s. ToSet(s) = {s[i] : i \in 1 .. Len(s)} /\ ToSet(t) = {t[i] : i \in 1 .. Len(t)}
    BY <2>3, ToSetFacts
  <2>5. Ordered(t)
    <3> SUFFICES ASSUME NEW i \in 1 .. Len(t), NEW j \in 1 .. Len(t), i < j
                 PROVE  t[i].key < t[j].key
      BY DEF Ordered
    <3>1. CASE j <= c
      <4>1. i \in 1 .. c /\ j \in 1 .. c /\ i \in 1 .. Len(s) /\ j \in 1 .. Len(s)
        BY <1>0, <2>2, <3>1
      <4> QED
        BY <1>o, <2>4, <4>1
    <3>2. CASE j > c /\ i <= c
      <4>1. /\ i \in 1 .. c /\ j \in c + 1 .. Len(s) - 1
            /\ i \in 1 .. Len(s) /\ j + 1 \in 1 .. Len(s) /\ i < j + 1
        BY <1>0, <2>2, <2>4, <3>2
      <4> QED
        BY <1>o, <2>4, <4>1
    <3>3. CASE j > c /\ i > c
      <4>1. /\ i \in c + 1 .. Len(s) - 1 /\ j \in c + 1 .. Len(s) - 1
            /\ i + 1 \in 1 .. Len(s) /\ j + 1 \in 1 .. Len(s) /\ i + 1 < j + 1
        BY <1>0, <2>2, <2>4, <3>3
      <4> QED
        BY <1>o, <2>4, <4>1
    <3> QED
      BY <2>2, <3>1, <3>2, <3>3
  <2>6. \A j \in 1 .. Len(s) : j # c + 1 => s[j].key # k
    BY <1>0, <1>o, <2>2
  <2>7. ToSet(t) = {y \in ToSet(s) : y.key # k}
    <3>1. ASSUME NEW i \in 1 .. Len(t) PROVE t[i] \in {z \in ToSet(s) : z.key # k}
      <4>1. CASE i <= c
        <5>1. i \in 1 .. c /\ i \in 1 .. Len(s) /\ i # c + 1
          BY <1>0, <2>2, <4>1
        <5> QED
          BY <2>s, <2>4, <2>6, <5>1
      <4>2. CASE i > c
        <5>1. i \in c + 1 .. Len(s) - 1 /\ i + 1 \in 1 .. Len(s) /\ i + 1 # c + 1
          BY <1>0, <2>2, <2>4, <4>2
        <5> QED
          BY <2>s, <2>4, <2>6, <5>1
      <4> QED
        BY <2>2, <4>1, <4>2
    <3>2. ASSUME NEW i \in 1 .. Len(s), s[i].key # k PROVE s[i] \in ToSet(t)
      <4>1. CASE i <= c
        <5>1. i \in 1 .. c /\ i \in 1 .. Len(t)
          BY <1>0, <2>2, <2>4, <4>1
        <5> QED
          BY <2>s, <2>4, <5>1
      <4>2. CASE i > c
        <5>0. i # c + 1
          BY <2>2, <3>2
        <5>1. i - 1 \in c + 1 .. Len(s) - 1 /\ i - 1 \in 1 .. Len(t) /\ (i - 1) + 1 = i
          BY <1>0, <2>2, <2>4, <4>2, <5>0
        <5> QED
          BY <2>s, <2>4, <5>1
      <4> QED
        BY <2>2, <4>1, <4>2
    <3> QED
      BY <2>s, <3>1, <3>2
  <2> QED
    BY <2>3, <2>5, <2>7 DEF t
<1>3. CASE ~at.found
  <2>1. t = s
    BY <1>3 DEF del
  <2>2. \A j \in 1 .. Len(s) : s[j].key # k
    BY <1>0, <1>1, <1>3
  <2>s. ToSet(s) = {s[i] : i \in 1 .. Len(s)}
    BY ToSetFacts
  <2> HIDE DEF at, t
  <2>3. ToSet(s) = {y \in ToSet(s) : y.key # k}
    BY <2>2, <2>s
  <2> QED
    BY <2>1, <2>3 DEF t
<1> QED
  BY <1>1, <1>2, <1>3

\* An ordered list has one element per key.
LEMMA KeysDiffer ==
  ASSUME NEW S, Elements(S), NEW s \in Seq(S), Ordered(s),
         NEW x \in ToSet(s), NEW y \in ToSet(s), x.key = y.key
  PROVE  x = y
<1>0. Len(s) \in Nat /\ \A i \in 1 .. Len(s) : s[i].key \in Int
  BY DEF Elements
<1>1. ToSet(s) = {s[i] : i \in 1 .. Len(s)}
  BY ToSetFacts
<1>2. PICK i \in 1 .. Len(s) : x = s[i]
  BY <1>1
<1>3. PICK j \in 1 .. Len(s) : y = s[j]
  BY <1>1
<1>4. ~(i < j) /\ ~(j < i)
  BY <1>0, <1>2, <1>3 DEF Ordered
<1> QED
  BY <1>0, <1>2, <1>3, <1>4

\* A search finds the element with the key if there is one.
LEMMA SearchOrdered ==
  ASSUME NEW S, Elements(S), NEW s \in Seq(S), Ordered(s), NEW k \in Int
  PROVE  LET at == binarySearch(s, k)
         IN  /\ at.found \in BOOLEAN
             /\ at.found <=> \E x \in ToSet(s) : x.key = k
             /\ at.found => s[at.index + 1] \in ToSet(s) /\ s[at.index + 1].key = k
<1> DEFINE at == binarySearch(s, k)
<1>0. Len(s) \in Nat /\ \A i \in 1 .. Len(s) : s[i] \in S /\ s[i].key \in Int
  BY DEF Elements
<1>1. /\ at.index \in 0 .. Len(s) /\ at.found \in BOOLEAN
      /\ at.found => at.index < Len(s) /\ s[at.index + 1].key = k
      /\ ~at.found => /\ \A i \in 1 .. at.index : s[i].key < k
                      /\ \A i \in at.index + 1 .. Len(s) : s[i].key > k
  BY SearchFacts
<1>s. ToSet(s) = {s[i] : i \in 1 .. Len(s)}
  BY ToSetFacts
<1> HIDE DEF at
<1>2. at.found => s[at.index + 1] \in ToSet(s) /\ s[at.index + 1].key = k
  BY <1>0, <1>1, <1>s
<1>3. ~at.found => \A i \in 1 .. Len(s) : s[i].key # k
  BY <1>0, <1>1
<1> QED
  BY <1>1, <1>2, <1>3, <1>s DEF at

---------------------------------------------------------------------------
(* Sizes.                                                                  *)

Sized(S) == \A x \in S : x.value.len \in Nat

\* The loop of Node::size, step by step.
Sums(g, s) ==
  g[0] = PAGEHEADERSIZE /\ \A k \in 1 .. Len(s) : g[k] = g[k - 1] + ElementLen(s[k])

\* Node::size adds up the elements, one after the other.
LEMMA SizeLoop ==
  ASSUME NEW S, Sized(S), NEW s \in Seq(S)
  PROVE  \E g \in [0 .. Len(s) -> Nat] : Sums(g, s) /\ size(s) = g[Len(s)]
<1> DEFINE N == Len(s)
           q(k) == ElementLen(s[k])
           G(h) == [k \in 0 .. N |-> IF k = 0 THEN PAGEHEADERSIZE ELSE h[k - 1] + q(k)]
           g == CHOOSE h : h = G(h)
           F == [x \in Nat \X (1 .. N) |-> x[1] + q(x[2])]
<1>1. N \in Nat /\ PAGEHEADERSIZE \in Nat /\ \A k \in 1 .. N : q(k) \in Nat
  BY DEF Sized, ElementLen, PAGEHEADERSIZE, pageElementSize, KeyLength
<1>2. size(s) = g[N]
  BY DEF size
<1> HIDE DEF N, q
<1>3. F \in [Nat \X (1 .. N) -> Nat] /\ \A a \in Nat, k \in 1 .. N : F[<<a, k>>] = a + q(k)
  <2>1. \A a \in Nat, k \in 1 .. N : a + q(k) \in Nat
    BY <1>1
  <2> QED
    BY <2>1
<1>4. PICK f \in [0 .. N -> Nat] :
        f[0] = PAGEHEADERSIZE /\ \A k \in 1 .. N : f[k] = F[<<f[k - 1], k>>]
  <2> HIDE DEF F
  <2>1. LoopBody(Nat, N, PAGEHEADERSIZE, F)
    BY <1>1, <1>3 DEF LoopBody
  <2> QED
    BY <2>1, LoopExists
<1> HIDE DEF F
<1>5. f = G(f)
  <2>1. \A k \in 1 .. N : f[k] = f[k - 1] + q(k)
    <3>1. \A k \in 1 .. N : k - 1 \in 0 .. N
      BY <1>1
    <3> QED
      BY <1>3, <1>4, <3>1
  <2>2. \A k \in 0 .. N : k = 0 \/ k \in 1 .. N
    BY <1>1
  <2> QED
    BY <1>4, <2>1, <2>2
<1>6. g = G(g)
  <2> HIDE DEF G
  <2> QED
    BY <1>5
<1> HIDE DEF g
<1>7. g[0] = PAGEHEADERSIZE /\ \A k \in 1 .. N : g[k] = g[k - 1] + q(k)
  <2>1. 0 \in 0 .. N /\ \A k \in 1 .. N : k \in 0 .. N /\ k # 0
    BY <1>1
  <2> QED
    BY <1>6, <2>1
<1>8. g \in [0 .. N -> Nat]
  <2> DEFINE J == [k \in 0 .. N |-> Nat]
  <2>1. \A k \in 0 .. N : g[k] \in J[k]
    <3>1. g[0] \in J[0]
      BY <1>1, <1>7
    <3>2. \A k \in 1 .. N : g[k - 1] \in J[k - 1] => g[k] \in J[k]
      <4> SUFFICES ASSUME NEW k \in 1 .. N, g[k - 1] \in J[k - 1] PROVE g[k] \in J[k]
        OBVIOUS
      <4>1. k - 1 \in 0 .. N /\ k \in 0 .. N
        BY <1>1
      <4>2. g[k - 1] \in Nat /\ q(k) \in Nat
        BY <1>1, <4>1
      <4> QED
        BY <1>7, <4>1, <4>2
    <3> HIDE DEF J
    <3> QED
      BY <1>1, <3>1, <3>2, Along
  <2>2. \A k \in 0 .. N : g[k] \in Nat
    BY <2>1
  <2>3. g = [k \in 0 .. N |-> g[k]]
    BY <1>6
  <2> QED
    BY <2>2, <2>3
<1> QED
  BY <1>2, <1>7, <1>8 DEF N, q, Sums

\* Node::size is a number; that of an empty list is the page header's.
LEMMA SizeFacts ==
  ASSUME NEW S, Sized(S), NEW s \in Seq(S)
  PROVE  size(s) \in Nat /\ (s = <<>> => size(s) = PAGEHEADERSIZE)
<1>1. PICK g \in [0 .. Len(s) -> Nat] : Sums(g, s) /\ size(s) = g[Len(s)]
  BY SizeLoop
<1>2. Len(s) \in Nat /\ Len(s) \in 0 .. Len(s) /\ (s = <<>> => Len(s) = 0)
  OBVIOUS
<1> QED
  BY <1>1, <1>2 DEF Sums

---------------------------------------------------------------------------
(* Splitting.                                                              *)

\* Node::splitIndex leaves MINKEYSPERPAGE on either side.
LEMMA SplitIndexFacts ==
  ASSUME NEW S, NEW s \in Seq(S), ~Fits(s), NEW t
  PROVE  splitIndex(s, t) \in 2 .. Len(s) - 3
<1> DEFINE last == Len(s) - MINKEYSPERPAGE - 1
           full == {i \in MINKEYSPERPAGE .. last : size(SubSeq(s, 1, i + 1)) > t}
<1>1. Len(s) \in Nat /\ Len(s) > 4
  BY DEF Fits, MINKEYSPERPAGE
<1>2. last = Len(s) - 3 /\ last \in 2 .. Len(s) - 3
  BY <1>1 DEF MINKEYSPERPAGE
<1>3. full \in SUBSET Nat /\ full \subseteq 2 .. Len(s) - 3
  BY <1>1, <1>2 DEF MINKEYSPERPAGE
<1>4. splitIndex(s, t) = IF full = {} THEN last ELSE Min(full)
  BY DEF splitIndex
<1> HIDE DEF full, last
<1>5. ASSUME full # {} PROVE Min(full) \in full
  <2>1. \E x \in full : \A y \in full : x <= y
    BY <1>3, <1>5, Least
  <2> QED
    BY <2>1 DEF Min
<1> QED
  BY <1>2, <1>3, <1>4, <1>5

\* What is left when i elements are in pages, and how many go into the next.
Rest(s, i) == SubSeq(s, i + 1, Len(s))
Cut(s, i) == splitIndex(Rest(s, i), PageSize \div 2)

\* The rest is the end of the list.
LEMMA RestFacts ==
  ASSUME NEW S, NEW s \in Seq(S), NEW i \in 0 .. Len(s)
  PROVE  /\ Rest(s, i) \in Seq(S) /\ Len(Rest(s, i)) = Len(s) - i
         /\ \A j \in 1 .. Len(s) - i : Rest(s, i)[j] = s[i + j]
         /\ ~Fits(Rest(s, i)) => Cut(s, i) \in 2 .. Len(s) - i - 3
<1>0. Len(s) \in Nat /\ i \in Nat /\ i <= Len(s) /\ \A j \in 1 .. Len(s) : s[j] \in S
  OBVIOUS
<1>1. /\ Rest(s, i) \in Seq(S) /\ Len(Rest(s, i)) = Len(s) - i
      /\ \A j \in 1 .. Len(s) - i : Rest(s, i)[j] = s[i + j]
  BY <1>0, SubSeqProperties DEF Rest
<1> QED
  BY <1>1, SplitIndexFacts DEF Cut

\* The loop of Node::split, step by step.
Splits(f, s) ==
  \A i \in 0 .. Len(s) :
    f[i] = IF Fits(Rest(s, i)) THEN <<Rest(s, i)>>
           ELSE <<SubSeq(Rest(s, i), 1, Cut(s, i))>> \o f[i + Cut(s, i)]

\* Node::split goes on with the rest until it fits.
LEMMA SplitLoop ==
  ASSUME NEW S, NEW s \in Seq(S)
  PROVE  \E f : split(s) = f[0] /\ Splits(f, s)
<1> DEFINE n == Len(s)
           D == 0 .. n
           A == Seq(Seq(S))
           c(i) == SubSeq(Rest(s, i), 1, Cut(s, i))
           B(f, i) == IF Fits(Rest(s, i)) THEN <<Rest(s, i)>> ELSE <<c(i)>> \o f[i + Cut(s, i)]
           G(h) == [i \in D |-> B(h, i)]
           g == CHOOSE h : h = G(h)
           Step == [x \in [D -> A] \X D |-> B(x[1], x[2])]
           rank == [i \in D |-> n - i]
<1>1. n \in Nat /\ <<>> \in A
  OBVIOUS
<1>2. split(s) = g[0]
  BY DEF split, Rest, Cut
<1>3. \A i \in D : /\ <<Rest(s, i)>> \in A
                   /\ ~Fits(Rest(s, i)) => /\ i + Cut(s, i) \in D /\ <<c(i)>> \in A
                                           /\ rank[i + Cut(s, i)] < rank[i]
  <2> SUFFICES ASSUME NEW i \in D
               PROVE  /\ <<Rest(s, i)>> \in A
                      /\ ~Fits(Rest(s, i)) => /\ i + Cut(s, i) \in D /\ <<c(i)>> \in A
                                              /\ rank[i + Cut(s, i)] < rank[i]
    OBVIOUS
  <2>1. /\ Rest(s, i) \in Seq(S) /\ Len(Rest(s, i)) = n - i
        /\ ~Fits(Rest(s, i)) => Cut(s, i) \in 2 .. n - i - 3
    BY RestFacts
  <2>2. <<Rest(s, i)>> \in A
    BY <2>1
  <2>3. ASSUME ~Fits(Rest(s, i))
        PROVE  i + Cut(s, i) \in D /\ <<c(i)>> \in A /\ rank[i + Cut(s, i)] < rank[i]
    <3>1. i + Cut(s, i) \in D /\ Cut(s, i) \in 0 .. n - i /\ i < i + Cut(s, i)
      BY <1>1, <2>1, <2>3
    <3>2. c(i) \in Seq(S)
      BY <2>1, <3>1, SubSeqProperties
    <3> QED
      BY <1>1, <3>1, <3>2
  <2> QED
    BY <2>2, <2>3
<1> HIDE DEF n, c
<1>4. ASSUME NEW f \in [D -> A], NEW i \in D PROVE B(f, i) \in A
  <2>1. ASSUME ~Fits(Rest(s, i)) PROVE <<c(i)>> \o f[i + Cut(s, i)] \in A
    <3>1. f[i + Cut(s, i)] \in A /\ <<c(i)>> \in A
      <4> HIDE DEF A, D
      <4> QED
        BY <1>3, <2>1
    <3> QED
      BY <3>1
  <2> HIDE DEF A
  <2> QED
    BY <1>3, <2>1
<1>5. ASSUME NEW f \in [D -> A], NEW h \in [D -> A], NEW i \in D,
             \A q \in D : rank[q] < rank[i] => f[q] = h[q]
      PROVE  B(f, i) = B(h, i)
  <2> HIDE DEF D, A, rank
  <2> QED
    BY <1>3, <1>5
<1>6. rank \in [D -> 0 .. n]
  BY <1>1
<1>7. PICK f \in [D -> A] : \A i \in D : f[i] = Step[<<f, i>>]
  <2> HIDE DEF D, A, B
  <2>1. Step \in [[D -> A] \X D -> A]
    BY <1>4
  <2>2. \A h1, h2 \in [D -> A], i \in D :
          (\A q \in D : rank[q] < rank[i] => h1[q] = h2[q]) => Step[<<h1, i>>] = Step[<<h2, i>>]
    BY <1>5
  <2> HIDE DEF Step, rank
  <2>3. Recursive(D, A, n, rank, <<>>, Step)
    BY <1>1, <1>6, <2>1, <2>2 DEF Recursive
  <2> QED
    BY <2>3, Recursion
<1>8. f = G(f)
  <2> HIDE DEF D, A, B
  <2> QED
    BY <1>7
<1>9. g = G(g)
  <2> HIDE DEF G
  <2> QED
    BY <1>8
<1> HIDE DEF g
<1>10. \A i \in 0 .. Len(s) : g[i] = B(g, i)
  <2> HIDE DEF B
  <2> QED
    BY <1>9 DEF n
<1>11. Splits(g, s)
  BY <1>10, Zenon DEF Splits, c
<1> QED
  BY <1>2, <1>11

\* The lists ps hold what list r holds, in order, and none is empty for
\* nothing.
Pieces(ps, r, S) ==
  /\ ps \in Seq(Seq(S)) /\ Len(ps) \in 1 .. Len(r) + 1
  /\ \A i \in 1 .. Len(ps) :
       /\ ToSet(ps[i]) \subseteq ToSet(r)
       /\ Ordered(r) => Ordered(ps[i])
       /\ r # <<>> => ps[i] # <<>>
  /\ \A x \in ToSet(r) : \E i \in 1 .. Len(ps) : x \in ToSet(ps[i])

\* A list is its only piece.
LEMMA OnePiece ==
  ASSUME NEW S, NEW r \in Seq(S)
  PROVE  Pieces(<<r>>, r, S)
<1>1. <<r>> \in Seq(Seq(S)) /\ Len(<<r>>) = 1 /\ <<r>>[1] = r
  OBVIOUS
<1>2. \A i \in 1 .. 1 : i = 1
  OBVIOUS
<1>3. 1 \in 1 .. Len(r) + 1 /\ 1 \in 1 .. 1
  OBVIOUS
<1> DEFINE p == <<r>>
<1> HIDE DEF p
<1> QED
  BY <1>1, <1>2, <1>3 DEF Pieces, p

\* A first piece and the pieces of the rest.
LEMMA PieceAndRest ==
  ASSUME NEW S, NEW r \in Seq(S), NEW k \in 1 .. Len(r) - 1,
         NEW a, a = SubSeq(r, 1, k), NEW b, b = SubSeq(r, k + 1, Len(r)),
         NEW ps, Pieces(ps, b, S)
  PROVE  Pieces(<<a>> \o ps, r, S)
<1> DEFINE q == <<a>> \o ps
<1>0. Len(r) \in Nat /\ k \in Nat /\ 1 <= k /\ k < Len(r) /\ \A j \in 1 .. Len(r) : r[j] \in S
  OBVIOUS
<1>1. a \in Seq(S) /\ Len(a) = k /\ \A j \in 1 .. k : a[j] = r[j]
  BY <1>0, SubSeqProperties
<1>2. /\ b \in Seq(S) /\ Len(b) = Len(r) - k
      /\ \A j \in 1 .. Len(r) - k : b[j] = r[k + j]
  BY <1>0, SubSeqProperties
<1>3. /\ ps \in Seq(Seq(S)) /\ Len(ps) \in 1 .. Len(b) + 1
      /\ <<a>> \in Seq(Seq(S)) /\ Len(<<a>>) = 1 /\ <<a>>[1] = a
  BY <1>1 DEF Pieces
<1>4. /\ q \in Seq(Seq(S)) /\ Len(q) = 1 + Len(ps)
      /\ q[1] = a /\ \A i \in 2 .. Len(ps) + 1 : q[i] = ps[i - 1]
  <2>1. /\ q \in Seq(Seq(S)) /\ Len(q) = Len(<<a>>) + Len(ps)
        /\ \A i \in 1 .. Len(<<a>>) + Len(ps) :
             q[i] = IF i <= Len(<<a>>) THEN <<a>>[i] ELSE ps[i - Len(<<a>>)]
    BY <1>3, ConcatProperties
  <2>2. Len(ps) \in Nat
    BY <1>3
  <2> HIDE DEF q
  <2> QED
    BY <1>3, <2>1, <2>2
<1> HIDE DEF q
<1>s. /\ ToSet(r) = {r[i] : i \in 1 .. Len(r)} /\ ToSet(a) = {a[i] : i \in 1 .. Len(a)}
      /\ ToSet(b) = {b[i] : i \in 1 .. Len(b)}
  <2>1. r \in Seq(S) /\ a \in Seq(S) /\ b \in Seq(S)
    BY <1>1, <1>2
  <2>2. \A t \in Seq(S) : ToSet(t) = {t[i] : i \in 1 .. Len(t)}
    BY ToSetFacts
  <2> QED
    BY <2>1, <2>2, Zenon
<1>5. ToSet(a) \subseteq ToSet(r)
  BY <1>0, <1>1, <1>s
<1>6. ToSet(b) \subseteq ToSet(r)
  <2> SUFFICES ASSUME NEW j \in 1 .. Len(b) PROVE b[j] \in ToSet(r)
    BY <1>s
  <2>1. j \in 1 .. Len(r) - k /\ k + j \in 1 .. Len(r)
    BY <1>0, <1>2
  <2> QED
    BY <1>2, <1>s, <2>1
<1>7. ASSUME Ordered(r) PROVE Ordered(a) /\ Ordered(b)
  <2>1. Ordered(a)
    <3> SUFFICES ASSUME NEW i \in 1 .. Len(a), NEW j \in 1 .. Len(a), i < j
                 PROVE  a[i].key < a[j].key
      BY DEF Ordered
    <3>1. i \in 1 .. Len(r) /\ j \in 1 .. Len(r)
      BY <1>0, <1>1
    <3> QED
      BY <1>1, <1>7, <3>1 DEF Ordered
  <2>2. Ordered(b)
    <3> SUFFICES ASSUME NEW i \in 1 .. Len(b), NEW j \in 1 .. Len(b), i < j
                 PROVE  b[i].key < b[j].key
      BY DEF Ordered
    <3>1. /\ i \in 1 .. Len(r) - k /\ j \in 1 .. Len(r) - k
          /\ k + i \in 1 .. Len(r) /\ k + j \in 1 .. Len(r) /\ k + i < k + j
      BY <1>0, <1>2
    <3> QED
      BY <1>2, <1>7, <3>1 DEF Ordered
  <2> QED
    BY <2>1, <2>2
<1>8. a # <<>> /\ b # <<>>
  <2>a. Len(a) = k /\ Len(b) = Len(r) - k /\ k # 0 /\ Len(r) - k # 0
    <3>1. k # 0 /\ Len(r) - k # 0
      BY <1>0
    <3> QED
      BY <1>1, <1>2, <3>1, Zenon
  <2>1. Len(a) # 0 /\ Len(b) # 0
    BY <2>a, Zenon
  <2>2. Len(<<>>) = 0
    OBVIOUS
  <2> QED
    BY <2>1, <2>2
<1>9. ASSUME NEW i \in 1 .. Len(q)
      PROVE  /\ ToSet(q[i]) \subseteq ToSet(r)
             /\ Ordered(r) => Ordered(q[i])
             /\ q[i] # <<>>
  <2>1. CASE i = 1
    BY <1>4, <1>5, <1>7, <1>8, <2>1
  <2>2. CASE i # 1
    <3>1. i \in 2 .. Len(ps) + 1 /\ i - 1 \in 1 .. Len(ps)
      BY <1>3, <1>4, <2>2
    <3>2. /\ ToSet(ps[i - 1]) \subseteq ToSet(b)
          /\ Ordered(b) => Ordered(ps[i - 1])
          /\ ps[i - 1] # <<>>
      BY <1>8, <3>1 DEF Pieces
    <3> QED
      BY <1>4, <1>6, <1>7, <3>1, <3>2
  <2> QED
    BY <2>1, <2>2
<1>10. ASSUME NEW x \in ToSet(r) PROVE \E i \in 1 .. Len(q) : x \in ToSet(q[i])
  <2>1. PICK j \in 1 .. Len(r) : x = r[j]
    BY <1>s
  <2>2. CASE j <= k
    <3>1. j \in 1 .. k /\ x \in ToSet(a) /\ 1 \in 1 .. Len(q)
      BY <1>0, <1>1, <1>3, <1>4, <1>s, <2>1, <2>2
    <3> QED
      BY <1>4, <3>1
  <2>3. CASE j > k
    <3>1. j - k \in 1 .. Len(r) - k /\ k + (j - k) = j
      BY <1>0, <2>3
    <3>2. x \in ToSet(b)
      BY <1>2, <1>s, <2>1, <3>1
    <3>3. PICK i \in 1 .. Len(ps) : x \in ToSet(ps[i])
      BY <3>2 DEF Pieces
    <3>4. i + 1 \in 2 .. Len(ps) + 1 /\ (i + 1) - 1 = i /\ i + 1 \in 1 .. Len(q)
      BY <1>3, <1>4
    <3> QED
      BY <1>4, <3>3, <3>4
  <2> QED
    BY <1>0, <2>2, <2>3
<1>11. Len(q) \in 1 .. Len(r) + 1
  BY <1>0, <1>2, <1>3, <1>4
<1> QED
  BY <1>4, <1>9, <1>10, <1>11 DEF Pieces, q

\* Node::split cuts the list into pieces, and leaves alone one that fits.
LEMMA SplitFacts ==
  ASSUME NEW S, NEW s \in Seq(S)
  PROVE  Pieces(split(s), s, S) /\ (Fits(s) => split(s) = <<s>>)
<1>1. PICK f : split(s) = f[0] /\ Splits(f, s)
  BY SplitLoop
<1> DEFINE n == Len(s)
           D == 0 .. n
           rank == [i \in D |-> n - i]
           Q == {i \in D : Pieces(f[i], Rest(s, i), S)}
<1>0. n \in Nat /\ \A j \in 1 .. n : s[j] \in S
  OBVIOUS
<1> HIDE DEF n
<1>2. ASSUME NEW i \in D, \A q \in D : rank[q] < rank[i] => q \in Q PROVE i \in Q
  <2> DEFINE r == Rest(s, i)
             k == Cut(s, i)
  <2>1. /\ r \in Seq(S) /\ Len(r) = n - i /\ \A j \in 1 .. n - i : r[j] = s[i + j]
        /\ ~Fits(r) => k \in 2 .. n - i - 3
    BY RestFacts DEF n
  <2>2. f[i] = IF Fits(r) THEN <<r>> ELSE <<SubSeq(r, 1, k)>> \o f[i + k]
    BY <1>1 DEF Splits, n
  <2>3. CASE Fits(r)
    BY <2>1, <2>2, <2>3, OnePiece
  <2>4. CASE ~Fits(r)
    <3> HIDE DEF r, k
    <3>0. k \in 2 .. n - i - 3 /\ Len(r) = n - i
      BY <2>1, <2>4
    <3>1. /\ k \in 1 .. Len(r) - 1 /\ i + k \in D /\ k \in 0 .. n - i
          /\ rank[i + k] < rank[i]
      BY <1>0, <3>0
    <3>2. Pieces(f[i + k], Rest(s, i + k), S)
      <4> HIDE DEF D, rank
      <4> QED
        BY <1>2, <3>1
    <3> DEFINE b == SubSeq(r, k + 1, Len(r))
    <3>3. b = Rest(s, i + k)
      <4>1. /\ b \in Seq(S) /\ Len(b) = n - i - k
            /\ \A j \in 1 .. n - i - k : b[j] = r[k + j]
        BY <1>0, <2>1, <3>1, SubSeqProperties
      <4>2. /\ Rest(s, i + k) \in Seq(S) /\ Len(Rest(s, i + k)) = n - (i + k)
            /\ \A j \in 1 .. n - (i + k) : Rest(s, i + k)[j] = s[(i + k) + j]
        BY <3>1, RestFacts DEF n
      <4>3. ASSUME NEW j \in 1 .. n - i - k PROVE b[j] = Rest(s, i + k)[j]
        <5>1. k + j \in 1 .. n - i /\ i + (k + j) = (i + k) + j /\ j \in 1 .. n - (i + k)
          BY <1>0, <3>1
        <5> QED
          BY <2>1, <4>1, <4>2, <5>1
      <4>4. n - i - k = n - (i + k)
        BY <1>0, <3>1
      <4> HIDE DEF b
      <4> QED
        BY <4>1, <4>2, <4>3, <4>4, SeqEqual
    <3> DEFINE a == SubSeq(r, 1, k)
    <3>4. Pieces(f[i + k], b, S)
      BY <3>2, <3>3
    <3>5. Pieces(<<a>> \o f[i + k], r, S)
      BY <2>1, <3>1, <3>4, PieceAndRest
    <3>6. f[i] = <<a>> \o f[i + k]
      BY <2>2, <2>4
    <3> QED
      BY <3>5, <3>6 DEF r
  <2> QED
    BY <2>3, <2>4
<1>3. 0 \in Q
  <2>1. rank \in [D -> Nat]
    BY <1>0
  <2>2. 0 \in D
    BY <1>0
  <2> HIDE DEF D, rank, Q
  <2>3. Progress(D, rank, Q)
    BY <1>2, <2>1 DEF Progress
  <2> QED
    BY <2>2, <2>3, RankInduction
<1>4. Rest(s, 0) = s
  BY SubSeqFull DEF Rest
<1>5. 0 \in 0 .. Len(s)
  BY <1>0 DEF n
<1>6. Fits(s) => f[0] = <<s>>
  BY <1>1, <1>4, <1>5 DEF Splits
<1> QED
  BY <1>1, <1>3, <1>4, <1>6

---------------------------------------------------------------------------
(* The parent of the pieces.                                               *)

\* The list of the new root is not empty, points to pages of the pieces
\* (the branch elements B) only, and is no longer than they are many.
LEMMA ParentFacts ==
  ASSUME NEW B, Elements(B), NEW S, NEW pieces \in Seq(Seq(S)), pieces # <<>>,
         NEW ids, NEW key \in Int, pieces[1][1].key \in Int,
         \A i \in 1 .. Len(pieces) : Branch(pieces[i][1].key, ids[i]) \in B
  PROVE  /\ ParentOf(pieces, ids, key) \in Seq(B)
         /\ ParentOf(pieces, ids, key) # <<>>
         /\ Len(ParentOf(pieces, ids, key)) <= Len(pieces)
<1> DEFINE N == Len(pieces)
           A == Seq(B)
           first == pieces[1][1].key
           old(i) == IF i = 1 /\ key # NoKey THEN key ELSE first
           e(i) == Branch(pieces[i][1].key, ids[i])
           G(h) == [i \in 0 .. N |-> IF i = 0 THEN <<>> ELSE put(h[i - 1], old(i), e(i))]
           g == CHOOSE h : h = G(h)
           F == [x \in A \X (1 .. N) |-> put(x[1], old(x[2]), e(x[2]))]
<1>1. /\ N \in Nat /\ N > 0 /\ <<>> \in A
      /\ \A i \in 1 .. N : old(i) \in Int /\ e(i) \in B
  OBVIOUS
<1>2. ParentOf(pieces, ids, key) = g[N]
  BY DEF ParentOf
<1> HIDE DEF N, old, e
<1>p. \A a \in A, i \in 1 .. N :
        /\ put(a, old(i), e(i)) \in A /\ put(a, old(i), e(i)) # <<>>
        /\ Len(put(a, old(i), e(i))) <= Len(a) + 1
  BY <1>1, PutAny
<1>3. F \in [A \X (1 .. N) -> A] /\ \A a \in A, i \in 1 .. N : F[<<a, i>>] = put(a, old(i), e(i))
  <2> HIDE DEF A
  <2> QED
    BY <1>p
<1>4. PICK f \in [0 .. N -> A] : f[0] = <<>> /\ \A i \in 1 .. N : f[i] = F[<<f[i - 1], i>>]
  <2> HIDE DEF F, A
  <2>1. LoopBody(A, N, <<>>, F)
    BY <1>1, <1>3 DEF LoopBody
  <2> QED
    BY <2>1, LoopExists
<1> HIDE DEF F
<1>5. f = G(f)
  <2>1. \A i \in 1 .. N : f[i] = put(f[i - 1], old(i), e(i))
    <3>1. \A i \in 1 .. N : i - 1 \in 0 .. N
      BY <1>1
    <3> HIDE DEF A
    <3> QED
      BY <1>3, <1>4, <3>1
  <2>2. \A i \in 0 .. N : i = 0 \/ i \in 1 .. N
    BY <1>1
  <2> QED
    BY <1>4, <2>1, <2>2
<1>6. g = G(g)
  <2> HIDE DEF G
  <2> QED
    BY <1>5
<1> HIDE DEF g
<1>7. g[0] = <<>> /\ \A i \in 1 .. N : g[i] = put(g[i - 1], old(i), e(i))
  <2>1. 0 \in 0 .. N /\ \A i \in 1 .. N : i \in 0 .. N /\ i # 0
    BY <1>1
  <2> QED
    BY <1>6, <2>1
<1> DEFINE J == [i \in 0 .. N |-> {a \in A : Len(a) <= i /\ (i # 0 => a # <<>>)}]
<1>8. \A i \in 0 .. N : g[i] \in J[i]
  <2>1. g[0] \in J[0]
    BY <1>1, <1>7
  <2>2. ASSUME NEW i \in 1 .. N, g[i - 1] \in J[i - 1] PROVE g[i] \in J[i]
    <3>1. i - 1 \in 0 .. N /\ i \in 0 .. N
      BY <1>1
    <3>2. g[i - 1] \in A /\ Len(g[i - 1]) <= i - 1
      BY <2>2, <3>1
    <3>3. g[i] \in A /\ g[i] # <<>> /\ Len(g[i]) <= Len(g[i - 1]) + 1
      BY <1>7, <1>p, <3>2
    <3>4. Len(g[i]) \in Nat /\ Len(g[i - 1]) \in Nat
      BY <3>2, <3>3
    <3>5. Len(g[i]) <= i
      BY <3>2, <3>3, <3>4
    <3> HIDE DEF A
    <3> QED
      BY <3>1, <3>3, <3>5
  <2> HIDE DEF J
  <2> QED
    BY <1>1, <2>1, <2>2, Along
<1>9. N \in 0 .. N /\ N # 0
  BY <1>1
<1>10. g[N] \in A /\ Len(g[N]) <= N /\ g[N] # <<>>
  <2> HIDE DEF A
  <2> QED
    BY <1>8, <1>9
<1> QED
  BY <1>2, <1>10 DEF N

---------------------------------------------------------------------------
(* How long a list is.                                                     *)

\* A list of ascending keys below a bound is shorter than the bound.
LEMMA OrderedIsShort ==
  ASSUME NEW m \in Nat, NEW S, \A x \in S : x.key \in 1 .. m, NEW s \in Seq(S), Ordered(s)
  PROVE  Len(s) <= m
<1> DEFINE N == Len(s)
           J == [k \in 0 .. N |-> {a \in Nat : k <= a}]
           g == [k \in 0 .. N |-> IF k = 0 THEN 0 ELSE s[k].key]
<1>0. N \in Nat /\ \A i \in 1 .. N : s[i].key \in 1 .. m
  OBVIOUS
<1>o. \A i, j \in 1 .. N : i < j => s[i].key < s[j].key
  BY DEF Ordered
<1> HIDE DEF N
<1>1. g[0] \in J[0]
  BY <1>0
<1>2. ASSUME NEW k \in 1 .. N, g[k - 1] \in J[k - 1] PROVE g[k] \in J[k]
  <2>1. k - 1 \in 0 .. N /\ k \in 0 .. N /\ k # 0
    BY <1>0
  <2>2. g[k] = s[k].key /\ g[k] \in 1 .. m
    BY <1>0, <2>1
  <2>3. g[k - 1] \in Nat /\ k - 1 <= g[k - 1]
    BY <1>2, <2>1
  <2>4. g[k - 1] < g[k]
    <3>1. CASE k - 1 = 0
      BY <1>0, <2>1, <2>2, <3>1
    <3>2. CASE k - 1 # 0
      <4>1. k - 1 \in 1 .. N /\ k - 1 < k
        BY <1>0, <2>1, <3>2
      <4> QED
        BY <1>o, <2>1, <2>2, <4>1
    <3> QED
      BY <3>1, <3>2
  <2>5. g[k] \in Nat /\ k <= g[k]
    BY <2>2, <2>3, <2>4
  <2> HIDE DEF g
  <2> QED
    BY <2>1, <2>5
<1>3. \A k \in 0 .. N : g[k] \in J[k]
  <2> HIDE DEF g, J
  <2> QED
    BY <1>0, <1>1, <1>2, Along
<1>4. N = 0 \/ (N \in 0 .. N /\ g[N] \in 1 .. m /\ N <= g[N])
  BY <1>0, <1>3
<1> QED
  BY <1>0, <1>4 DEF N

---------------------------------------------------------------------------
(* Paths.                                                                  *)

\* A sequence with an element at its end.
LEMMA AppendParts ==
  ASSUME NEW S, NEW p \in Seq(S), NEW k \in S
  PROVE  /\ Append(p, k) \in Seq(S) /\ Append(p, k) # <<>>
         /\ Len(Append(p, k)) = Len(p) + 1
         /\ Front(Append(p, k)) = p /\ Last(Append(p, k)) = k
<1> DEFINE c == Append(p, k)
<1>1. /\ c \in Seq(S) /\ c # <<>> /\ Len(c) = Len(p) + 1
      /\ \A i \in 1 .. Len(p) : c[i] = p[i]
      /\ c[Len(p) + 1] = k
  BY AppendProperties
<1> HIDE DEF c
<1>2. Len(p) \in Nat
  OBVIOUS
<1>3. Last(c) = k
  BY <1>1 DEF Last
<1>4. Front(c) = SubSeq(c, 1, Len(p))
  BY <1>1, <1>2 DEF Front
<1>5. /\ SubSeq(c, 1, Len(p)) \in Seq(S) /\ Len(SubSeq(c, 1, Len(p))) = Len(p)
      /\ \A i \in 1 .. Len(p) : SubSeq(c, 1, Len(p))[i] = c[i]
  BY <1>1, <1>2
<1>6. Front(c) = p
  <2> DEFINE f == SubSeq(c, 1, Len(p))
  <2>1. \A i \in 1 .. Len(f) : f[i] = p[i]
    BY <1>1, <1>5
  <2> HIDE DEF f
  <2>2. f = p
    BY <1>5, <2>1, SeqEqual DEF f
  <2> QED
    BY <1>4, <2>2 DEF f
<1> QED
  BY <1>1, <1>3, <1>6 DEF c

\* The path of a bucket in a bucket.
LEMMA ChildPath ==
  ASSUME NEW p \in Seq(Names), NEW k \in Names
  PROVE  /\ Append(p, k) \in Seq(Names) /\ Append(p, k) # <<>>
         /\ Len(Append(p, k)) = Len(p) + 1
         /\ Front(Append(p, k)) = p /\ Last(Append(p, k)) = k
  BY AppendParts

\* The path of the bucket a bucket is in.
LEMMA ParentPath ==
  ASSUME NEW p \in Seq(Names), p # <<>>
  PROVE  /\ Front(p) \in Seq(Names) /\ Last(p) \in Names
         /\ Append(Front(p), Last(p)) = p /\ Len(Front(p)) = Len(p) - 1
         /\ Front(p) # p
<1>1. PICK s \in Seq(Names), k \in Names : p = Append(s, k)
  BY SequenceEmptyOrAppend
<1>2. Front(p) = s /\ Last(p) = k /\ Len(p) = Len(s) + 1
  BY <1>1, ChildPath
<1>3. Len(s) \in Nat
  OBVIOUS
<1>4. s # p
  BY <1>2, <1>3
<1> QED
  BY <1>1, <1>2, <1>3, <1>4

---------------------------------------------------------------------------
(* Lists of elements.                                                      *)

\* Keys and names are numbers that an index can count up to.
LEMMA KeyFacts ==
  /\ IndexMod \in Nat /\ IndexMod > 1
  /\ \A k \in Keys : k \in Int /\ k \in Nat /\ k > 0 /\ k < IndexMod - 1
  /\ \A k \in Names : k \in Keys
  BY BucketAssumption DEF NoKey

\* What the bytes of a plain value are.
LEMMA PlainFacts ==
  /\ Elements(PlainInodes) /\ Sized(PlainInodes)
  /\ \A i \in PlainInodes : i.key \in Keys /\ ~IsBucketInode(i)
<1>1. ASSUME NEW i \in PlainInodes
      PROVE  i.key \in Keys /\ i.key \in Int /\ i.value.len \in Nat /\ ~IsBucketInode(i)
  <2>1. /\ i.key \in Keys /\ i.flag = valueLeafFlag
        /\ i.value \in {PlainValue(len) : len \in Lens}
    BY DEF PlainInodes
  <2>2. PICK len \in Lens : i.value = PlainValue(len)
    BY <2>1
  <2>3. i.value.len = len /\ len \in Nat
    BY <2>2, BucketAssumption DEF PlainValue
  <2>4. i.key \in Int
    BY <2>1, KeyFacts
  <2> QED
    BY <2>1, <2>3, <2>4 DEF IsBucketInode, valueLeafFlag, bucketLeafFlag
<1> QED
  BY <1>1 DEF Elements, Sized

\* The empty list is small.
LEMMA EmptyInline == InlineList(<<>>)
  BY DEF InlineList, Ordered, isinlineable

\* The values of inline buckets and of buckets with a page.
LEMMA InlineValueFacts ==
  ASSUME NEW s, InlineList(s)
  PROVE  /\ InlineValue(s).root = 0 /\ InlineValue(s).page = s
         /\ InlineValue(s).len \in Nat
         /\ InlineValue(s).len <= BUCKETHEADERSIZE + InlineMax
         /\ BucketValue(InlineValue(s))
         /\ InlineValue(s) \in [len : Nat, root : PageIds \cup {0}, page : Seq(PlainInodes)]
<1>1. s \in Seq(PlainInodes)
  BY DEF InlineList
<1>2. size(s) \in Nat /\ (s = <<>> => size(s) = PAGEHEADERSIZE)
  BY <1>1, PlainFacts, SizeFacts
<1>3. size(s) <= InlineMax
  BY <1>2, NodeAssumption DEF InlineList, isinlineable, PAGEHEADERSIZE
<1> QED
  BY <1>1, <1>2, <1>3, NodeAssumption DEF InlineValue, BUCKETHEADERSIZE, BucketValue

\* The header of a bucket that has a page.
LEMMA HeaderValueFacts ==
  ASSUME NEW r \in PageIds
  PROVE  /\ HeaderValue(r).root = r /\ HeaderValue(r).page = <<>>
         /\ BucketValue(HeaderValue(r))
         /\ HeaderValue(r) \in [len : Nat, root : PageIds \cup {0}, page : Seq(PlainInodes)]
  BY DEF HeaderValue, BUCKETHEADERSIZE, BucketValue

\* An element of a leaf.
LEMMA LeafFacts ==
  /\ Elements(LeafInodes) /\ Sized(LeafInodes)
  /\ \A i \in LeafInodes :
       /\ i.key \in Keys
       /\ ~IsBucketInode(i) => i \in PlainInodes
       /\ IsBucketInode(i) =>
            /\ i.key \in Names /\ i.value.root \in PageIds \cup {0}
            /\ InlineList(i.value.page) /\ BucketValue(i.value)
            /\ i.value.root = 0 => i.value = InlineValue(i.value.page)
<1>1. ASSUME NEW i \in BucketInodes, BucketValue(i.value)
      PROVE  /\ i.key \in Names /\ i.value.root \in PageIds \cup {0} /\ i.value.len \in Nat
             /\ InlineList(i.value.page) /\ IsBucketInode(i)
             /\ i.value.root = 0 => i.value = InlineValue(i.value.page)
  <2>1. /\ i.key \in Names /\ IsBucketInode(i)
        /\ i.value.root \in PageIds \cup {0} /\ i.value.len \in Nat
    BY DEF BucketInodes, IsBucketInode
  <2>2. CASE i.value.root \in PageIds /\ i.value = HeaderValue(i.value.root)
    <3>1. i.value.page = <<>> /\ i.value.root # 0
      BY <2>2, BucketAssumption DEF HeaderValue
    <3> QED
      BY <2>1, <3>1, EmptyInline
  <2>3. CASE InlineList(i.value.page) /\ i.value = InlineValue(i.value.page)
    BY <2>1, <2>3
  <2> QED
    BY <1>1, <2>2, <2>3 DEF BucketValue
<1>2. ASSUME NEW i \in LeafInodes
      PROVE  i \in PlainInodes \/ (i \in BucketInodes /\ BucketValue(i.value))
  BY DEF LeafInodes
<1>3. \A k \in Names : k \in Keys /\ k \in Int
  BY KeyFacts
<1>4. \A i \in PlainInodes : i.key \in Int /\ i.value.len \in Nat
  BY PlainFacts DEF Elements, Sized
<1> QED
  BY <1>1, <1>2, <1>3, <1>4, PlainFacts DEF Elements, Sized

\* The elements buckets and Put make.
LEMMA MadeFacts ==
  /\ \A k \in Keys, len \in Lens :
       /\ Leaf(k, valueLeafFlag, PlainValue(len)) \in LeafInodes
       /\ ~IsBucketInode(Leaf(k, valueLeafFlag, PlainValue(len)))
       /\ Leaf(k, valueLeafFlag, PlainValue(len)).key = k
  /\ \A k \in Names, v \in [len : Nat, root : PageIds \cup {0}, page : Seq(PlainInodes)] :
       BucketValue(v) =>
         /\ Leaf(k, bucketLeafFlag, v) \in LeafInodes
         /\ IsBucketInode(Leaf(k, bucketLeafFlag, v))
         /\ Leaf(k, bucketLeafFlag, v).key = k /\ Leaf(k, bucketLeafFlag, v).value = v
<1>1. ASSUME NEW k \in Keys, NEW len \in Lens
      PROVE  /\ Leaf(k, valueLeafFlag, PlainValue(len)) \in LeafInodes
             /\ ~IsBucketInode(Leaf(k, valueLeafFlag, PlainValue(len)))
             /\ Leaf(k, valueLeafFlag, PlainValue(len)).key = k
  BY DEF Leaf, LeafInodes, PlainInodes, IsBucketInode, valueLeafFlag, bucketLeafFlag
<1>2. ASSUME NEW k \in Names,
             NEW v \in [len : Nat, root : PageIds \cup {0}, page : Seq(PlainInodes)],
             BucketValue(v)
      PROVE  /\ Leaf(k, bucketLeafFlag, v) \in LeafInodes
             /\ IsBucketInode(Leaf(k, bucketLeafFlag, v))
             /\ Leaf(k, bucketLeafFlag, v).key = k /\ Leaf(k, bucketLeafFlag, v).value = v
  <2> DEFINE e == Leaf(k, bucketLeafFlag, v)
  <2>1. e \in BucketInodes /\ e.key = k /\ e.value = v /\ IsBucketInode(e)
    BY DEF Leaf, BucketInodes, IsBucketInode
  <2> HIDE DEF e
  <2>2. e \in LeafInodes
    BY <1>2, <2>1 DEF LeafInodes
  <2> QED
    BY <2>1, <2>2 DEF e
<1> QED
  BY <1>1, <1>2

\* Lists of leaf elements.
LEMMA ListFacts ==
  ASSUME NEW s, LeafList(s)
  PROVE  /\ s \in Seq(LeafInodes) /\ Ordered(s) /\ ToSet(s) \subseteq LeafInodes
         /\ \A x, y \in ToSet(s) : x.key = y.key => x = y
         /\ Len(s) \in Nat /\ Len(s) < IndexMod - 1
<1>1. s \in Seq(LeafInodes) /\ Ordered(s)
  BY DEF LeafList
<1>2. ToSet(s) \subseteq LeafInodes /\ Len(s) \in Nat
  BY <1>1, ToSetFacts
<1>3. \A x, y \in ToSet(s) : x.key = y.key => x = y
  BY <1>1, LeafFacts, KeysDiffer
<1>4. Len(s) < IndexMod - 1
  <2>0. IndexMod \in Nat /\ IndexMod > 1
    BY KeyFacts
  <2>1. \A x \in LeafInodes : x.key \in Nat /\ x.key > 0 /\ x.key < IndexMod - 1
    BY KeyFacts, LeafFacts
  <2>2. IndexMod - 2 \in Nat /\ \A x \in LeafInodes : x.key \in 1 .. IndexMod - 2
    BY <2>0, <2>1
  <2>3. Len(s) <= IndexMod - 2
    BY <1>1, <2>2, OrderedIsShort
  <2> QED
    BY <1>2, <2>0, <2>3
<1> QED
  BY <1>1, <1>2, <1>3, <1>4

\* The page of an inline bucket is a list without buckets.
LEMMA InlineFacts ==
  ASSUME NEW s, InlineList(s)
  PROVE  LeafList(s) /\ BucketsIn(ToSet(s)) = {} /\ ToSet(s) \subseteq PlainInodes
<1>1. s \in Seq(PlainInodes) /\ Ordered(s)
  BY DEF InlineList
<1>2. ToSet(s) \subseteq PlainInodes
  BY <1>1, ToSetFacts
<1>3. PlainInodes \subseteq LeafInodes
  BY DEF LeafInodes
<1>4. s \in Seq(LeafInodes)
  BY <1>1, <1>3, SeqMonotonic
<1> QED
  BY <1>1, <1>2, <1>4, PlainFacts DEF LeafList, BucketsIn

\* A small list without buckets can be the page of an inline bucket.
LEMMA SmallIsInline ==
  ASSUME NEW s, LeafList(s), isinlineable(s)
  PROVE  InlineList(s)
<1>1. s \in Seq(LeafInodes) /\ Ordered(s) /\ Len(s) \in Nat /\ DOMAIN s = 1 .. Len(s)
  BY DEF LeafList
<1>2. ASSUME NEW i \in 1 .. Len(s) PROVE s[i] \in PlainInodes
  <2>1. s[i] \in LeafInodes /\ s[i].flag # bucketLeafFlag
    BY <1>1 DEF isinlineable
  <2> QED
    BY <2>1, LeafFacts DEF IsBucketInode
<1>3. s \in Seq(PlainInodes)
  BY <1>1, <1>2, SeqDef
<1> QED
  BY <1>1, <1>3 DEF InlineList

\* The list after an element is put in it.
LEMMA PutList ==
  ASSUME NEW s, LeafList(s), NEW x \in LeafInodes, NEW k, x.key = k
  PROVE  /\ LeafList(put(s, k, x))
         /\ ToSet(put(s, k, x)) = {y \in ToSet(s) : y.key # k} \cup {x}
<1>1. s \in Seq(LeafInodes) /\ Ordered(s)
  BY DEF LeafList
<1>2. Elements(LeafInodes)
  BY LeafFacts
<1>3. /\ put(s, x.key, x) \in Seq(LeafInodes) /\ Ordered(put(s, x.key, x))
      /\ ToSet(put(s, x.key, x)) = {y \in ToSet(s) : y.key # x.key} \cup {x}
  BY <1>1, <1>2, PutOrdered
<1>4. LeafList(put(s, x.key, x))
  BY <1>3 DEF LeafList
<1> QED
  BY <1>3, <1>4

\* The list after a key is removed.
LEMMA DelList ==
  ASSUME NEW s, LeafList(s), NEW k \in Int
  PROVE  LeafList(del(s, k)) /\ ToSet(del(s, k)) = {y \in ToSet(s) : y.key # k}
<1>1. s \in Seq(LeafInodes) /\ Ordered(s)
  BY DEF LeafList
<1>2. Elements(LeafInodes)
  BY LeafFacts
<1>3. /\ del(s, k) \in Seq(LeafInodes) /\ Ordered(del(s, k))
      /\ ToSet(del(s, k)) = {y \in ToSet(s) : y.key # k}
  BY <1>1, <1>2, DelOrdered, Zenon
<1> QED
  BY <1>3 DEF LeafList

\* A search in it.
LEMMA SearchList ==
  ASSUME NEW s, LeafList(s), NEW k \in Int
  PROVE  /\ binarySearch(s, k).found \in BOOLEAN
         /\ binarySearch(s, k).found <=> \E x \in ToSet(s) : x.key = k
         /\ binarySearch(s, k).found =>
              /\ s[binarySearch(s, k).index + 1] \in ToSet(s)
              /\ s[binarySearch(s, k).index + 1].key = k
<1>1. s \in Seq(LeafInodes) /\ Ordered(s)
  BY DEF LeafList
<1>2. Elements(LeafInodes)
  BY LeafFacts
<1> QED
  BY <1>1, <1>2, SearchOrdered, Zenon

\* Neither a put nor a removal of a key that is no bucket's touches buckets.
LEMMA PlainChange ==
  ASSUME NEW s, LeafList(s), NEW k, \A i \in BucketsIn(ToSet(s)) : i.key # k
  PROVE  /\ k \in Int => LeafList(del(s, k)) /\ BucketsIn(ToSet(del(s, k))) = BucketsIn(ToSet(s))
         /\ k \in Keys => \A len \in Lens :
              LET new == put(s, k, Leaf(k, valueLeafFlag, PlainValue(len)))
              IN  LeafList(new) /\ BucketsIn(ToSet(new)) = BucketsIn(ToSet(s))
<1>1. ASSUME k \in Int
      PROVE  LeafList(del(s, k)) /\ BucketsIn(ToSet(del(s, k))) = BucketsIn(ToSet(s))
  <2>1. LeafList(del(s, k)) /\ ToSet(del(s, k)) = {y \in ToSet(s) : y.key # k}
    BY <1>1, DelList
  <2> QED
    BY <2>1 DEF BucketsIn
<1>2. ASSUME k \in Keys, NEW len \in Lens
      PROVE  LET new == put(s, k, Leaf(k, valueLeafFlag, PlainValue(len)))
             IN  LeafList(new) /\ BucketsIn(ToSet(new)) = BucketsIn(ToSet(s))
  <2> DEFINE x == Leaf(k, valueLeafFlag, PlainValue(len))
             new == put(s, k, x)
  <2>1. x \in LeafInodes /\ x.key = k /\ ~IsBucketInode(x)
    BY <1>2, MadeFacts
  <2> HIDE DEF x
  <2>2. LeafList(new) /\ ToSet(new) = {y \in ToSet(s) : y.key # k} \cup {x}
    BY <2>1, PutList
  <2> HIDE DEF new
  <2>3. BucketsIn(ToSet(new)) = BucketsIn(ToSet(s))
    BY <2>1, <2>2 DEF BucketsIn
  <2> QED
    BY <2>2, <2>3 DEF new, x
<1> QED
  BY <1>1, <1>2

\* A bucket's element takes the place of an earlier one.
LEMMA PutBucket ==
  ASSUME NEW s, LeafList(s), NEW k \in Names,
         NEW v \in [len : Nat, root : PageIds \cup {0}, page : Seq(PlainInodes)], BucketValue(v),
         NEW x, x = Leaf(k, bucketLeafFlag, v)
  PROVE  /\ LeafList(put(s, k, x))
         /\ x.key = k /\ x.value = v /\ IsBucketInode(x)
         /\ ToSet(put(s, k, x)) = {y \in ToSet(s) : y.key # k} \cup {x}
         /\ BucketsIn(ToSet(put(s, k, x))) = {i \in BucketsIn(ToSet(s)) : i.key # k} \cup {x}
<1>1. x \in LeafInodes /\ x.key = k /\ x.value = v /\ IsBucketInode(x)
  BY MadeFacts
<1>2. LeafList(put(s, k, x)) /\ ToSet(put(s, k, x)) = {y \in ToSet(s) : y.key # k} \cup {x}
  BY <1>1, PutList
<1> QED
  BY <1>1, <1>2 DEF BucketsIn

---------------------------------------------------------------------------
(* The lists of objects.                                                   *)

\* Whatever a read of page_ finds, the buckets in it are the same: those of
\* the node or of the page, and none in an inline bucket.
LEMMA ObjectList ==
  ASSUME TreeInv, NEW p \in DOMAIN opened, IsLeaf(p), NEW bytes \in Bytes(p)
  PROVE  /\ LeafList(Inodes(p, bytes))
         /\ BucketsIn(ToSet(Inodes(p, bytes))) = BucketsIn(ToSet(ListOf(p)))
<1>0. ObjectsAreBuckets /\ PagesHoldLists
  BY DEF TreeInv
<1>1. CASE opened[p].hasNode
  <2>1. Inodes(p, bytes) = opened[p].node /\ ListOf(p) = opened[p].node
    BY <1>1 DEF Inodes, ListOf
  <2> QED
    BY <1>0, <2>1 DEF ObjectsAreBuckets, Objects
<1>2. CASE ~opened[p].hasNode /\ opened[p].root # 0
  <2>1. /\ Inodes(p, bytes) = pages[opened[p].root].inodes
        /\ ListOf(p) = pages[opened[p].root].inodes
        /\ pages[opened[p].root].leaf
    BY <1>2 DEF Inodes, ListOf, PageNode, IsLeaf
  <2>2. opened[p].root \in PageIds
    BY <1>0, <1>2 DEF ObjectsAreBuckets, Objects
  <2> QED
    BY <1>0, <2>1, <2>2 DEF PagesHoldLists
<1>3. CASE ~opened[p].hasNode /\ opened[p].root = 0
  <2>1. Inodes(p, bytes) = bytes /\ ListOf(p) = opened[p].page
    BY <1>3 DEF Inodes, ListOf, PageNode, Page
  <2>2. PICK q \in DOMAIN opened : bytes = opened[q].page
    BY DEF Bytes
  <2>3. InlineList(bytes) /\ InlineList(opened[p].page)
    BY <1>0, <2>2 DEF ObjectsAreBuckets, Objects
  <2> QED
    BY <2>1, <2>3, InlineFacts
<1> QED
  BY <1>1, <1>2, <1>3

\* In particular in what it held.
LEMMA ListOfFacts ==
  ASSUME TreeInv, NEW p \in DOMAIN opened, IsLeaf(p)
  PROVE  LeafList(ListOf(p))
<1>0. ObjectsAreBuckets /\ PagesHoldLists
  BY DEF TreeInv
<1>1. CASE opened[p].hasNode
  BY <1>0, <1>1 DEF ObjectsAreBuckets, Inodes, ListOf
<1>2. CASE ~opened[p].hasNode /\ opened[p].root # 0
  <2>1. ListOf(p) = pages[opened[p].root].inodes /\ pages[opened[p].root].leaf
    BY <1>2 DEF Inodes, ListOf, PageNode, IsLeaf
  <2>2. opened[p].root \in PageIds
    BY <1>0, <1>2 DEF ObjectsAreBuckets, Objects
  <2> QED
    BY <1>0, <2>1, <2>2 DEF PagesHoldLists
<1>3. CASE ~opened[p].hasNode /\ opened[p].root = 0
  <2>1. ListOf(p) = opened[p].page
    BY <1>3 DEF Inodes, ListOf, PageNode, Page
  <2> QED
    BY <1>0, <2>1, InlineFacts DEF ObjectsAreBuckets, Objects
<1> QED
  BY <1>1, <1>2, <1>3

\* The buckets in an object that is not spilled yet are objects or have the
\* root their elements say.
LEMMA ElementsAreRoots ==
  ASSUME TreeInv, NEW p \in DOMAIN opened, IsLeaf(p), NEW i \in BucketsIn(ToSet(ListOf(p)))
  PROVE  /\ i \in LeafInodes /\ IsBucketInode(i) /\ i.key \in Names
         /\ Len(p) < MaxDepth
         /\ Append(p, i.key) \in DOMAIN opened \/ RootOf(i.value.root, Append(p, i.key))
<1>0. /\ ObjectsAreBuckets /\ PagesHoldLists /\ PagesFormTree /\ ElementsLead
      /\ ObjectsHaveRoots
  BY DEF TreeInv
<1>l. i \in LeafInodes /\ IsBucketInode(i) /\ i.key \in Names
  BY ListOfFacts, ListFacts, LeafFacts DEF BucketsIn
<1>1. CASE opened[p].hasNode
  <2>1. ListOf(p) = opened[p].node
    BY <1>1 DEF Inodes, ListOf
  <2> QED
    BY <1>0, <1>1, <1>l, <2>1 DEF ElementsLead
<1>2. CASE ~opened[p].hasNode /\ opened[p].root # 0
  <2>1. ListOf(p) = pages[opened[p].root].inodes /\ pages[opened[p].root].leaf
    BY <1>2 DEF Inodes, ListOf, PageNode, IsLeaf
  <2>2. ~Done(p)
    BY <1>2 DEF Done
  <2>3. opened[p].root \in used /\ pages[opened[p].root].of = p
    BY <1>0, <1>2, <2>2 DEF ObjectsHaveRoots, RootOf
  <2> QED
    BY <1>0, <1>l, <2>1, <2>3 DEF PagesFormTree
<1>3. CASE ~opened[p].hasNode /\ opened[p].root = 0
  <2>1. ListOf(p) = opened[p].page
    BY <1>3 DEF Inodes, ListOf, PageNode, Page
  <2> QED
    BY <1>0, <2>1, InlineFacts DEF ObjectsAreBuckets, Objects
<1> QED
  BY <1>1, <1>2, <1>3

\* No page in use is below root r of bucket p but through an element of r.
LEMMA RootListsAll ==
  ASSUME TreeInv, NEW p, NEW r, RootOf(r, p), r = 0 \/ pages[r].leaf,
         NEW q \in used, pages[q].of # <<>>, Front(pages[q].of) = p
  PROVE  r # 0 /\ \E i \in BucketsIn(ToSet(pages[r].inodes)) : i.key = Last(pages[q].of)
<1>0. PagesFormTree /\ PagesHoldLists
  BY DEF TreeInv
<1>1. PICK u \in used : /\ pages[u].leaf /\ pages[u].of = p
                        /\ \E i \in BucketsIn(ToSet(pages[u].inodes)) : i.key = Last(pages[q].of)
  BY <1>0 DEF PagesFormTree
<1>2. u = r
  BY <1>1 DEF RootOf, Sole
<1>3. u # 0
  BY <1>0, BucketAssumption DEF PagesHoldLists
<1> QED
  BY <1>1, <1>2, <1>3

---------------------------------------------------------------------------
(* Steps outside a commit.                                                 *)

ObjectsInv == ObjectsAreBuckets /\ ObjectsHaveRoots /\ ObjectsAreElements /\ ElementsLead

\* The modes outside a commit.
Quiet(m) == m \in {"none", "ro", "rw", "dead"}

\* Such a step leaves the file as it is.
LEMMA FileKept ==
  ASSUME TreeInv, UNCHANGED <<file, spill>>, Quiet(mode), Quiet(mode')
  PROVE  PagesHoldLists' /\ PagesFormTree' /\ CommitProceeds' /\ WrittenHoldNodes'
<1>0. /\ PagesHoldLists /\ PagesFormTree /\ CommitProceeds
      /\ UNCHANGED <<pages, used, rootPage, todo, freed, written>>
  BY DEF TreeInv, file, spill
<1>1. PagesHoldLists'
  BY <1>0 DEF PagesHoldLists, BranchList
<1>2. PagesFormTree'
  <2>1. ASSUME NEW r, NEW p PROVE RootOf(r, p)' <=> RootOf(r, p)
    BY <1>0 DEF RootOf, Sole
  <2> QED
    BY <1>0, <2>1 DEF PagesFormTree
<1>3. todo = {} /\ freed = {} /\ written = {} /\ mode' # "spill"
  BY <1>0 DEF CommitProceeds, Quiet
<1>4. CommitProceeds'
  BY <1>0, <1>3 DEF CommitProceeds, Done
<1>5. WrittenHoldNodes'
  BY <1>0, <1>3 DEF WrittenHoldNodes
<1> QED
  BY <1>1, <1>2, <1>4, <1>5

\* Without objects there is nothing to say about them.
LEMMA NoObjects ==
  ASSUME opened' = <<>>, mode' \in {"none", "dead"}
  PROVE  ObjectsInv'
<1>1. DOMAIN opened' = {}
  <2>1. DOMAIN <<>> = {}
    OBVIOUS
  <2> QED
    BY <2>1
<1> QED
  BY <1>1 DEF ObjectsInv, ObjectsAreBuckets, ObjectsHaveRoots, ObjectsAreElements, ElementsLead

\* An object that stays, over pages that stay, keeps its list.
LEMMA SameList ==
  ASSUME NEW p, opened'[p] = opened[p], opened[p].root = 0 \/ opened[p].hasNode
                  \/ pages'[opened[p].root] = pages[opened[p].root]
  PROVE  ListOf(p)' = ListOf(p) /\ IsLeaf(p)' = IsLeaf(p)
<1>1. CASE opened[p].hasNode
  BY <1>1 DEF ListOf, IsLeaf, Inodes, PageNode
<1>2. CASE ~opened[p].hasNode /\ opened[p].root = 0
  BY <1>2 DEF ListOf, IsLeaf, Inodes, PageNode, Page
<1>3. CASE ~opened[p].hasNode /\ opened[p].root # 0
  BY <1>3 DEF ListOf, IsLeaf, Inodes, PageNode
<1> QED
  BY <1>1, <1>2, <1>3

\* What Bucket::getNode and a change make of the object.
Noded(c, b, new) ==
  /\ c.hasNode = TRUE /\ c.node = new
  /\ c.root = b.root /\ c.page = b.page /\ c.dangling = b.dangling

\* Making the node changes nothing but the node and its key.
LEMMA WithNodeFacts ==
  ASSUME NEW b \in Objects, NEW inodes, NEW new
  PROVE  Noded(WithNode(b, inodes, new), b, new)
  BY DEF WithNode, Objects, Noded

\* The object with a node is again an object.
LEMMA WithNodeType ==
  ASSUME NEW b \in Objects, NEW inodes, LeafList(inodes), NEW new, LeafList(new)
  PROVE  WithNode(b, inodes, new) \in Objects
<1>1. new \in Seq(LeafInodes) /\ inodes \in Seq(LeafInodes)
  BY DEF LeafList
<1>2. inodes # <<>> => inodes[1] \in LeafInodes
  BY <1>1
<1>3. inodes # <<>> => inodes[1].key \in Keys
  BY <1>2, LeafFacts
<1> DEFINE k == IF b.hasNode THEN b.key ELSE IF inodes = <<>> THEN NoKey ELSE inodes[1].key
<1>4. k \in Keys \cup {NoKey}
  BY <1>3 DEF Objects
<1>5. WithNode(b, inodes, new) = [b EXCEPT !.hasNode = TRUE, !.node = new, !.key = k]
  BY DEF WithNode, Objects
<1> HIDE DEF k
<1> QED
  BY <1>1, <1>4, <1>5 DEF Objects

\* An object keeps its place when its parent keeps its element.
LEMMA PlaceKept ==
  ASSUME NEW x, InPlace(x), ~Done(x), ~Done(x)', pages' = pages,
         opened'[x].root = opened[x].root, opened'[x].page = opened[x].page,
         opened'[Front(x)].root = opened[Front(x)].root,
         opened[Front(x)].hasNode => opened'[Front(x)].hasNode,
         IsLeaf(Front(x))' <=> IsLeaf(Front(x)),
         IsLeaf(Front(x)) =>
           \A i \in BucketsIn(ToSet(ListOf(Front(x)))) :
             i.key = Last(x) => i \in BucketsIn(ToSet(ListOf(Front(x))')) \/ Loose(x)',
         \A i \in BucketsIn(ToSet(ListOf(Front(x))')) :
           i.key = Last(x) => i \in BucketsIn(ToSet(ListOf(Front(x))))
  PROVE  InPlace(x)'
<1>1. CASE IsLeaf(Front(x)) /\ HasElement(x, ListOf(Front(x)))
  <2>1. PICK i \in BucketsIn(ToSet(ListOf(Front(x)))) :
          /\ i.key = Last(x) /\ i.value.root = opened[x].root
          /\ opened[x].root = 0 => i.value.page = opened[x].page
    BY <1>1 DEF HasElement
  <2>2. i \in BucketsIn(ToSet(ListOf(Front(x))')) \/ Loose(x)'
    BY <1>1, <2>1
  <2>3. CASE i \in BucketsIn(ToSet(ListOf(Front(x))'))
    <3>1. HasElement(x, ListOf(Front(x)))'
      BY <2>1, <2>3 DEF HasElement
    <3> QED
      BY <1>1, <3>1 DEF InPlace
  <2> QED
    BY <2>2, <2>3 DEF InPlace
<1>2. CASE Loose(x)
  BY <1>2 DEF InPlace, Loose
<1>3. CASE BelowBranch(x)
  <2>1. PICK c \in ToSet(pages[opened[Front(x)].root].inodes) :
          HasElement(x, pages[c.pageId].inodes)
    BY <1>3 DEF BelowBranch
  <2>2. HasElement(x, pages[c.pageId].inodes)'
    BY <2>1 DEF HasElement
  <2>3. ~IsLeaf(Front(x))' /\ c \in ToSet(pages'[opened'[Front(x)].root].inodes)
    BY <1>3, <2>1 DEF BelowBranch
  <2> QED
    BY <2>2, <2>3 DEF BelowBranch, InPlace
<1> QED
  BY <1>1, <1>2, <1>3 DEF InPlace

\* A change of the node of p that leaves its buckets alone, but for fresh ones.
LEMMA ModifyKeeps ==
  ASSUME TreeInv, mode = "rw", mode' = mode, UNCHANGED <<file, spill>>,
         NEW p \in DOMAIN opened, IsLeaf(p), NEW bytes \in Bytes(p),
         NEW new, LeafList(new), BucketsIn(ToSet(new)) \subseteq BucketsIn(ToSet(ListOf(p))),
         \A i \in BucketsIn(ToSet(ListOf(p))) :
           i \in BucketsIn(ToSet(new)) \/ Fresh(Append(p, i.key)),
         opened' = [opened EXCEPT ![p] = WithNode(@, Inodes(p, bytes), new)]
  PROVE  ObjectsInv'
<1>0. /\ ObjectsAreBuckets /\ ObjectsHaveRoots /\ ObjectsAreElements /\ ElementsLead
      /\ PagesHoldLists
      /\ UNCHANGED <<pages, used, rootPage, todo, freed, written>>
  BY DEF TreeInv, file, spill
<1>d. \A x : ~Done(x) /\ ~Done(x)'
  BY DEF Done
<1> DEFINE b == WithNode(opened[p], Inodes(p, bytes), new)
<1>1. opened[p] \in Objects
  BY <1>0 DEF ObjectsAreBuckets
<1>2. LeafList(Inodes(p, bytes))
  BY ObjectList
<1>3. b \in Objects
  BY <1>1, <1>2, WithNodeType
<1>4. /\ b.hasNode = TRUE /\ b.node = new /\ b.root = opened[p].root
      /\ b.page = opened[p].page /\ b.dangling = opened[p].dangling
  <2>1. Noded(b, opened[p], new)
    BY <1>1, WithNodeFacts
  <2> QED
    BY <2>1 DEF Noded
<1>5. /\ DOMAIN opened' = DOMAIN opened /\ opened'[p] = b
      /\ \A x \in DOMAIN opened : x # p => opened'[x] = opened[x]
  OBVIOUS
<1> HIDE DEF b
<1>6. ASSUME NEW x \in DOMAIN opened
      PROVE  /\ opened'[x].root = opened[x].root /\ opened'[x].page = opened[x].page
             /\ opened'[x].dangling = opened[x].dangling
             /\ opened'[x].hasNode <=> opened[x].hasNode \/ x = p
             /\ \A i \in BucketsIn(ToSet(ListOf(x))) :
                  i \in BucketsIn(ToSet(ListOf(x)')) \/ (x = p /\ Fresh(Append(p, i.key)))
             /\ BucketsIn(ToSet(ListOf(x)')) \subseteq BucketsIn(ToSet(ListOf(x)))
             /\ IsLeaf(x)' <=> IsLeaf(x)
  <2>1. CASE x = p
    <3>1. ListOf(p)' = new /\ IsLeaf(p)'
      BY <1>4, <1>5 DEF ListOf, Inodes, IsLeaf, PageNode
    <3> QED
      BY <1>4, <1>5, <2>1, <3>1
  <2>2. CASE x # p
    <3>1. ListOf(x)' = ListOf(x) /\ IsLeaf(x)' = IsLeaf(x)
      BY <1>0, <1>5, <2>2, SameList
    <3> QED
      BY <1>5, <2>2, <3>1
  <2> QED
    BY <2>1, <2>2
<1>r. ASSUME NEW r, NEW x PROVE RootOf(r, x)' <=> RootOf(r, x)
  BY <1>0 DEF RootOf, Sole
<1>7. ObjectsAreBuckets'
  <2>1. ASSUME NEW x \in DOMAIN opened
        PROVE  /\ opened'[x] \in Objects /\ LeafList(opened'[x].node) /\ InlineList(opened'[x].page)
               /\ opened'[x].dangling => opened'[x].root = 0
               /\ opened'[x].hasNode /\ opened'[x].root # 0 => pages[opened'[x].root].leaf
    <3>1. CASE x = p
      <4>1. opened[p].root # 0 => pages[opened[p].root].leaf
        <5>1. CASE opened[p].hasNode
          BY <1>0, <1>d, <5>1 DEF ObjectsAreBuckets
        <5>2. CASE ~opened[p].hasNode
          BY <5>2 DEF IsLeaf, PageNode
        <5> QED
          BY <5>1, <5>2
      <4> QED
        BY <1>0, <1>d, <1>3, <1>4, <1>5, <3>1, <4>1 DEF ObjectsAreBuckets
    <3>2. CASE x # p
      BY <1>0, <1>d, <1>5, <3>2 DEF ObjectsAreBuckets
    <3> QED
      BY <3>1, <3>2
  <2> QED
    BY <1>0, <1>5, <2>1 DEF ObjectsAreBuckets
<1>8. ObjectsHaveRoots'
  BY <1>0, <1>d, <1>5, <1>6, <1>r DEF ObjectsHaveRoots
<1>9. ObjectsAreElements'
  <2> SUFFICES ASSUME NEW x \in DOMAIN opened \ {<<>>}
               PROVE  Front(x) \in DOMAIN opened /\ InPlace(x)'
    BY <1>5 DEF ObjectsAreElements
  <2>1. Front(x) \in DOMAIN opened /\ InPlace(x) /\ x \in Seq(Names)
    BY <1>0 DEF ObjectsAreElements, ObjectsAreBuckets
  <2>4. \A j \in BucketsIn(ToSet(ListOf(Front(x))')) : j \in BucketsIn(ToSet(ListOf(Front(x))))
    BY <1>6, <2>1
  <2>2. ASSUME NEW i \in BucketsIn(ToSet(ListOf(Front(x)))), i.key = Last(x)
        PROVE  i \in BucketsIn(ToSet(ListOf(Front(x))')) \/ Loose(x)'
    <3>1. CASE /\ Front(x) = p /\ Fresh(Append(p, i.key))
               /\ i \notin BucketsIn(ToSet(ListOf(Front(x))'))
      <4>1. Append(p, i.key) = x
        BY <2>1, <2>2, <3>1, ParentPath
      <4>2. opened'[x].root = 0 /\ opened'[x].page = <<>>
        BY <1>6, <3>1, <4>1 DEF Fresh
      <4>3. LeafList(ListOf(p))
        BY ListOfFacts
      <4>4. \A u, v \in BucketsIn(ToSet(ListOf(p))) : u.key = v.key => u = v
        BY <4>3, ListFacts DEF BucketsIn
      <4>5. \A j \in BucketsIn(ToSet(ListOf(Front(x))')) : j.key # Last(x)
        BY <2>2, <2>4, <3>1, <4>4
      <4>6. opened'[Front(x)].hasNode
        BY <1>4, <1>5, <3>1
      <4> QED
        BY <1>d, <4>2, <4>5, <4>6 DEF Loose
    <3> QED
      BY <1>6, <2>1, <3>1
  <2>3. /\ opened'[x].root = opened[x].root /\ opened'[x].page = opened[x].page
        /\ opened'[Front(x)].root = opened[Front(x)].root
        /\ opened[Front(x)].hasNode => opened'[Front(x)].hasNode
        /\ IsLeaf(Front(x))' <=> IsLeaf(Front(x))
    BY <1>6, <2>1
  <2> QED
    BY <1>0, <1>d, <2>1, <2>2, <2>3, <2>4, PlaceKept
<1>10. ElementsLead'
  <2>1. ASSUME NEW x \in DOMAIN opened, opened'[x].hasNode,
               NEW i \in BucketsIn(ToSet(opened'[x].node))
        PROVE  /\ Len(x) < MaxDepth
               /\ Append(x, i.key) \in DOMAIN opened \/ RootOf(i.value.root, Append(x, i.key))
    <3>1. CASE x = p
      <4>1. i \in BucketsIn(ToSet(ListOf(p)))
        BY <1>4, <1>5, <2>1, <3>1
      <4> QED
        BY <3>1, <4>1, ElementsAreRoots
    <3>2. CASE x # p
      BY <1>0, <1>5, <2>1, <3>2 DEF ElementsLead
    <3> QED
      BY <3>1, <3>2
  <2>2. ASSUME NEW x \in DOMAIN opened, IsLeaf(x)', NEW q \in used,
               pages[q].of # <<>>, Front(pages[q].of) = x
        PROVE  \E i \in BucketsIn(ToSet(ListOf(x)')) : i.key = Last(pages[q].of)
    <3>1. PICK i \in BucketsIn(ToSet(ListOf(x))) : i.key = Last(pages[q].of)
      BY <1>0, <1>6, <2>2 DEF ElementsLead
    <3>2. pages[q].of \in Seq(Names)
      BY <1>0 DEF PagesHoldLists
    <3>3. Append(x, i.key) = pages[q].of
      BY <2>2, <3>1, <3>2, ParentPath
    <3>4. ~Fresh(Append(x, i.key))
      BY <3>3 DEF Fresh
    <3> QED
      BY <1>6, <3>1, <3>4
  <2> QED
    BY <1>0, <1>5, <1>r, <2>1, <2>2 DEF ElementsLead
<1> QED
  BY <1>7, <1>8, <1>9, <1>10 DEF ObjectsInv

\* NewBucket makes an object.
LEMMA NewBucketFacts ==
  ASSUME NEW r \in PageIds \cup {0}, NEW s \in Seq(PlainInodes), NEW d \in BOOLEAN
  PROVE  /\ NewBucket(r, s, d) \in Objects
         /\ NewBucket(r, s, d).root = r /\ NewBucket(r, s, d).page = s
         /\ NewBucket(r, s, d).dangling = d /\ NewBucket(r, s, d).hasNode = FALSE
         /\ NewBucket(r, s, d).node = <<>>
  BY DEF NewBucket, Objects, NoKey

\* The list of an object without a node.
LEMMA ReadList ==
  ASSUME NEW p, ~opened[p].hasNode
  PROVE  /\ opened[p].root = 0 => ListOf(p) = opened[p].page /\ IsLeaf(p)
         /\ opened[p].root # 0 =>
              /\ ListOf(p) = pages[opened[p].root].inodes
              /\ IsLeaf(p) <=> pages[opened[p].root].leaf = TRUE
  BY DEF ListOf, Inodes, IsLeaf, PageNode, Page

\* An empty list is a list of leaf elements.
LEMMA EmptyLeafList == LeafList(<<>>) /\ BucketsIn(ToSet(<<>>)) = {}
  BY EmptyInline, InlineFacts

\* A transaction begins with the root bucket.
LEMMA BeginKeeps ==
  ASSUME TreeInv, NEW m \in {"ro", "rw"}, Begin(m)
  PROVE  ObjectsInv'
<1>0. /\ PagesHoldLists /\ PagesFormTree /\ CommitProceeds
      /\ UNCHANGED <<pages, used, rootPage, todo, freed, written>>
      /\ mode = "none" /\ mode' = m
  BY DEF TreeInv, file, spill, Begin
<1>d. \A x : ~Done(x)'
  BY <1>0 DEF Done
<1> DEFINE b == NewBucket(rootPage, <<>>, FALSE)
<1>1. rootPage \in used /\ rootPage \in PageIds /\ rootPage # 0 /\ freed = {}
  BY <1>0, BucketAssumption DEF PagesFormTree, PagesHoldLists, CommitProceeds
<1>2. /\ b \in Objects /\ b.root = rootPage /\ b.page = <<>> /\ b.dangling = FALSE
      /\ b.hasNode = FALSE /\ b.node = <<>>
  <2>1. rootPage \in PageIds \cup {0} /\ <<>> \in Seq(PlainInodes) /\ FALSE \in BOOLEAN
    BY <1>1
  <2> QED
    BY <2>1, NewBucketFacts
<1> HIDE DEF b
<1>3. DOMAIN opened' = {<<>>} /\ opened'[<<>>] = b
  <2>1. DOMAIN <<>> = {}
    OBVIOUS
  <2> QED
    BY <2>1 DEF Begin, With, b
<1>r. ASSUME NEW r, NEW x PROVE RootOf(r, x)' <=> RootOf(r, x)
  BY <1>0 DEF RootOf, Sole
<1>4. /\ ListOf(<<>>)' = pages[rootPage].inodes
      /\ IsLeaf(<<>>)' <=> pages[rootPage].leaf = TRUE
  BY <1>0, <1>1, <1>2, <1>3 DEF ListOf, Inodes, IsLeaf, PageNode
<1>5. ObjectsAreBuckets'
  <2>1. <<>> \in Seq(Names) /\ Len(<<>>) <= MaxDepth
    BY BucketAssumption
  <2>2. InlineList(<<>>) /\ LeafList(<<>>)
    BY EmptyInline, EmptyLeafList
  <2>3. mode' \in {"ro", "rw"}
    BY <1>0
  <2> QED
    BY <1>2, <1>3, <2>1, <2>2, <2>3 DEF ObjectsAreBuckets
<1>6. ObjectsHaveRoots'
  <2>1. RootOf(rootPage, <<>>)
    BY <1>0 DEF PagesFormTree
  <2> QED
    BY <1>0, <1>d, <1>1, <1>2, <1>3, <1>r, <2>1 DEF ObjectsHaveRoots
<1>7. ObjectsAreElements'
  BY <1>3 DEF ObjectsAreElements
<1>8. ElementsLead'
  <2>1. ASSUME NEW q \in used, pages[rootPage].leaf, pages[q].of # <<>>, Front(pages[q].of) = <<>>
        PROVE  \E i \in BucketsIn(ToSet(pages[rootPage].inodes)) : i.key = Last(pages[q].of)
    <3>1. RootOf(rootPage, <<>>)
      BY <1>0 DEF PagesFormTree
    <3> QED
      BY <2>1, <3>1, RootListsAll
  <2> QED
    BY <1>0, <1>2, <1>3, <1>4, <2>1 DEF ElementsLead
<1> QED
  BY <1>5, <1>6, <1>7, <1>8 DEF ObjectsInv

\* What Bucket::get or a search of it finds.
LEMMA FoundFacts ==
  ASSUME TreeInv, NEW p \in DOMAIN opened, IsLeaf(p), NEW bytes \in Bytes(p), NEW k \in Int
  PROVE  Found(p, k, bytes) = {i \in ToSet(Inodes(p, bytes)) : i.key = k}
<1> DEFINE s == Inodes(p, bytes)
           at == binarySearch(s, k)
<1>1. LeafList(s)
  BY ObjectList
<1>2. /\ at.found \in BOOLEAN
      /\ at.found <=> \E x \in ToSet(s) : x.key = k
      /\ at.found => s[at.index + 1] \in ToSet(s) /\ s[at.index + 1].key = k
  <2> HIDE DEF s
  <2> QED
    BY <1>1, SearchList
<1>3. \A x, y \in ToSet(s) : x.key = y.key => x = y
  <2> HIDE DEF s
  <2> QED
    BY <1>1, ListFacts
<1>4. Found(p, k, bytes) = IF at.found THEN {s[at.index + 1]} ELSE {}
  BY DEF Found, FoundIn
<1> HIDE DEF s, at
<1> QED
  BY <1>2, <1>3, <1>4 DEF s

\* What a search of a list finds.
LEMMA FoundInFacts ==
  ASSUME NEW s, LeafList(s), NEW k \in Int
  PROVE  FoundIn(s, k) = {i \in ToSet(s) : i.key = k}
<1> DEFINE at == binarySearch(s, k)
<1>1. /\ at.found \in BOOLEAN /\ at.found <=> \E x \in ToSet(s) : x.key = k
      /\ at.found => s[at.index + 1] \in ToSet(s) /\ s[at.index + 1].key = k
  BY SearchList
<1>2. \A x, y \in ToSet(s) : x.key = y.key => x = y
  BY ListFacts
<1>3. FoundIn(s, k) = IF at.found THEN {s[at.index + 1]} ELSE {}
  BY DEF FoundIn
<1> HIDE DEF at
<1> QED
  BY <1>1, <1>2, <1>3

\* A bucket that is no leaf has a branch page, whose children are its leaves.
LEMMA BranchObject ==
  ASSUME TreeInv, NEW p \in DOMAIN opened, ~IsLeaf(p), ~Done(p)
  PROVE  /\ ~opened[p].hasNode /\ opened[p].root # 0 /\ opened[p].root \in used
         /\ pages[opened[p].root].of = p /\ ~pages[opened[p].root].leaf
         /\ BranchList(pages[opened[p].root].inodes, used, p)
         /\ PageNode(p, opened[p].page).inodes = pages[opened[p].root].inodes
         /\ \A bytes : PageNode(p, bytes) = PageNode(p, opened[p].page)
<1>0. PagesHoldLists /\ ObjectsHaveRoots
  BY DEF TreeInv
<1>1. ~opened[p].hasNode /\ opened[p].root # 0 /\ ~pages[opened[p].root].leaf
  BY DEF IsLeaf, PageNode, Page
<1>2. opened[p].root \in used /\ pages[opened[p].root].of = p
  BY <1>0, <1>1 DEF ObjectsHaveRoots, RootOf
<1> QED
  BY <1>0, <1>1, <1>2 DEF PagesHoldLists, PageNode

\* The leaf a search of a bucket ends at.
LEMMA LeafAtFacts ==
  ASSUME TreeInv, NEW p \in DOMAIN opened, ~Done(p), NEW bytes \in Bytes(p), NEW i \in Routes(p)
  PROVE  /\ LeafList(LeafAt(p, bytes, i))
         /\ IsLeaf(p) => LeafAt(p, bytes, i) = Inodes(p, bytes)
         /\ ~IsLeaf(p) => \E c \in ToSet(pages[opened[p].root].inodes) :
              /\ c.pageId \in used /\ pages[c.pageId].leaf /\ pages[c.pageId].of = p
              /\ LeafAt(p, bytes, i) = pages[c.pageId].inodes
<1>1. CASE IsLeaf(p)
  BY <1>1, ObjectList DEF LeafAt
<1>2. CASE ~IsLeaf(p)
  <2> DEFINE s == pages[opened[p].root].inodes
             ref == PageNode(p, bytes)
  <2>1. BranchList(s, used, p) /\ ref.inodes = s
    BY <1>2, BranchObject
  <2>2. i \in 0 .. Len(s) - 1
    BY <1>2 DEF Routes
  <2>3. s \in Seq(BranchInodes)
    BY <2>1 DEF BranchList
  <2>4. i + 1 \in 1 .. Len(s) /\ s[i + 1] \in ToSet(s)
    <3> HIDE DEF s
    <3>1. i + 1 \in 1 .. Len(s)
      BY <2>2, <2>3
    <3> QED
      BY <2>3, <3>1, ToSetFacts
  <2>5. ref = [live |-> FALSE, leaf |-> ref.leaf, inodes |-> s, index |-> 0]
    BY <1>2, <2>1, BranchObject DEF PageNode
  <2>6. [ref EXCEPT !.index = i].inodes = s /\ [ref EXCEPT !.index = i].index = i
    <3> HIDE DEF s, ref
    <3> QED
      BY <2>5
  <2>7. LeafAt(p, bytes, i) = pages[s[i + 1].pageId].inodes
    BY <1>2, <2>6 DEF LeafAt, Child
  <2> DEFINE c == s[i + 1]
  <2>8. c.pageId \in used /\ pages[c.pageId].of = p /\ pages[c.pageId].leaf
    <3> HIDE DEF s
    <3> QED
      BY <2>1, <2>4 DEF BranchList
  <2>9. LeafList(pages[c.pageId].inodes)
    <3> HIDE DEF c
    <3> QED
      BY <2>8 DEF TreeInv, PagesHoldLists
  <2> HIDE DEF s, ref
  <2> QED
    BY <1>2, <2>4, <2>7, <2>8, <2>9 DEF s
<1> QED
  BY <1>1, <1>2

\* A bucket is opened.
LEMMA OpenKeeps ==
  ASSUME TreeInv, NEW p \in DOMAIN opened, NEW k \in Names, OpenBucket(p, k)
  PROVE  ObjectsInv'
<1>0. /\ ObjectsAreBuckets /\ ObjectsHaveRoots /\ ObjectsAreElements /\ ElementsLead
      /\ PagesHoldLists
      /\ UNCHANGED <<pages, used, rootPage, todo, freed, written>>
      /\ mode \in {"ro", "rw"} /\ mode' = mode
  BY DEF TreeInv, file, spill, OpenBucket
<1>d. \A x : ~Done(x) /\ ~Done(x)'
  BY <1>0 DEF Done
<1> DEFINE c == Append(p, k)
<1>c. c \notin DOMAIN opened
  BY DEF OpenBucket
<1>b. PICK bytes \in Bytes(p), j \in Routes(p) : \E inode \in FoundIn(LeafAt(p, bytes, j), k) :
        /\ IsBucketInode(inode)
        /\ opened' = With(opened, c, openBucket(inode.value, opened[p].hasNode))
  BY DEF OpenBucket
<1>1. PICK inode \in FoundIn(LeafAt(p, bytes, j), k) :
        /\ IsBucketInode(inode)
        /\ opened' = With(opened, c, openBucket(inode.value, opened[p].hasNode))
  BY <1>b
<1> DEFINE b == openBucket(inode.value, opened[p].hasNode)
<1>2. inode \in BucketsIn(ToSet(LeafAt(p, bytes, j))) /\ inode.key = k /\ inode \in LeafInodes
  <2>1. k \in Int
    BY KeyFacts
  <2>2. LeafList(LeafAt(p, bytes, j))
    BY <1>d, LeafAtFacts
  <2>3. inode \in ToSet(LeafAt(p, bytes, j)) /\ inode.key = k
    BY <2>1, <2>2, FoundInFacts
  <2> QED
    BY <1>1, <2>2, <2>3, ListFacts DEF BucketsIn
<1>e. \/ IsLeaf(p) /\ inode \in BucketsIn(ToSet(ListOf(p)))
      \/ /\ ~IsLeaf(p)
         /\ \E u \in ToSet(pages[opened[p].root].inodes) :
              /\ u.pageId \in used /\ pages[u.pageId].leaf /\ pages[u.pageId].of = p
              /\ inode \in BucketsIn(ToSet(pages[u.pageId].inodes))
  <2>1. CASE IsLeaf(p)
    <3>1. LeafAt(p, bytes, j) = Inodes(p, bytes)
      BY <1>d, <2>1, LeafAtFacts
    <3>2. BucketsIn(ToSet(Inodes(p, bytes))) = BucketsIn(ToSet(ListOf(p)))
      BY <2>1, ObjectList
    <3> QED
      BY <1>2, <2>1, <3>1, <3>2
  <2>2. CASE ~IsLeaf(p)
    <3>1. PICK u \in ToSet(pages[opened[p].root].inodes) :
              /\ u.pageId \in used /\ pages[u.pageId].leaf /\ pages[u.pageId].of = p
              /\ LeafAt(p, bytes, j) = pages[u.pageId].inodes
      BY <1>d, <2>2, LeafAtFacts
    <3> QED
      BY <1>2, <2>2, <3>1
  <2> QED
    BY <2>1, <2>2
<1>3. Len(p) < MaxDepth /\ RootOf(inode.value.root, c)
  <2>1. CASE IsLeaf(p)
    BY <1>2, <1>e, <1>c, <2>1, ElementsAreRoots
  <2>2. CASE ~IsLeaf(p)
    <3>1. PICK u \in used : /\ pages[u].leaf /\ pages[u].of = p
                            /\ inode \in BucketsIn(ToSet(pages[u].inodes))
      BY <1>e, <2>2
    <3>2. PagesFormTree
      BY DEF TreeInv
    <3> QED
      BY <1>2, <3>1, <3>2 DEF PagesFormTree
  <2> QED
    BY <2>1, <2>2
<1>4. inode.value.root \in PageIds \cup {0} /\ InlineList(inode.value.page)
  BY <1>1, <1>2, LeafFacts
<1>p. p \in Seq(Names)
  BY <1>0 DEF ObjectsAreBuckets
<1>5. c \in Seq(Names) /\ c # <<>> /\ Len(c) = Len(p) + 1 /\ Front(c) = p /\ Last(c) = k
  BY <1>p, ChildPath
<1>6. /\ b \in Objects /\ b.root = inode.value.root /\ b.page = inode.value.page
      /\ b.dangling = (inode.value.root = 0 /\ opened[p].hasNode)
      /\ b.hasNode = FALSE /\ b.node = <<>>
  <2>1. inode.value.page \in Seq(PlainInodes)
    BY <1>4 DEF InlineList
  <2>2. (inode.value.root = 0 /\ opened[p].hasNode) \in BOOLEAN
    OBVIOUS
  <2> QED
    BY <1>4, <2>1, <2>2, NewBucketFacts DEF openBucket
<1> HIDE DEF b, c
<1>7. /\ DOMAIN opened' = DOMAIN opened \cup {c} /\ opened'[c] = b
      /\ \A x \in DOMAIN opened : x # c /\ opened'[x] = opened[x]
  BY <1>1, <1>c DEF With, b
<1>8. ASSUME NEW x \in DOMAIN opened
      PROVE  ListOf(x)' = ListOf(x) /\ IsLeaf(x)' = IsLeaf(x)
  BY <1>0, <1>7, SameList
<1>9. /\ b.root = 0 => ListOf(c)' = b.page /\ IsLeaf(c)'
      /\ b.root # 0 => ListOf(c)' = pages[b.root].inodes /\ (IsLeaf(c)' <=> pages[b.root].leaf = TRUE)
  BY <1>0, <1>6, <1>7 DEF ListOf, Inodes, IsLeaf, PageNode, Page
<1>r. ASSUME NEW r, NEW x PROVE RootOf(r, x)' <=> RootOf(r, x)
  BY <1>0 DEF RootOf, Sole
<1>10. ObjectsAreBuckets'
  <2>1. Len(c) <= MaxDepth
    BY <1>3, <1>5, <1>p, BucketAssumption
  <2>2. ASSUME NEW x \in DOMAIN opened'
        PROVE  /\ x \in Seq(Names) /\ Len(x) <= MaxDepth
               /\ opened'[x] \in Objects /\ LeafList(opened'[x].node) /\ InlineList(opened'[x].page)
               /\ opened'[x].dangling => opened'[x].root = 0
               /\ opened'[x].hasNode => mode \in {"rw", "spill"}
               /\ opened'[x].hasNode /\ opened'[x].root # 0 => pages[opened'[x].root].leaf
    <3>1. CASE x = c
      BY <1>4, <1>5, <1>6, <1>7, <2>1, <3>1, EmptyLeafList
    <3>2. CASE x \in DOMAIN opened
      BY <1>0, <1>d, <1>7, <3>2 DEF ObjectsAreBuckets
    <3> QED
      BY <1>7, <3>1, <3>2
  <2> QED
    BY <1>0, <1>7, <2>2 DEF ObjectsAreBuckets
<1>11. ObjectsHaveRoots'
  <2>1. ASSUME NEW x \in DOMAIN opened'
        PROVE  /\ RootOf(opened'[x].root, x) /\ opened'[x].root \notin freed
               /\ x = <<>> => opened'[x].root = rootPage
    <3>1. CASE x = c
      <4>1. freed = {}
        BY <1>0 DEF TreeInv, CommitProceeds
      <4> QED
        BY <1>3, <1>5, <1>6, <1>7, <3>1, <4>1
    <3>2. CASE x \in DOMAIN opened
      BY <1>0, <1>d, <1>7, <3>2 DEF ObjectsHaveRoots
    <3> QED
      BY <1>7, <3>1, <3>2
  <2> QED
    BY <1>0, <1>d, <1>r, <2>1 DEF ObjectsHaveRoots
<1>12. ObjectsAreElements'
  <2>1. ASSUME NEW x \in DOMAIN opened' \ {<<>>}
        PROVE  Front(x) \in DOMAIN opened' /\ InPlace(x)'
    <3>1. CASE x = c
      <4>1. Front(x) = p /\ Last(x) = k
        BY <1>5, <3>1
      <4>2. opened'[x].root = inode.value.root /\ opened'[x].page = inode.value.page
        BY <1>6, <1>7, <3>1
      <4>3. CASE IsLeaf(p)
        <5>1. IsLeaf(p)' /\ inode \in BucketsIn(ToSet(ListOf(p)'))
          BY <1>e, <1>8, <4>3
        <5>2. HasElement(x, ListOf(Front(x)))'
          BY <1>d, <1>2, <4>1, <4>2, <5>1 DEF HasElement
        <5> QED
          BY <1>7, <4>1, <5>1, <5>2 DEF InPlace
      <4>4. CASE ~IsLeaf(p)
        <5>1. PICK u \in ToSet(pages[opened[p].root].inodes) :
                inode \in BucketsIn(ToSet(pages[u.pageId].inodes))
          BY <1>e, <4>4
        <5>2. HasElement(x, pages[u.pageId].inodes)'
          BY <1>0, <1>d, <1>2, <4>1, <4>2, <5>1 DEF HasElement
        <5>3. ~IsLeaf(p)' /\ u \in ToSet(pages'[opened'[p].root].inodes)
          BY <1>0, <1>7, <1>8, <4>4
        <5> QED
          BY <1>d, <1>7, <4>1, <5>2, <5>3 DEF InPlace, BelowBranch
      <4> QED
        BY <4>3, <4>4
    <3>2. CASE x \in DOMAIN opened
      <4>1. Front(x) \in DOMAIN opened /\ InPlace(x)
        BY <1>0, <2>1, <3>2 DEF ObjectsAreElements
      <4>2. opened'[x] = opened[x] /\ opened'[Front(x)] = opened[Front(x)]
        BY <1>7, <3>2, <4>1
      <4>3. ListOf(Front(x))' = ListOf(Front(x)) /\ IsLeaf(Front(x))' = IsLeaf(Front(x))
        BY <1>8, <4>1
      <4> QED
        BY <1>0, <1>d, <1>7, <4>1, <4>2, <4>3, PlaceKept
    <3> QED
      BY <1>7, <3>1, <3>2
  <2> QED
    BY <2>1 DEF ObjectsAreElements
<1>13. ElementsLead'
  <2>1. ASSUME NEW x \in DOMAIN opened', opened'[x].hasNode,
               NEW i \in BucketsIn(ToSet(opened'[x].node))
        PROVE  /\ Len(x) < MaxDepth
               /\ Append(x, i.key) \in DOMAIN opened' \/ RootOf(i.value.root, Append(x, i.key))
    BY <1>0, <1>6, <1>7, <2>1 DEF ElementsLead
  <2>2. ASSUME NEW x \in DOMAIN opened', IsLeaf(x)', NEW q \in used,
               pages[q].of # <<>>, Front(pages[q].of) = x
        PROVE  \E i \in BucketsIn(ToSet(ListOf(x)')) : i.key = Last(pages[q].of)
    <3>1. CASE x = c
      <4>1. b.root = 0 \/ pages[b.root].leaf
        BY <1>9, <2>2, <3>1
      <4>2. /\ b.root # 0
            /\ \E i \in BucketsIn(ToSet(pages[b.root].inodes)) : i.key = Last(pages[q].of)
        BY <1>3, <1>6, <2>2, <3>1, <4>1, RootListsAll
      <4> QED
        BY <1>9, <3>1, <4>2
    <3>2. CASE x \in DOMAIN opened
      BY <1>0, <1>8, <2>2, <3>2 DEF ElementsLead
    <3> QED
      BY <1>7, <3>1, <3>2
  <2> QED
    BY <1>0, <1>r, <2>1, <2>2 DEF ElementsLead
<1> QED
  BY <1>10, <1>11, <1>12, <1>13 DEF ObjectsInv

\* A bucket is created and opened.
LEMMA CreateKeeps ==
  ASSUME TreeInv, NEW p \in DOMAIN opened, NEW k \in Names, CreateBucket(p, k)
  PROVE  ObjectsInv'
<1>0. /\ ObjectsAreBuckets /\ ObjectsHaveRoots /\ ObjectsAreElements /\ ElementsLead
      /\ PagesHoldLists /\ CommitProceeds
      /\ UNCHANGED <<pages, used, rootPage, todo, freed, written>>
      /\ mode = "rw" /\ mode' = mode /\ IsLeaf(p) /\ Len(p) < MaxDepth
  BY DEF TreeInv, file, spill, CreateBucket, InCall
<1>d. \A x : ~Done(x) /\ ~Done(x)'
  BY <1>0 DEF Done
<1> DEFINE c == Append(p, k)
           value == InlineValue(<<>>)
           e == Leaf(k, bucketLeafFlag, value)
           o == IF c \in DOMAIN opened THEN opened[c] ELSE openBucket(value, TRUE)
<1>1. PICK bytes \in Bytes(p) :
        /\ Found(p, k, bytes) = {}
        /\ opened' = With([opened EXCEPT ![p] =
                             WithNode(@, Inodes(p, bytes), put(Inodes(p, bytes), k, e))], c, o)
  BY DEF CreateBucket
<1> DEFINE old == Inodes(p, bytes)
           new == put(old, k, e)
           b == WithNode(opened[p], old, new)
<1>v. /\ value.root = 0 /\ value.page = <<>> /\ BucketValue(value)
      /\ value \in [len : Nat, root : PageIds \cup {0}, page : Seq(PlainInodes)]
  BY EmptyInline, InlineValueFacts
<1> HIDE DEF value
<1>2. LeafList(old) /\ BucketsIn(ToSet(old)) = BucketsIn(ToSet(ListOf(p)))
  BY <1>0, ObjectList
<1>3. \A i \in ToSet(old) : i.key # k
  <2>1. k \in Int
    BY KeyFacts
  <2> QED
    BY <1>0, <1>1, <2>1, FoundFacts
<1> HIDE DEF old
<1>4. /\ LeafList(new) /\ e.key = k /\ e.value = value
      /\ BucketsIn(ToSet(new)) = {i \in BucketsIn(ToSet(old)) : i.key # k} \cup {e}
  BY <1>2, <1>v, PutBucket
<1>5. BucketsIn(ToSet(new)) = BucketsIn(ToSet(ListOf(p))) \cup {e}
  BY <1>2, <1>3, <1>4 DEF BucketsIn
<1> HIDE DEF new, e
<1>6. opened[p] \in Objects /\ p \in Seq(Names)
  BY <1>0 DEF ObjectsAreBuckets
<1>7. b \in Objects /\ Noded(b, opened[p], new)
  BY <1>2, <1>4, <1>6, WithNodeType, WithNodeFacts
<1>8. /\ b.hasNode = TRUE /\ b.node = new /\ b.root = opened[p].root
      /\ b.page = opened[p].page /\ b.dangling = opened[p].dangling
  BY <1>7 DEF Noded
<1>9. c \in Seq(Names) /\ c # <<>> /\ Len(c) = Len(p) + 1 /\ Front(c) = p /\ Last(c) = k
  BY <1>6, ChildPath
<1>10. c \notin DOMAIN opened =>
         /\ o \in Objects /\ o.root = 0 /\ o.page = <<>> /\ o.hasNode = FALSE /\ o.node = <<>>
  <2>1. /\ 0 \in PageIds \cup {0} /\ <<>> \in Seq(PlainInodes)
        /\ (value.root = 0 /\ TRUE) \in BOOLEAN
    OBVIOUS
  <2> QED
    BY <1>v, <2>1, NewBucketFacts DEF openBucket
<1>k. \A i \in BucketsIn(ToSet(ListOf(p))) : i.key # k
  BY <1>2, <1>3 DEF BucketsIn
<1>o. c \in DOMAIN opened => o = opened[c]
  OBVIOUS
<1> HIDE DEF b, c, o
<1>11. /\ DOMAIN opened' = DOMAIN opened \cup {c} /\ opened'[c] = o /\ opened'[p] = b /\ p # c
       /\ \A x \in DOMAIN opened : x # p => opened'[x] = opened[x]
  <2> DEFINE f == [opened EXCEPT ![p] = b]
  <2>1. DOMAIN f = DOMAIN opened /\ f[p] = b /\ \A x \in DOMAIN opened : x # p => f[x] = opened[x]
    OBVIOUS
  <2>2. opened' = With(f, c, o)
    BY <1>1 DEF b, old, new, o, c
  <2>3. p # c
    BY <1>6, <1>9, ParentPath
  <2> HIDE DEF f
  <2> QED
    BY <1>o, <2>1, <2>2, <2>3 DEF With
<1>12. ASSUME NEW x \in DOMAIN opened
       PROVE  /\ opened'[x].root = opened[x].root /\ opened'[x].page = opened[x].page
              /\ opened'[x].dangling = opened[x].dangling
              /\ \A i \in BucketsIn(ToSet(ListOf(x))) : i \in BucketsIn(ToSet(ListOf(x)'))
              /\ \A i \in BucketsIn(ToSet(ListOf(x)')) :
                   i \in BucketsIn(ToSet(ListOf(x))) \/ (x = p /\ i = e)
              /\ IsLeaf(x)' <=> IsLeaf(x)
  <2>1. CASE x = p
    <3>1. ListOf(p)' = new /\ IsLeaf(p)'
      BY <1>8, <1>11 DEF ListOf, Inodes, IsLeaf, PageNode
    <3> QED
      BY <1>0, <1>5, <1>8, <1>11, <2>1, <3>1
  <2>2. CASE x # p
    <3>1. ListOf(x)' = ListOf(x) /\ IsLeaf(x)' = IsLeaf(x)
      BY <1>0, <1>11, <2>2, SameList
    <3> QED
      BY <1>11, <2>2, <3>1
  <2> QED
    BY <2>1, <2>2
<1>13. /\ c \notin DOMAIN opened => ListOf(c)' = <<>> /\ IsLeaf(c)'
       /\ e \in BucketsIn(ToSet(ListOf(p)')) /\ IsLeaf(p)'
  BY <1>5, <1>8, <1>10, <1>11 DEF ListOf, Inodes, IsLeaf, PageNode, Page
<1>r. ASSUME NEW r, NEW x PROVE RootOf(r, x)' <=> RootOf(r, x)
  BY <1>0 DEF RootOf, Sole
<1>14. RootOf(0, c)
  <2> SUFFICES ASSUME NEW q \in used, pages[q].of = c PROVE FALSE
    BY DEF RootOf, Sole
  <2>1. \E i \in BucketsIn(ToSet(ListOf(p))) : i.key = k
    BY <1>0, <1>9 DEF ElementsLead
  <2> QED
    BY <1>k, <2>1
<1>15. ObjectsAreBuckets'
  <2>1. Len(c) <= MaxDepth
    BY <1>0, <1>6, <1>9, BucketAssumption
  <2>2. ASSUME NEW x \in DOMAIN opened'
        PROVE  /\ x \in Seq(Names) /\ Len(x) <= MaxDepth
               /\ opened'[x] \in Objects /\ LeafList(opened'[x].node) /\ InlineList(opened'[x].page)
               /\ opened'[x].dangling => opened'[x].root = 0
               /\ opened'[x].hasNode /\ opened'[x].root # 0 => pages[opened'[x].root].leaf
    <3>1. CASE x = c /\ c \notin DOMAIN opened
      BY <1>9, <1>10, <1>11, <2>1, <3>1, EmptyLeafList, EmptyInline
    <3>2. CASE x = p
      <4>1. opened[p].root # 0 => pages[opened[p].root].leaf
        <5>1. CASE opened[p].hasNode
          BY <1>0, <1>d, <5>1 DEF ObjectsAreBuckets
        <5>2. CASE ~opened[p].hasNode
          BY <1>0, <5>2 DEF IsLeaf, PageNode
        <5> QED
          BY <5>1, <5>2
      <4> QED
        BY <1>0, <1>d, <1>4, <1>7, <1>8, <1>11, <3>2, <4>1 DEF ObjectsAreBuckets
    <3>3. CASE x \in DOMAIN opened /\ x # p
      BY <1>0, <1>d, <1>11, <3>3 DEF ObjectsAreBuckets
    <3> QED
      BY <1>11, <3>1, <3>2, <3>3
  <2> QED
    BY <1>0, <1>11, <2>2 DEF ObjectsAreBuckets
<1>16. ObjectsHaveRoots'
  <2>1. ASSUME NEW x \in DOMAIN opened'
        PROVE  /\ RootOf(opened'[x].root, x) /\ opened'[x].root \notin freed
               /\ x = <<>> => opened'[x].root = rootPage
    <3>1. CASE x = c /\ c \notin DOMAIN opened
      <4>1. freed = {}
        BY <1>0 DEF CommitProceeds
      <4> QED
        BY <1>9, <1>10, <1>11, <1>14, <3>1, <4>1
    <3>2. CASE x \in DOMAIN opened
      BY <1>0, <1>d, <1>12, <3>2 DEF ObjectsHaveRoots
    <3> QED
      BY <1>11, <3>1, <3>2
  <2> QED
    BY <1>0, <1>d, <1>r, <2>1 DEF ObjectsHaveRoots
<1>17. ObjectsAreElements'
  <2>1. ASSUME NEW x \in DOMAIN opened' \ {<<>>}
        PROVE  Front(x) \in DOMAIN opened' /\ InPlace(x)'
    <3>1. CASE x = c
      <4>1. Front(x) = p /\ Last(x) = k
        BY <1>9, <3>1
      <4>2. opened'[x].root = 0 /\ opened'[x].page = <<>>
        <5>1. CASE c \notin DOMAIN opened
          BY <1>10, <1>11, <3>1, <5>1
        <5>2. CASE c \in DOMAIN opened
          <6>1. InPlace(c)
            BY <1>0, <1>9, <5>2 DEF ObjectsAreElements
          <6>2. ~HasElement(c, ListOf(Front(c)))
            BY <1>9, <1>k DEF HasElement
          <6>3. Loose(c)
            BY <1>0, <1>9, <6>1, <6>2 DEF InPlace, BelowBranch
          <6> QED
            BY <1>11, <1>o, <3>1, <5>2, <6>3 DEF Loose
        <5> QED
          BY <5>1, <5>2
      <4>3. HasElement(x, ListOf(Front(x)))'
        BY <1>d, <1>4, <1>13, <1>v, <4>1, <4>2 DEF HasElement
      <4> QED
        BY <1>11, <1>13, <4>1, <4>3 DEF InPlace
    <3>2. CASE x \in DOMAIN opened /\ x # c
      <4>1. Front(x) \in DOMAIN opened /\ InPlace(x)
        BY <1>0, <2>1, <3>2 DEF ObjectsAreElements
      <4>2. opened[Front(x)].hasNode => opened'[Front(x)].hasNode
        BY <1>8, <1>11, <4>1
      <4>3. ASSUME NEW i \in BucketsIn(ToSet(ListOf(Front(x))')), i.key = Last(x)
            PROVE  i \in BucketsIn(ToSet(ListOf(Front(x))))
        <5> SUFFICES ASSUME Front(x) = p, i = e PROVE FALSE
          BY <1>12, <4>1, <4>3
        <5>1. x \in Seq(Names) /\ Last(x) = k
          BY <1>0, <1>4, <3>2, <4>3 DEF ObjectsAreBuckets
        <5>2. x = Append(p, k)
          BY <2>1, <5>1, ParentPath
        <5> QED
          BY <3>2, <5>2 DEF c
      <4> QED
        BY <1>0, <1>d, <1>11, <1>12, <3>2, <4>1, <4>2, <4>3, PlaceKept
    <3> QED
      BY <1>11, <3>1, <3>2
  <2> QED
    BY <2>1 DEF ObjectsAreElements
<1>18. ElementsLead'
  <2>1. ASSUME NEW x \in DOMAIN opened', opened'[x].hasNode,
               NEW i \in BucketsIn(ToSet(opened'[x].node))
        PROVE  /\ Len(x) < MaxDepth
               /\ Append(x, i.key) \in DOMAIN opened' \/ RootOf(i.value.root, Append(x, i.key))
    <3>1. CASE x = p
      <4>1. i \in BucketsIn(ToSet(ListOf(p))) \/ i = e
        BY <1>5, <1>8, <1>11, <2>1, <3>1
      <4>2. CASE i = e
        BY <1>0, <1>4, <1>11, <3>1, <4>2 DEF c
      <4>3. CASE i \in BucketsIn(ToSet(ListOf(p)))
        BY <1>0, <1>11, <3>1, <4>3, ElementsAreRoots
      <4> QED
        BY <4>1, <4>2, <4>3
    <3>2. CASE x # p
      BY <1>0, <1>10, <1>11, <2>1, <3>2 DEF ElementsLead
    <3> QED
      BY <3>1, <3>2
  <2>2. ASSUME NEW x \in DOMAIN opened', IsLeaf(x)', NEW q \in used,
               pages[q].of # <<>>, Front(pages[q].of) = x
        PROVE  \E i \in BucketsIn(ToSet(ListOf(x)')) : i.key = Last(pages[q].of)
    <3>1. CASE x = c /\ c \notin DOMAIN opened
      BY <1>14, <2>2, <3>1, RootListsAll
    <3>2. CASE x \in DOMAIN opened
      <4>1. \E i \in BucketsIn(ToSet(ListOf(x))) : i.key = Last(pages[q].of)
        BY <1>0, <1>12, <2>2, <3>2 DEF ElementsLead
      <4> QED
        BY <1>12, <3>2, <4>1
    <3> QED
      BY <1>11, <3>1, <3>2
  <2> QED
    BY <1>0, <1>r, <2>1, <2>2 DEF ElementsLead
<1> QED
  BY <1>15, <1>16, <1>17, <1>18 DEF ObjectsInv

---------------------------------------------------------------------------
(* The steps of a commit.                                                  *)

\* An object that stays, over objects and pages that stay, keeps its place.
LEMMA PlaceUnchanged ==
  ASSUME NEW x, InPlace(x), Done(x)' <=> Done(x), UNCHANGED <<pages, opened>>
  PROVE  InPlace(x)'
<1>1. ASSUME NEW p PROVE ListOf(p)' = ListOf(p) /\ IsLeaf(p)' = IsLeaf(p)
  BY SameList
<1>3. Loose(x)' <=> Loose(x)
  BY <1>1 DEF Loose
<1>4. BelowBranch(x)' <=> BelowBranch(x)
  <2>1. ASSUME NEW c PROVE HasElement(x, pages[c.pageId].inodes)' <=> HasElement(x, pages[c.pageId].inodes)
    BY DEF HasElement
  <2> QED
    BY <1>1, <2>1 DEF BelowBranch
<1>5. HasElement(x, ListOf(Front(x)))' <=> HasElement(x, ListOf(Front(x)))
  BY <1>1 DEF HasElement
<1> QED
  BY <1>1, <1>3, <1>4, <1>5 DEF InPlace

\* The beginning of a commit changes no object.
LEMMA StartCommitKeeps ==
  ASSUME TreeInv, StartCommit
  PROVE  TreeInv'
<1>0. /\ ObjectsAreBuckets /\ ObjectsHaveRoots /\ ObjectsAreElements /\ ElementsLead
      /\ PagesHoldLists /\ PagesFormTree /\ CommitProceeds
      /\ UNCHANGED <<pages, used, rootPage, opened, freed, written>>
      /\ mode = "rw" /\ mode' = "spill" /\ todo' = DOMAIN opened
  BY DEF TreeInv, file, StartCommit
<1>1. \A x \in DOMAIN opened : ~Done(x) /\ ~Done(x)'
  BY <1>0 DEF Done
<1>2. ASSUME NEW x PROVE ListOf(x)' = ListOf(x) /\ IsLeaf(x)' = IsLeaf(x)
  BY <1>0, SameList
<1>r. ASSUME NEW r, NEW x PROVE RootOf(r, x)' <=> RootOf(r, x)
  BY <1>0 DEF RootOf, Sole
<1>3. PagesHoldLists'
  BY <1>0 DEF PagesHoldLists, BranchList
<1>4. PagesFormTree'
  BY <1>0, <1>r DEF PagesFormTree
<1>5. ObjectsAreBuckets'
  BY <1>0, <1>1 DEF ObjectsAreBuckets
<1>6. ObjectsHaveRoots'
  BY <1>0, <1>1, <1>r DEF ObjectsHaveRoots
<1>7. ObjectsAreElements'
  BY <1>0, <1>1, PlaceUnchanged DEF ObjectsAreElements
<1>8. ElementsLead'
  BY <1>0, <1>2, <1>r DEF ElementsLead
<1>9. freed = {} /\ written = {}
  BY <1>0 DEF CommitProceeds
<1>10. CommitProceeds'
  <2>1. \A x \in DOMAIN opened \ {<<>>} : Front(x) \in DOMAIN opened
    BY <1>0 DEF ObjectsAreElements
  <2> QED
    BY <1>0, <1>1, <1>9, <2>1 DEF CommitProceeds
<1>11. WrittenHoldNodes'
  BY <1>0, <1>9 DEF WrittenHoldNodes
<1> QED
  BY <1>3, <1>4, <1>5, <1>6, <1>7, <1>8, <1>10, <1>11 DEF TreeInv

\* A bucket without a node is passed over.
LEMMA SpillNothingKeeps ==
  ASSUME TreeInv, NEW p \in todo, SpillNothing(p)
  PROVE  TreeInv'
<1>0. /\ ObjectsAreBuckets /\ ObjectsHaveRoots /\ ObjectsAreElements /\ ElementsLead
      /\ PagesHoldLists /\ PagesFormTree /\ CommitProceeds /\ WrittenHoldNodes
      /\ UNCHANGED <<pages, used, rootPage, opened, freed, written>>
      /\ mode = "spill" /\ mode' = "spill" /\ todo' = todo \ {p} /\ ~opened[p].hasNode
      /\ \A q \in todo : q = <<>> \/ Front(q) # p
  BY DEF TreeInv, file, SpillNothing, Ready
<1>1. ASSUME NEW x PROVE Done(x)' <=> Done(x)
  BY <1>0 DEF Done
<1>2. ASSUME NEW x PROVE ListOf(x)' = ListOf(x) /\ IsLeaf(x)' = IsLeaf(x)
  BY <1>0, SameList
<1>r. ASSUME NEW r, NEW x PROVE RootOf(r, x)' <=> RootOf(r, x)
  BY <1>0 DEF RootOf, Sole
<1>3. PagesHoldLists'
  BY <1>0 DEF PagesHoldLists, BranchList
<1>4. PagesFormTree'
  BY <1>0, <1>r DEF PagesFormTree
<1>5. ObjectsAreBuckets'
  BY <1>0, <1>1 DEF ObjectsAreBuckets
<1>6. ObjectsHaveRoots'
  BY <1>0, <1>1, <1>r DEF ObjectsHaveRoots
<1>7. ObjectsAreElements'
  BY <1>0, <1>1, PlaceUnchanged DEF ObjectsAreElements
<1>8. ElementsLead'
  BY <1>0, <1>2, <1>r DEF ElementsLead
<1>10. CommitProceeds'
  <2>1. todo' \subseteq DOMAIN opened
    BY <1>0 DEF CommitProceeds
  <2>2. \A x \in DOMAIN opened \ {<<>>} : x \in todo' => Front(x) \in todo'
    BY <1>0 DEF CommitProceeds
  <2>3. /\ \A x \in DOMAIN opened \ {<<>>} : Done(x)' => opened[Front(x)].hasNode
        /\ \A q \in freed : pages[q].of \in DOMAIN opened /\ Done(pages[q].of)'
    BY <1>0, <1>1 DEF CommitProceeds
  <2>4. ASSUME NEW x \in DOMAIN opened, Done(x)'
        PROVE  /\ \A q \in used : pages[q].of = x => q \in freed
               /\ opened[x].root = 0 => isinlineable(opened[x].node)
               /\ opened[x].root # 0 =>
                    \A i \in ToSet(opened[x].node) :
                      \E q \in written :
                        pages[q].leaf /\ pages[q].of = x /\ i \in ToSet(pages[q].inodes)
    BY <1>0, <1>1, <2>4 DEF CommitProceeds
  <2>5. freed \subseteq used /\ written \subseteq PageIds \ used
    BY <1>0 DEF CommitProceeds
  <2> QED
    BY <1>0, <2>1, <2>2, <2>3, <2>4, <2>5 DEF CommitProceeds
<1>11. WrittenHoldNodes'
  BY <1>0, <1>1 DEF WrittenHoldNodes, BranchList
<1> QED
  BY <1>3, <1>4, <1>5, <1>6, <1>7, <1>8, <1>10, <1>11 DEF TreeInv

\* The objects once p has root r and its parent's node an element x for it.
Moved(p, r, x) ==
  /\ DOMAIN opened' = DOMAIN opened
  /\ opened'[p] = [opened[p] EXCEPT !.root = r]
  /\ \A y \in DOMAIN opened : y # p /\ (p = <<>> \/ y # Front(p)) => opened'[y] = opened[y]
  /\ p # <<>> =>
       /\ opened'[Front(p)] \in Objects
       /\ \E new : /\ Noded(opened'[Front(p)], opened[Front(p)], new)
                   /\ LeafList(new) /\ new = put(ListOf(Front(p)), Last(p), x)
                   /\ BucketsIn(ToSet(new)) =
                        {i \in BucketsIn(ToSet(ListOf(Front(p)))) : i.key # Last(p)} \cup {x}

\* RootAfter of the root bucket makes them so.
LEMMA RootMoves ==
  ASSUME TreeInv, NEW r \in PageIds, opened' = [opened EXCEPT ![<<>>].root = r],
         <<>> \in DOMAIN opened, NEW x
  PROVE  Moved(<<>>, r, x)
  BY DEF Moved

\* PutInParent makes them so.
LEMMA ParentMoves ==
  ASSUME TreeInv, NEW p \in DOMAIN opened, p # <<>>, IsLeaf(Front(p)),
         NEW r \in PageIds \cup {0}, NEW v \in [len : Nat, root : PageIds \cup {0}, page : Seq(PlainInodes)],
         BucketValue(v),
         opened' = PutInParent(p, r, v)
  PROVE  Moved(p, r, Leaf(Last(p), bucketLeafFlag, v))
<1> DEFINE q == Front(p)
           old == ListOf(q)
           x == Leaf(Last(p), bucketLeafFlag, v)
           new == put(old, Last(p), x)
           b == WithNode(opened[q], old, new)
<1>1. /\ p \in Seq(Names) /\ q \in DOMAIN opened /\ IsLeaf(q)
      /\ opened[q] \in Objects
  BY DEF TreeInv, ObjectsAreElements, ObjectsAreBuckets
<1>2. q # p /\ Last(p) \in Names
  BY <1>1, ParentPath
<1>3. LeafList(old)
  BY <1>1, ListOfFacts
<1>4. opened' = [opened EXCEPT ![p].root = r, ![q] = WithNode(@, old, new)]
  BY DEF PutInParent, ListOf
<1>5. opened' = [opened EXCEPT ![p].root = r, ![q] = b]
  BY <1>1, <1>2, <1>4
<1>6. /\ LeafList(new)
      /\ BucketsIn(ToSet(new)) = {i \in BucketsIn(ToSet(old)) : i.key # Last(p)} \cup {x}
  <2> HIDE DEF old
  <2> QED
    BY <1>2, <1>3, PutBucket
<1>7. b \in Objects /\ Noded(b, opened[q], new)
  <2> HIDE DEF old, new
  <2> QED
    BY <1>1, <1>3, <1>6, WithNodeType, WithNodeFacts
<1> HIDE DEF b, old, new, x
<1>8. /\ DOMAIN opened' = DOMAIN opened
      /\ opened'[p] = [opened[p] EXCEPT !.root = r] /\ opened'[q] = b
      /\ \A y \in DOMAIN opened : y # p /\ y # q => opened'[y] = opened[y]
  <2> HIDE DEF q
  <2> QED
    BY <1>1, <1>2, <1>5
<1>9. p # <<>> =>
       /\ opened'[q] \in Objects
       /\ \E n : /\ Noded(opened'[q], opened[q], n)
                 /\ LeafList(n) /\ n = put(ListOf(q), Last(p), x)
                 /\ BucketsIn(ToSet(n)) =
                      {i \in BucketsIn(ToSet(ListOf(q))) : i.key # Last(p)} \cup {x}
  <2>1. BucketsIn(ToSet(new)) = {i \in BucketsIn(ToSet(ListOf(q))) : i.key # Last(p)} \cup {x}
    BY <1>6 DEF old
  <2>2. new = put(ListOf(q), Last(p), x)
    BY DEF new, old
  <2> HIDE DEF q
  <2> QED
    BY <1>6, <1>7, <1>8, <2>1, <2>2
<1> QED
  BY <1>8, <1>9 DEF Moved, x

\* The root and the pages a bucket p is given by a commit.
Placed(p, r, x) ==
  /\ r = 0 => p # <<>> /\ isinlineable(opened[p].node)
  /\ r # 0 => r \in written' /\ pages'[r].of = p
  /\ p # <<>> => /\ x \in LeafInodes /\ IsBucketInode(x)
                 /\ x.key = Last(p) /\ x.value.root = r
                 /\ r = 0 => x.value.page = opened[p].node
  /\ written \subseteq written' /\ written' \subseteq PageIds \ used
  /\ pages' \in [PageIds -> [leaf : BOOLEAN, inodes : Seq(LeafInodes \cup BranchInodes),
                             of : Seq(Names)]]
  /\ \A q \in PageIds : pages'[q].leaf => LeafList(pages'[q].inodes)
  /\ \A q \in used \cup written : pages'[q] = pages[q]
  /\ \A q \in written' \ written :
       /\ pages'[q].of = p /\ r # 0
       /\ pages'[q].leaf => ToSet(pages'[q].inodes) \subseteq ToSet(opened[p].node)
       /\ pages'[q].leaf /\ q # r => ~pages'[r].leaf
       /\ ~pages'[q].leaf => BranchList(pages[q].inodes, written, p)' /\ q = r
  /\ r # 0 => \A i \in ToSet(opened[p].node) :
                \E q \in written' :
                  pages'[q].leaf /\ pages'[q].of = p /\ i \in ToSet(pages'[q].inodes)

\* A bucket a commit has spilled has given up its pages, and its elements are
\* in pages that have been written or small enough for its parent's.
SpiltIsStored(y) ==
  Done(y) =>
    /\ \A q \in used : pages[q].of = y => q \in freed
    /\ opened[y].root = 0 => isinlineable(opened[y].node)
    /\ opened[y].root # 0 =>
         \A i \in ToSet(opened[y].node) :
           \E q \in written : pages[q].leaf /\ pages[q].of = y /\ i \in ToSet(pages[q].inodes)

\* A bucket is spilled.
LEMMA SpillKeeps ==
  ASSUME TreeInv, NEW p \in todo, Ready(p), opened[p].hasNode, p # <<>> => IsLeaf(Front(p)),
         NEW r \in PageIds \cup {0}, NEW x,
         mode' = "spill", UNCHANGED <<used, rootPage>>, todo' = todo \ {p},
         freed' = freed \cup ({opened[p].root} \ {0}),
         Moved(p, r, x), Placed(p, r, x)
  PROVE  TreeInv'
<1>0. /\ ObjectsAreBuckets /\ ObjectsHaveRoots /\ ObjectsAreElements /\ ElementsLead
      /\ PagesHoldLists /\ PagesFormTree /\ CommitProceeds /\ WrittenHoldNodes
      /\ mode = "spill" /\ \A y \in todo : y = <<>> \/ Front(y) # p
      /\ p \in DOMAIN opened
  BY DEF TreeInv, Ready, CommitProceeds
<1>z. 0 \notin PageIds /\ 0 \notin used /\ 0 \notin written
  BY <1>0, BucketAssumption DEF PagesHoldLists, CommitProceeds
<1>1. \A y \in DOMAIN opened : y \in Seq(Names) /\ opened[y] \in Objects
  BY <1>0 DEF ObjectsAreBuckets
<1> DEFINE up == Front(p)
<1>2. p # <<>> =>
        /\ up \in DOMAIN opened /\ up # p /\ Last(p) \in Names /\ Append(up, Last(p)) = p
        /\ up \in todo /\ IsLeaf(up) /\ ~Done(up) /\ Len(up) = Len(p) - 1
  <2> SUFFICES ASSUME p # <<>>
               PROVE  /\ up \in DOMAIN opened /\ up # p /\ Last(p) \in Names
                      /\ Append(up, Last(p)) = p
                      /\ up \in todo /\ IsLeaf(up) /\ ~Done(up) /\ Len(up) = Len(p) - 1
    OBVIOUS
  <2>1. up \in DOMAIN opened /\ IsLeaf(up) /\ up \in todo
    BY <1>0 DEF ObjectsAreElements, CommitProceeds
  <2>2. ~Done(up)
    BY <2>1 DEF Done
  <2> QED
    BY <1>0, <1>1, <2>1, <2>2, ParentPath
<1>3. ~Done(p)
  BY DEF Done
<1>m. /\ DOMAIN opened' = DOMAIN opened
      /\ opened'[p] = [opened[p] EXCEPT !.root = r]
      /\ \A y \in DOMAIN opened : y # p /\ (p = <<>> \/ y # up) => opened'[y] = opened[y]
  BY DEF Moved
<1>o. /\ opened'[p].root = r /\ opened'[p].page = opened[p].page
      /\ opened'[p].dangling = opened[p].dangling /\ opened'[p].hasNode = opened[p].hasNode
      /\ opened'[p].node = opened[p].node /\ opened'[p] \in Objects
  <2>1. opened[p] \in Objects
    BY <1>0, <1>1
  <2> DEFINE b == opened[p]
             c == opened'[p]
  <2>2. c = [b EXCEPT !.root = r] /\ b \in Objects
    BY <1>m, <2>1
  <2> HIDE DEF b, c
  <2>3. /\ c.root = r /\ c.page = b.page /\ c.dangling = b.dangling
        /\ c.hasNode = b.hasNode /\ c.node = b.node
    BY <2>2 DEF Objects
  <2>4. c \in Objects
    BY <2>2 DEF Objects
  <2> QED
    BY <2>3, <2>4 DEF b, c
<1>n. ASSUME p # <<>>
      PROVE  /\ opened'[up] \in Objects
             /\ opened'[up].hasNode = TRUE /\ opened'[up].root = opened[up].root
             /\ opened'[up].page = opened[up].page /\ opened'[up].dangling = opened[up].dangling
             /\ LeafList(opened'[up].node)
             /\ BucketsIn(ToSet(opened'[up].node)) =
                  {i \in BucketsIn(ToSet(ListOf(up))) : i.key # Last(p)} \cup {x}
             /\ ListOf(up)' = opened'[up].node /\ IsLeaf(up)'
  <2>1. /\ opened'[up] \in Objects
        /\ \E new : /\ Noded(opened'[up], opened[up], new)
                    /\ LeafList(new)
                    /\ BucketsIn(ToSet(new)) =
                         {i \in BucketsIn(ToSet(ListOf(up))) : i.key # Last(p)} \cup {x}
    BY <1>n DEF Moved
  <2>2. opened'[up].hasNode = TRUE
    BY <2>1 DEF Noded
  <2>3. ListOf(up)' = opened'[up].node /\ IsLeaf(up)'
    BY <2>2 DEF ListOf, Inodes, IsLeaf, PageNode
  <2> QED
    BY <2>1, <2>2, <2>3 DEF Noded
<1> HIDE DEF up
<1>4. ASSUME NEW y \in DOMAIN opened PROVE Done(y)' <=> Done(y) \/ y = p
  <2>1. CASE y = p
    BY <1>o, <2>1 DEF Done
  <2>2. CASE y # p /\ p # <<>> /\ y = up
    BY <1>2, <2>2 DEF Done
  <2>3. CASE y # p /\ (p = <<>> \/ y # up)
    BY <1>0, <1>m, <2>3 DEF Done
  <2> QED
    BY <2>1, <2>2, <2>3
<1>u. /\ \A q \in used \cup written : pages'[q] = pages[q]
      /\ written \subseteq written' /\ written' \subseteq PageIds \ used
      /\ used \subseteq PageIds
  BY <1>0 DEF Placed, PagesHoldLists
<1>l. /\ ListOf(p) = opened[p].node /\ IsLeaf(p)
      /\ ListOf(p)' = opened[p].node /\ IsLeaf(p)'
  <2>1. opened'[p].hasNode
    BY <1>o
  <2> QED
    BY <1>o, <2>1 DEF ListOf, Inodes, IsLeaf, PageNode
<1>5. ASSUME NEW y \in DOMAIN opened, p = <<>> \/ y # up
      PROVE  ListOf(y)' = ListOf(y) /\ (IsLeaf(y)' <=> IsLeaf(y))
  <2>1. CASE y = p
    BY <1>l, <2>1
  <2>2. CASE y # p
    <3>1. opened'[y] = opened[y]
      BY <1>5, <1>m, <2>2
    <3>2. opened[y].root = 0 \/ opened[y].hasNode \/ opened[y].root \in used
      BY <1>0 DEF ObjectsHaveRoots, RootOf, Done
    <3> QED
      BY <1>u, <3>1, <3>2, SameList
  <2> QED
    BY <2>1, <2>2
<1>6. ASSUME NEW y \in DOMAIN opened, y # p
      PROVE  /\ opened'[y].root = opened[y].root /\ opened'[y].page = opened[y].page
             /\ opened'[y].dangling = opened[y].dangling
             /\ opened[y].hasNode => opened'[y].hasNode
             /\ Done(y) => opened'[y] = opened[y]
  <2>1. CASE p # <<>> /\ y = up
    BY <1>2, <1>n, <2>1
  <2>2. CASE p = <<>> \/ y # up
    BY <1>6, <1>m, <2>2
  <2> QED
    BY <2>1, <2>2
<1>r. ASSUME NEW s, NEW y PROVE RootOf(s, y)' <=> RootOf(s, y)
  BY <1>u DEF RootOf, Sole
<1>7. PagesHoldLists'
  <2>1. /\ pages' \in [PageIds -> [leaf : BOOLEAN, inodes : Seq(LeafInodes \cup BranchInodes),
                                   of : Seq(Names)]]
        /\ \A q \in PageIds : pages'[q].leaf => LeafList(pages'[q].inodes)
    BY DEF Placed
  <2>2. ASSUME NEW q \in used, ~pages'[q].leaf
        PROVE  BranchList(pages[q].inodes, used, pages[q].of)'
    <3>1. pages'[q] = pages[q]
      BY <1>u
    <3>2. BranchList(pages[q].inodes, used, pages[q].of)
      BY <1>0, <2>2, <3>1 DEF PagesHoldLists
    <3> QED
      BY <1>u, <3>1, <3>2 DEF BranchList
  <2> QED
    BY <1>u, <2>1, <2>2 DEF PagesHoldLists
<1>8. PagesFormTree'
  BY <1>0, <1>u, <1>r DEF PagesFormTree
<1>9. ObjectsAreBuckets'
  <2>1. ASSUME NEW y \in DOMAIN opened
        PROVE  /\ opened'[y] \in Objects
               /\ InlineList(opened'[y].page) /\ LeafList(opened'[y].node)
               /\ opened'[y].dangling => opened'[y].root = 0 \/ Done(y)'
               /\ opened'[y].hasNode /\ ~Done(y)' /\ opened'[y].root # 0 =>
                    pages'[opened'[y].root].leaf
    <3>1. CASE y = p
      BY <1>0, <1>4, <1>o, <3>1 DEF ObjectsAreBuckets
    <3>2. CASE y # p /\ p # <<>> /\ y = up
      <4>1. opened[up].root # 0 => pages'[opened[up].root].leaf
        <5>1. CASE opened[up].hasNode
          <6>1. opened[up].root # 0 => opened[up].root \in used /\ pages[opened[up].root].leaf
            BY <1>0, <1>2, <3>2, <5>1 DEF ObjectsAreBuckets, ObjectsHaveRoots, RootOf
          <6> QED
            BY <1>u, <6>1
        <5>2. CASE ~opened[up].hasNode
          <6>1. opened[up].root # 0 => opened[up].root \in used
            BY <1>0, <1>2, <3>2 DEF ObjectsHaveRoots, RootOf
          <6>2. opened[up].root # 0 => pages[opened[up].root].leaf = TRUE
            BY <1>2, <3>2, <5>2, ReadList
          <6> QED
            BY <1>u, <6>1, <6>2
        <5> QED
          BY <5>1, <5>2
      <4>2. InlineList(opened[up].page) /\ (opened[up].dangling => opened[up].root = 0)
        BY <1>0, <1>2, <3>2 DEF ObjectsAreBuckets
      <4> QED
        BY <1>n, <3>2, <4>1, <4>2
    <3>3. CASE y # p /\ (p = <<>> \/ y # up)
      <4>1. opened'[y] = opened[y] /\ (Done(y)' <=> Done(y))
        BY <1>m, <1>4, <3>3
      <4>2. ~Done(y) /\ opened[y].root # 0 => opened[y].root \in used
        BY <1>0 DEF ObjectsHaveRoots, RootOf
      <4> QED
        BY <1>0, <1>u, <4>1, <4>2 DEF ObjectsAreBuckets
    <3> QED
      BY <3>1, <3>2, <3>3
  <2>2. DOMAIN opened # {} /\ <<>> \in DOMAIN opened
    BY <1>0 DEF ObjectsAreBuckets
  <2> QED
    BY <1>0, <1>1, <1>m, <2>1, <2>2 DEF ObjectsAreBuckets
<1>10. ObjectsHaveRoots'
  <2>1. ASSUME NEW y \in DOMAIN opened, ~Done(y)'
        PROVE  /\ RootOf(opened'[y].root, y) /\ opened'[y].root \notin freed'
               /\ y = <<>> => opened'[y].root = rootPage
    <3>1. ~Done(y) /\ y # p /\ opened'[y].root = opened[y].root
      BY <1>4, <1>6, <2>1
    <3>2. /\ RootOf(opened[y].root, y) /\ opened[y].root \notin freed
          /\ y = <<>> => opened[y].root = rootPage
      BY <1>0, <3>1 DEF ObjectsHaveRoots
    <3>3. RootOf(opened[p].root, p)
      BY <1>0, <1>3 DEF ObjectsHaveRoots
    <3>4. opened[y].root \notin freed'
      BY <3>1, <3>2, <3>3 DEF RootOf
    <3> QED
      BY <3>1, <3>2, <3>4
  <2>2. ASSUME NEW y \in DOMAIN opened, Done(y)'
        PROVE  \/ y # <<>> /\ opened'[y].root = 0
               \/ opened'[y].root \in written' /\ pages'[opened'[y].root].of = y
    <3>1. CASE y = p
      BY <1>o, <3>1 DEF Placed
    <3>2. CASE y # p
      <4>1. Done(y) /\ opened'[y] = opened[y]
        BY <1>4, <1>6, <2>2, <3>2
      <4>2. \/ y # <<>> /\ opened[y].root = 0
            \/ opened[y].root \in written /\ pages[opened[y].root].of = y
        BY <1>0, <4>1 DEF ObjectsHaveRoots
      <4> QED
        BY <1>u, <4>1, <4>2
    <3> QED
      BY <3>1, <3>2
  <2> QED
    BY <1>m, <1>r, <2>1, <2>2 DEF ObjectsHaveRoots
<1>x. p # <<>> => /\ x \in LeafInodes /\ IsBucketInode(x) /\ x.key = Last(p) /\ x.value.root = r
                  /\ r = 0 => x.value.page = opened[p].node
  BY DEF Placed
<1>11. ObjectsAreElements'
  <2>1. ASSUME NEW y \in DOMAIN opened \ {<<>>}
        PROVE  Front(y) \in DOMAIN opened /\ InPlace(y)'
    <3>0. Front(y) \in DOMAIN opened /\ InPlace(y) /\ y \in Seq(Names)
      BY <1>0, <1>1, <2>1 DEF ObjectsAreElements
    <3>1. CASE y = p
      <4>1. Front(y) = up
        BY <3>1 DEF up
      <4>2. x \in BucketsIn(ToSet(ListOf(up)'))
        BY <1>n, <2>1, <3>1
      <4>3. HasElement(y, ListOf(Front(y)))'
        BY <1>4, <1>o, <1>x, <2>1, <3>1, <4>1, <4>2 DEF HasElement
      <4> QED
        BY <1>n, <2>1, <3>0, <3>1, <4>1, <4>3 DEF InPlace
    <3>2. CASE y # p
      <4>0. /\ opened'[y].root = opened[y].root /\ opened'[y].page = opened[y].page
            /\ Done(y)' <=> Done(y)
            /\ Done(y) => opened'[y].node = opened[y].node
        BY <1>4, <1>6, <2>1, <3>2
      <4>n. p # <<>> /\ Front(y) = up => Last(y) # Last(p)
        <5>1. Append(Front(y), Last(y)) = y
          BY <2>1, <3>0, ParentPath
        <5> QED
          BY <1>2, <3>2, <5>1
      <4>i. ASSUME NEW i, i.key = Last(y)
            PROVE  i \in BucketsIn(ToSet(ListOf(Front(y))')) <=> i \in BucketsIn(ToSet(ListOf(Front(y))))
        <5>1. CASE p # <<>> /\ Front(y) = up
          <6>1. x.key = Last(p)
            BY <1>x, <5>1
          <6> QED
            BY <1>n, <4>i, <4>n, <5>1, <6>1
        <5>2. CASE p = <<>> \/ Front(y) # up
          BY <1>5, <3>0, <5>2
        <5> QED
          BY <5>1, <5>2
      <4>l. IsLeaf(Front(y))' <=> IsLeaf(Front(y))
        <5>1. CASE p # <<>> /\ Front(y) = up
          BY <1>2, <1>n, <5>1
        <5>2. CASE p = <<>> \/ Front(y) # up
          BY <1>5, <3>0, <5>2
        <5> QED
          BY <5>1, <5>2
      <4>1. CASE IsLeaf(Front(y)) /\ HasElement(y, ListOf(Front(y)))
        <5>1. PICK i \in BucketsIn(ToSet(ListOf(Front(y)))) :
                /\ i.key = Last(y) /\ i.value.root = opened[y].root
                /\ opened[y].root = 0 =>
                     i.value.page = IF Done(y) THEN opened[y].node ELSE opened[y].page
          BY <4>1 DEF HasElement
        <5>2. HasElement(y, ListOf(Front(y)))'
          BY <4>0, <4>i, <5>1 DEF HasElement
        <5> QED
          BY <3>0, <4>1, <4>l, <5>2 DEF InPlace
      <4>2. CASE Loose(y)
        <5>1. opened'[Front(y)].hasNode
          BY <1>6, <1>o, <3>0, <4>2 DEF Loose
        <5>2. Loose(y)'
          BY <4>0, <4>2, <4>i, <5>1 DEF Loose
        <5> QED
          BY <3>0, <5>2 DEF InPlace
      <4>3. CASE BelowBranch(y)
        <5>1. ~IsLeaf(Front(y)) /\ ~Done(y)
          BY <4>3 DEF BelowBranch
        <5>2. ~Done(Front(y)) /\ Front(y) # p
          BY <1>l, <5>1 DEF Done, IsLeaf, PageNode
        <5>3. /\ opened[Front(y)].root \in used
              /\ BranchList(pages[opened[Front(y)].root].inodes, used, Front(y))
          BY <3>0, <5>1, <5>2, BranchObject
        <5>4. PICK c \in ToSet(pages[opened[Front(y)].root].inodes) :
                HasElement(y, pages[c.pageId].inodes)
          BY <4>3 DEF BelowBranch
        <5>5. c.pageId \in used
          BY <5>3, <5>4 DEF BranchList
        <5>6. pages'[c.pageId] = pages[c.pageId]
          BY <1>u, <5>5
        <5>7. HasElement(y, pages[c.pageId].inodes)'
          BY <4>0, <5>1, <5>4, <5>6 DEF HasElement
        <5>8. c \in ToSet(pages'[opened'[Front(y)].root].inodes)
          BY <1>6, <1>u, <3>0, <5>2, <5>3, <5>4
        <5> QED
          BY <3>0, <4>0, <4>l, <5>1, <5>7, <5>8 DEF BelowBranch, InPlace
      <4> QED
        BY <3>0, <4>1, <4>2, <4>3 DEF InPlace
    <3> QED
      BY <3>1, <3>2
  <2> QED
    BY <1>m, <2>1 DEF ObjectsAreElements
<1>12. ElementsLead'
  <2>1. ASSUME NEW y \in DOMAIN opened, opened'[y].hasNode,
               NEW i \in BucketsIn(ToSet(opened'[y].node))
        PROVE  /\ Len(y) < MaxDepth
               /\ Append(y, i.key) \in DOMAIN opened \/ RootOf(i.value.root, Append(y, i.key))
    <3>1. CASE y = p
      BY <1>0, <1>o, <2>1, <3>1 DEF ElementsLead
    <3>2. CASE y # p /\ p # <<>> /\ y = up
      <4>1. CASE i = x
        <5>1. Len(p) <= MaxDepth /\ p \in Seq(Names) /\ up \in Seq(Names)
          BY <1>0, <1>1, <1>2, <3>2 DEF ObjectsAreBuckets
        <5>2. Len(up) < MaxDepth
          BY <1>2, <3>2, <5>1, BucketAssumption
        <5> QED
          BY <1>0, <1>2, <1>x, <3>2, <4>1, <5>2
      <4>2. CASE i \in BucketsIn(ToSet(ListOf(up)))
        BY <1>2, <3>2, <4>2, ElementsAreRoots
      <4> QED
        BY <1>n, <2>1, <3>2, <4>1, <4>2
    <3>3. CASE y # p /\ (p = <<>> \/ y # up)
      BY <1>0, <1>m, <2>1, <3>3 DEF ElementsLead
    <3> QED
      BY <3>1, <3>2, <3>3
  <2>2. ASSUME NEW y \in DOMAIN opened, IsLeaf(y)', NEW q \in used,
               pages[q].of # <<>>, Front(pages[q].of) = y
        PROVE  \E i \in BucketsIn(ToSet(ListOf(y)')) : i.key = Last(pages[q].of)
    <3>1. CASE p # <<>> /\ y = up
      <4>1. PICK i \in BucketsIn(ToSet(ListOf(up))) : i.key = Last(pages[q].of)
        BY <1>0, <1>2, <2>2, <3>1 DEF ElementsLead
      <4>2. CASE i.key = Last(p)
        BY <1>n, <1>x, <3>1, <4>1, <4>2
      <4>3. CASE i.key # Last(p)
        BY <1>n, <3>1, <4>1, <4>3
      <4> QED
        BY <4>2, <4>3
    <3>2. CASE p = <<>> \/ y # up
      <4>1. ListOf(y)' = ListOf(y) /\ IsLeaf(y)
        BY <1>5, <2>2, <3>2
      <4> QED
        BY <1>0, <2>2, <4>1 DEF ElementsLead
    <3> QED
      BY <3>1, <3>2
  <2>3. ASSUME NEW y \in DOMAIN opened, IsLeaf(y)', NEW q \in used,
               pages'[q].of # <<>>, Front(pages'[q].of) = y
        PROVE  \E i \in BucketsIn(ToSet(ListOf(y)')) : i.key = Last(pages'[q].of)
    BY <1>u, <2>2, <2>3
  <2> QED
    BY <1>m, <1>r, <2>1, <2>3 DEF ElementsLead
<1>f. \A q \in used : pages[q].of = p => q \in freed'
  <2>1. opened[p].root # 0 => pages[opened[p].root].leaf
    BY <1>0, <1>3 DEF ObjectsAreBuckets
  <2>2. RootOf(opened[p].root, p)
    BY <1>0, <1>3 DEF ObjectsHaveRoots
  <2>3. \A q \in used : pages[q].of = p => q = opened[p].root
    BY <2>1, <2>2 DEF RootOf, Sole
  <2> QED
    BY <1>z, <2>3
<1>13. CommitProceeds'
  <2>1. /\ todo' \subseteq DOMAIN opened /\ written' \subseteq PageIds \ used
    BY <1>0, <1>u DEF CommitProceeds
  <2>2. freed' \subseteq used
    <3>1. RootOf(opened[p].root, p)
      BY <1>0, <1>3 DEF ObjectsHaveRoots
    <3> QED
      BY <1>0, <3>1 DEF CommitProceeds, RootOf
  <2>3. ASSUME NEW y \in DOMAIN opened \ {<<>>}, y \in todo' PROVE Front(y) \in todo'
    BY <1>0, <2>3 DEF CommitProceeds
  <2>4. ASSUME NEW y \in DOMAIN opened \ {<<>>}, Done(y)' PROVE opened'[Front(y)].hasNode
    <3>1. CASE y = p
      BY <1>n, <2>4, <3>1 DEF up
    <3>2. CASE y # p
      <4>1. Front(y) \in DOMAIN opened /\ opened[Front(y)].hasNode
        BY <1>0, <1>4, <2>4, <3>2 DEF CommitProceeds, ObjectsAreElements
      <4> QED
        BY <1>6, <1>o, <4>1
    <3> QED
      BY <3>1, <3>2
  <2>5. ASSUME NEW q \in freed' PROVE pages'[q].of \in DOMAIN opened /\ Done(pages[q].of)'
    <3>1. CASE q \in freed
      <4>1. q \in used /\ pages[q].of \in DOMAIN opened /\ Done(pages[q].of)
        BY <1>0, <3>1 DEF CommitProceeds
      <4>2. PICK y \in DOMAIN opened : y = pages[q].of
        BY <4>1
      <4>3. Done(y)' /\ pages'[q].of = y
        BY <1>4, <1>u, <4>1, <4>2
      <4> QED
        BY <4>3
    <3>2. CASE q = opened[p].root /\ q # 0
      <4>1. q \in used /\ pages[q].of = p
        BY <1>0, <1>3, <3>2 DEF ObjectsHaveRoots, RootOf
      <4>3. Done(p)' /\ pages'[q].of = p
        BY <1>0, <1>4, <1>u, <4>1
      <4> QED
        BY <1>0, <4>3
    <3> QED
      BY <2>5, <3>1, <3>2
  <2>6. ASSUME NEW y \in DOMAIN opened, Done(y)'
        PROVE  /\ \A q \in used : pages'[q].of = y => q \in freed'
               /\ opened'[y].root = 0 => isinlineable(opened'[y].node)
               /\ opened'[y].root # 0 =>
                    \A i \in ToSet(opened'[y].node) :
                      \E q \in written' :
                        pages'[q].leaf /\ pages'[q].of = y /\ i \in ToSet(pages'[q].inodes)
    <3>1. CASE y = p
      <4>1. \A q \in used : pages'[q].of = y => q \in freed'
        BY <1>f, <1>u, <3>1
      <4>2. /\ r = 0 => isinlineable(opened[p].node)
            /\ r # 0 => \A i \in ToSet(opened[p].node) :
                 \E q \in written' :
                   pages'[q].leaf /\ pages'[q].of = p /\ i \in ToSet(pages'[q].inodes)
        BY DEF Placed
      <4> QED
        BY <1>o, <3>1, <4>1, <4>2
    <3>2. CASE y # p
      <4>1. Done(y) /\ opened'[y] = opened[y]
        BY <1>4, <1>6, <2>6, <3>2
      <4>2. /\ \A q \in used : pages[q].of = y => q \in freed
            /\ opened[y].root = 0 => isinlineable(opened[y].node)
            /\ opened[y].root # 0 =>
                 \A i \in ToSet(opened[y].node) :
                   \E q \in written :
                     pages[q].leaf /\ pages[q].of = y /\ i \in ToSet(pages[q].inodes)
        BY <1>0, <4>1 DEF CommitProceeds
      <4>3. \A q \in used : pages'[q].of = y => q \in freed'
        BY <1>u, <4>2
      <4>4. opened[y].root # 0 =>
              \A i \in ToSet(opened[y].node) :
                \E q \in written' :
                  pages'[q].leaf /\ pages'[q].of = y /\ i \in ToSet(pages'[q].inodes)
        BY <1>u, <4>2
      <4> QED
        BY <4>1, <4>2, <4>3, <4>4
    <3> QED
      BY <3>1, <3>2
  <2>7. /\ (mode = "spill" => \A y \in DOMAIN opened \ {<<>>} :
               /\ y \in todo => Front(y) \in todo
               /\ Done(y) => opened[Front(y)].hasNode)'
        /\ (mode # "spill" => todo = {} /\ freed = {} /\ written = {})'
    BY <1>m, <2>3, <2>4
  <2>8. (\A q \in freed : pages[q].of \in DOMAIN opened /\ Done(pages[q].of))'
    BY <1>m, <2>5
  <2>9. (\A y \in DOMAIN opened : SpiltIsStored(y))'
    <3>1. \A y \in DOMAIN opened : SpiltIsStored(y)'
      BY <2>6 DEF SpiltIsStored
    <3> QED
      BY <1>m, <3>1
  <2> QED
    BY <1>m, <2>1, <2>2, <2>7, <2>8, <2>9 DEF CommitProceeds, SpiltIsStored
<1>14. WrittenHoldNodes'
  <2>1. ASSUME NEW q \in written'
        PROVE  /\ pages'[q].of \in DOMAIN opened /\ Done(pages[q].of)'
               /\ opened'[pages'[q].of].root # 0
               /\ pages'[q].leaf =>
                    ToSet(pages'[q].inodes) \subseteq ToSet(opened'[pages'[q].of].node)
               /\ pages'[q].leaf /\ q # opened'[pages'[q].of].root =>
                    ~pages'[opened'[pages'[q].of].root].leaf
               /\ ~pages'[q].leaf => /\ BranchList(pages[q].inodes, written, pages[q].of)'
                                     /\ q = opened'[pages'[q].of].root
    <3>1. CASE q \in written
      <4>1. pages'[q] = pages[q]
        BY <1>u, <3>1
      <4>0. PICK y \in DOMAIN opened : y = pages[q].of
        BY <1>0, <3>1 DEF WrittenHoldNodes
      <4>2. /\ Done(y) /\ opened[y].root # 0
            /\ pages[q].leaf => ToSet(pages[q].inodes) \subseteq ToSet(opened[y].node)
            /\ pages[q].leaf /\ q # opened[y].root => ~pages[opened[y].root].leaf
            /\ ~pages[q].leaf => BranchList(pages[q].inodes, written, y) /\ q = opened[y].root
        BY <1>0, <3>1, <4>0 DEF WrittenHoldNodes
      <4>3. y # p /\ opened'[y] = opened[y] /\ Done(y)'
        BY <1>3, <1>4, <1>6, <4>2
      <4>4. pages'[opened[y].root] = pages[opened[y].root]
        BY <1>0, <1>u, <4>2 DEF ObjectsHaveRoots
      <4>5. ~pages[q].leaf => BranchList(pages[q].inodes, written, y)'
        BY <1>u, <4>1, <4>2 DEF BranchList
      <4>6. pages'[q].of = y
        BY <4>0, <4>1
      <4>7. Done(pages[q].of)' /\ (~pages[q].leaf => BranchList(pages[q].inodes, written, pages[q].of)')
        BY <4>3, <4>5, <4>6
      <4> QED
        BY <4>1, <4>2, <4>3, <4>4, <4>6, <4>7
    <3>2. CASE q \notin written
      <4>1. /\ pages'[q].of = p /\ r # 0
            /\ pages'[q].leaf => ToSet(pages'[q].inodes) \subseteq ToSet(opened[p].node)
            /\ pages'[q].leaf /\ q # r => ~pages'[r].leaf
            /\ ~pages'[q].leaf => BranchList(pages[q].inodes, written, p)' /\ q = r
        BY <3>2 DEF Placed
      <4>2. Done(p)'
        BY <1>0, <1>4
      <4>3. Done(pages[q].of)' /\ (~pages'[q].leaf => BranchList(pages[q].inodes, written, pages[q].of)')
        BY <4>1, <4>2
      <4> QED
        BY <1>0, <1>o, <4>1, <4>3
    <3> QED
      BY <3>1, <3>2
  <2> QED
    BY <1>m, <2>1 DEF WrittenHoldNodes
<1> QED
  BY <1>7, <1>8, <1>9, <1>10, <1>11, <1>12, <1>13, <1>14 DEF TreeInv

\* A small bucket is written into its parent.
LEMMA SpillInlineKeeps ==
  ASSUME TreeInv, NEW p \in todo, SpillInline(p)
  PROVE  TreeInv' /\ \E r, x : Moved(p, r, x) /\ Placed(p, r, x)
<1> DEFINE v == InlineValue(opened[p].node)
           x == Leaf(Last(p), bucketLeafFlag, v)
<1>0. /\ PagesHoldLists /\ CommitProceeds /\ ObjectsAreBuckets
      /\ Ready(p) /\ opened[p].hasNode /\ p # <<>> /\ isinlineable(opened[p].node)
      /\ opened' = PutInParent(p, 0, v)
      /\ UNCHANGED <<pages, written, used, rootPage, mode>> /\ todo' = todo \ {p}
      /\ freed' = freed \cup ({opened[p].root} \ {0})
      /\ p \in DOMAIN opened /\ mode' = "spill" /\ IsLeaf(Front(p))
  BY DEF TreeInv, SpillInline, Spilled, CommitProceeds, Ready, HasEntry
<1>1. p \in Seq(Names) /\ LeafList(opened[p].node)
  BY <1>0 DEF ObjectsAreBuckets
<1>2. Last(p) \in Names
  BY <1>0, <1>1, ParentPath
<1>3. InlineList(opened[p].node)
  BY <1>0, <1>1, SmallIsInline
<1>4. /\ v.root = 0 /\ v.page = opened[p].node /\ BucketValue(v)
      /\ v \in [len : Nat, root : PageIds \cup {0}, page : Seq(PlainInodes)]
  BY <1>3, InlineValueFacts
<1> HIDE DEF v
<1>5. x \in LeafInodes /\ IsBucketInode(x) /\ x.key = Last(p) /\ x.value = v
  BY <1>2, <1>4, MadeFacts
<1>6. Moved(p, 0, x)
  BY <1>0, <1>4, ParentMoves
<1> HIDE DEF x
<1>7. Placed(p, 0, x)
  <2>1. written \subseteq PageIds \ used
    BY <1>0 DEF CommitProceeds
  <2>2. /\ pages \in [PageIds -> [leaf : BOOLEAN, inodes : Seq(LeafInodes \cup BranchInodes),
                                  of : Seq(Names)]]
        /\ \A q \in PageIds : pages[q].leaf => LeafList(pages[q].inodes)
    BY <1>0 DEF PagesHoldLists
  <2> QED
    BY <1>0, <1>4, <1>5, <2>1, <2>2 DEF Placed
<1>8. TreeInv'
  BY <1>0, <1>6, <1>7, SpillKeeps
<1> QED
  BY <1>6, <1>7, <1>8

\* What DB::allocate gives.
LEMMA AllocationFacts ==
  ASSUME NEW n \in Nat, NEW ids \in Allocations(n), PageIds \subseteq Nat
  PROVE  /\ \A i \in 1 .. n : ids[i] \in PageIds /\ ids[i] \notin used /\ ids[i] \notin written
         /\ \A i, j \in 1 .. n : ids[i] = ids[j] => i = j
<1>1. \A i \in 1 .. n : ids[i] \in PageIds \ (used \cup written)
  BY DEF Allocations
<1>2. \A i, j \in 1 .. n : i < j => ids[i] < ids[j]
  BY DEF Allocations
<1>3. ASSUME NEW i \in 1 .. n, NEW j \in 1 .. n, ids[i] = ids[j] PROVE i = j
  <2>1. ids[i] \in Nat /\ ids[j] \in Nat
    BY <1>1
  <2>2. i < j => ids[i] < ids[j]
    BY <1>2
  <2>3. j < i => ids[j] < ids[i]
    BY <1>2
  <2> QED
    BY <1>3, <2>1, <2>2, <2>3
<1> QED
  BY <1>1, <1>3

\* The pieces of the node of p, the n pages ids for them and the page above.
Spills(p, pieces, n, ids) ==
  /\ Len(pieces) \in Nat /\ Len(pieces) >= 1 /\ n \in Nat /\ n >= Len(pieces)
  /\ n > Len(pieces) => n = Len(pieces) + 1 /\ Len(pieces) > 1
  /\ n = Len(pieces) => n = 1
  /\ \A i \in 1 .. Len(pieces) :
       /\ SpilledPage(p, pieces, ids, i) = Page(TRUE, pieces[i], p)
       /\ LeafList(pieces[i]) /\ ToSet(pieces[i]) \subseteq ToSet(opened[p].node)
       /\ n > 1 => pieces[i] # <<>>
  /\ \A x \in ToSet(opened[p].node) : \E i \in 1 .. Len(pieces) : x \in ToSet(pieces[i])
  /\ n > Len(pieces) =>
       \E s : /\ SpilledPage(p, pieces, ids, n) = Page(FALSE, s, p)
              /\ s \in Seq(BranchInodes) /\ s # <<>> /\ Len(s) < IndexMod
              /\ \A e \in ToSet(s) : \E i \in 1 .. Len(pieces) : e.pageId = ids[i]

\* What Node::spill writes: every element is in a piece, every piece in a page
\* that the page above them may point to.
LEMMA SpilledPageFacts ==
  ASSUME TreeInv, NEW p \in DOMAIN opened, NEW pieces, pieces = split(opened[p].node),
         NEW n, n = PageCount(pieces),
         NEW ids, \A i \in 1 .. n : ids[i] \in PageIds
  PROVE  Spills(p, pieces, n, ids)
<1>0. ObjectsAreBuckets
  BY DEF TreeInv
<1> DEFINE s == opened[p].node
           N == Len(pieces)
<1>1. LeafList(s) /\ opened[p] \in Objects
  BY <1>0 DEF ObjectsAreBuckets
<1>2. s \in Seq(LeafInodes) /\ Ordered(s) /\ Len(s) \in Nat /\ Len(s) < IndexMod - 1
  <2> HIDE DEF s
  <2> QED
    BY <1>1, ListFacts
<1>3. Pieces(pieces, s, LeafInodes)
  <2> HIDE DEF s
  <2> QED
    BY <1>2, SplitFacts DEF s
<1> HIDE DEF s
<1>4. /\ pieces \in Seq(Seq(LeafInodes)) /\ N \in 1 .. Len(s) + 1
      /\ \A i \in 1 .. N : /\ ToSet(pieces[i]) \subseteq ToSet(s) /\ Ordered(pieces[i])
                           /\ s # <<>> => pieces[i] # <<>>
      /\ \A x \in ToSet(s) : \E i \in 1 .. N : x \in ToSet(pieces[i])
  BY <1>2, <1>3 DEF Pieces
<1>5. N \in Nat /\ N >= 1 /\ N < IndexMod /\ (N > 1 => s # <<>>)
  <2>1. s = <<>> => Len(s) = 0
    OBVIOUS
  <2> QED
    BY <1>2, <1>4, <2>1, KeyFacts
<1>6. n = IF N = 1 THEN 1 ELSE N + 1
  BY DEF PageCount
<1>7. \A i \in 1 .. N : pieces[i] \in Seq(LeafInodes)
  BY <1>4, <1>5
<1>8. \A i \in 1 .. N : LeafList(pieces[i])
  BY <1>4, <1>7 DEF LeafList
<1>9. n \in Nat /\ n >= N /\ (n > N => n = N + 1 /\ N > 1) /\ (n = N => n = 1) /\ (n > 1 => N > 1)
  <2> HIDE DEF N
  <2> QED
    BY <1>5, <1>6
<1>10. \A i \in 1 .. N : SpilledPage(p, pieces, ids, i) = Page(TRUE, pieces[i], p)
  BY <1>5 DEF SpilledPage
<1>11. ASSUME n > N
       PROVE  \E t : /\ SpilledPage(p, pieces, ids, n) = Page(FALSE, t, p)
                     /\ t \in Seq(BranchInodes) /\ t # <<>> /\ Len(t) < IndexMod
                     /\ \A e \in ToSet(t) : \E i \in 1 .. N : e.pageId = ids[i]
  <2> DEFINE key == opened[p].key
             t == ParentOf(pieces, ids, key)
             B == {e \in BranchInodes : \E i \in 1 .. N : e.pageId = ids[i]}
  <2>1. n = N + 1 /\ N > 1
    BY <1>9, <1>11
  <2>2. ASSUME NEW i \in 1 .. N PROVE Branch(pieces[i][1].key, ids[i]) \in B
    <3>1. pieces[i] # <<>> /\ pieces[i] \in Seq(LeafInodes)
      BY <1>4, <1>5, <1>7, <2>1
    <3>2. pieces[i][1] \in LeafInodes
      BY <3>1
    <3>3. pieces[i][1].key \in Keys
      BY <3>2, LeafFacts
    <3>4. ids[i] \in PageIds
      BY <1>5, <2>1
    <3> DEFINE k == pieces[i][1].key
               e == Branch(k, ids[i])
    <3> HIDE DEF k
    <3>5. e.pageId = ids[i] /\ e \in BranchInodes
      BY <3>3, <3>4 DEF Branch, BranchInodes, k
    <3> QED
      BY <3>5 DEF k
  <2>3. Elements(B)
    BY KeyFacts DEF Elements, BranchInodes
  <2>4. key \in Int
    BY <1>1, KeyFacts DEF Objects, NoKey
  <2>5. pieces # <<>>
    BY <1>4, <1>5
  <2>6. pieces[1][1].key \in Int
    <3>1. pieces[1] # <<>> /\ pieces[1] \in Seq(LeafInodes)
      BY <1>4, <1>5, <1>7, <2>1
    <3>2. pieces[1][1] \in LeafInodes
      BY <3>1
    <3> QED
      BY <3>2, LeafFacts DEF Elements
  <2> HIDE DEF B, key
  <2>7. t \in Seq(B) /\ t # <<>> /\ Len(t) <= N
    BY <1>4, <2>2, <2>3, <2>4, <2>5, <2>6, ParentFacts
  <2>8. SpilledPage(p, pieces, ids, n) = Page(FALSE, t, p)
    <3>1. ~(n <= N)
      <4> HIDE DEF N
      <4> QED
        BY <1>5, <2>1
    <3> QED
      BY <3>1 DEF SpilledPage, key
  <2> HIDE DEF t
  <2>9. B \subseteq BranchInodes /\ ToSet(t) \subseteq B
    BY <2>7, ToSetFacts DEF B
  <2>10. t \in Seq(BranchInodes) /\ Len(t) < IndexMod
    <3>1. t \in Seq(BranchInodes)
      BY <2>7, <2>9, SeqMonotonic
    <3>2. Len(t) \in Nat
      BY <3>1
    <3> QED
      BY <1>5, <2>7, <3>1, <3>2, KeyFacts
  <2>11. \A e \in ToSet(t) : \E i \in 1 .. N : e.pageId = ids[i]
    BY <2>9 DEF B
  <2> QED
    BY <2>7, <2>8, <2>10, <2>11
<1>12. \A i \in 1 .. N : n > 1 => pieces[i] # <<>>
  BY <1>4, <1>5, <1>9
<1> QED
  BY <1>4, <1>5, <1>8, <1>9, <1>10, <1>11, <1>12 DEF s, Spills

\* A node is written to pages of its own.
LEMMA SpillNodeKeeps ==
  ASSUME TreeInv, NEW p \in todo, SpillNode(p)
  PROVE  TreeInv' /\ \E r, x : Moved(p, r, x) /\ Placed(p, r, x)
<1>0. /\ PagesHoldLists /\ CommitProceeds /\ ObjectsAreBuckets
      /\ Ready(p) /\ opened[p].hasNode
      /\ UNCHANGED <<used, rootPage, mode>> /\ todo' = todo \ {p}
      /\ freed' = freed \cup ({opened[p].root} \ {0})
      /\ p \in DOMAIN opened /\ mode' = "spill" /\ (p # <<>> => IsLeaf(Front(p)))
  BY DEF TreeInv, SpillNode, Spilled, CommitProceeds, Ready, HasEntry
<1>a. PICK pieces : pieces = split(opened[p].node)
  OBVIOUS
<1>b. PICK n : n = PageCount(pieces)
  OBVIOUS
<1> DEFINE N == Len(pieces)
<1>1. PICK ids \in Allocations(n) :
        /\ pages' = [q \in PageIds |->
                       IF \E i \in 1 .. n : q = ids[i]
                       THEN SpilledPage(p, pieces, ids, CHOOSE i \in 1 .. n : q = ids[i])
                       ELSE pages[q]]
        /\ written' = written \cup {ids[i] : i \in 1 .. n}
        /\ opened' = RootAfter(p, ids[n])
  BY <1>a, <1>b DEF SpillNode
<1> DEFINE r == ids[n]
<1>p. p \in Seq(Names)
  BY <1>0 DEF ObjectsAreBuckets
<1>n. n \in Nat
  <2>2. opened[p].node \in Seq(LeafInodes)
    BY <1>0 DEF ObjectsAreBuckets, LeafList
  <2>3. Pieces(pieces, opened[p].node, LeafInodes)
    BY <1>a, <2>2, SplitFacts
  <2>4. Len(pieces) \in Nat
    BY <2>2, <2>3 DEF Pieces
  <2> QED
    BY <1>b, <2>4 DEF PageCount
<1>2. /\ \A i \in 1 .. n : ids[i] \in PageIds /\ ids[i] \notin used /\ ids[i] \notin written
      /\ \A i, j \in 1 .. n : ids[i] = ids[j] => i = j
  BY <1>1, <1>n, BucketAssumption, AllocationFacts
<1>3. /\ N \in Nat /\ N >= 1 /\ n >= N
      /\ n > N => n = N + 1 /\ N > 1
      /\ n = N => n = 1
      /\ \A i \in 1 .. N :
           /\ SpilledPage(p, pieces, ids, i) = Page(TRUE, pieces[i], p)
           /\ LeafList(pieces[i]) /\ ToSet(pieces[i]) \subseteq ToSet(opened[p].node)
           /\ n > 1 => pieces[i] # <<>>
      /\ \A x \in ToSet(opened[p].node) : \E i \in 1 .. N : x \in ToSet(pieces[i])
      /\ n > N =>
           \E s : /\ SpilledPage(p, pieces, ids, n) = Page(FALSE, s, p)
                  /\ s \in Seq(BranchInodes) /\ s # <<>> /\ Len(s) < IndexMod
                  /\ \A e \in ToSet(s) : \E i \in 1 .. N : e.pageId = ids[i]
  <2>1. p \in DOMAIN opened /\ \A i \in 1 .. n : ids[i] \in PageIds
    BY <1>0, <1>2
  <2>2. Spills(p, pieces, n, ids)
    BY <1>a, <1>b, <2>1, SpilledPageFacts
  <2> QED
    BY <2>2 DEF Spills
<1> HIDE DEF N
<1>4. /\ \A i \in 1 .. n : pages'[ids[i]] = SpilledPage(p, pieces, ids, i)
      /\ \A q \in PageIds : (\A i \in 1 .. n : q # ids[i]) => pages'[q] = pages[q]
  <2>1. ASSUME NEW i \in 1 .. n PROVE pages'[ids[i]] = SpilledPage(p, pieces, ids, i)
    <3>1. (CHOOSE j \in 1 .. n : ids[i] = ids[j]) = i
      BY <1>2
    <3>2. ids[i] \in PageIds
      BY <1>2
    <3> QED
      BY <1>1, <3>1, <3>2
  <2>2. \A q \in PageIds : (\A i \in 1 .. n : q # ids[i]) => pages'[q] = pages[q]
    BY <1>1
  <2> QED
    BY <2>1, <2>2
<1>5. \A i \in 1 .. N : pages'[ids[i]] = Page(TRUE, pieces[i], p)
  <2>1. \A i \in 1 .. N : i \in 1 .. n
    BY <1>3, <1>n
  <2> QED
    BY <1>3, <1>4, <2>1
<1>6. r \in PageIds /\ r \in written' /\ r # 0 /\ n \in 1 .. n
  BY <1>1, <1>2, <1>3, <1>n, BucketAssumption
<1>7. ASSUME NEW i \in 1 .. N
      PROVE  /\ pages'[ids[i]].leaf = TRUE /\ pages'[ids[i]].inodes = pieces[i]
             /\ pages'[ids[i]].of = p /\ ids[i] \in written'
  <2>1. i \in 1 .. n
    BY <1>3, <1>n
  <2>2. ids[i] \in written'
    BY <1>1, <2>1
  <2>3. pages'[ids[i]] = Page(TRUE, pieces[i], p)
    BY <1>5
  <2> QED
    BY <2>2, <2>3 DEF Page
<1>8. ASSUME n > N
      PROVE  /\ pages'[r].leaf = FALSE /\ pages'[r].of = p
             /\ BranchList(pages[r].inodes, written, p)'
  <2>1. PICK s : /\ SpilledPage(p, pieces, ids, n) = Page(FALSE, s, p)
                 /\ s \in Seq(BranchInodes) /\ s # <<>> /\ Len(s) < IndexMod
                 /\ \A e \in ToSet(s) : \E i \in 1 .. N : e.pageId = ids[i]
    BY <1>3, <1>8
  <2>2. pages'[r] = Page(FALSE, s, p)
    BY <1>4, <1>6, <2>1
  <2>3. pages'[r].leaf = FALSE /\ pages'[r].of = p /\ pages'[r].inodes = s
    BY <2>2 DEF Page
  <2>4. n > 1
    BY <1>3, <1>8, <1>n
  <2>5. ASSUME NEW e \in ToSet(s)
        PROVE  /\ e.pageId \in written' /\ pages'[e.pageId].of = p
               /\ pages'[e.pageId].leaf /\ pages'[e.pageId].inodes # <<>>
    <3>1. PICK i \in 1 .. N : e.pageId = ids[i]
      BY <2>1
    <3> QED
      BY <1>3, <1>7, <2>4, <3>1
  <2>6. BranchList(s, written, p)'
    BY <2>1, <2>5 DEF BranchList
  <2> QED
    BY <2>3, <2>6
<1>9. \A q \in written' \ written : \E i \in 1 .. n : q = ids[i]
  BY <1>1
<1>10. \A i \in 1 .. n : i \in 1 .. N \/ (i = n /\ n > N)
  BY <1>3, <1>n
<1> HIDE DEF r
<1> DEFINE x == Leaf(Last(p), bucketLeafFlag, HeaderValue(r))
<1>11. Moved(p, r, x)
  <2>1. CASE p = <<>>
    <3>1. opened' = [opened EXCEPT ![<<>>].root = r]
      BY <1>1, <2>1 DEF RootAfter, r
    <3> QED
      BY <1>0, <1>6, <2>1, <3>1, RootMoves
  <2>2. CASE p # <<>>
    <3>1. opened' = PutInParent(p, r, HeaderValue(r))
      BY <1>1, <2>2 DEF RootAfter, r
    <3>2. /\ BucketValue(HeaderValue(r)) /\ r \in PageIds \cup {0}
          /\ HeaderValue(r) \in [len : Nat, root : PageIds \cup {0}, page : Seq(PlainInodes)]
      BY <1>6, HeaderValueFacts
    <3> QED
      BY <1>0, <2>2, <3>1, <3>2, ParentMoves
  <2> QED
    BY <2>1, <2>2
<1>12. Placed(p, r, x)
  <2>1. p # <<>> => x \in LeafInodes /\ IsBucketInode(x) /\ x.key = Last(p) /\ x.value.root = r
    <3>1. p # <<>> => Last(p) \in Names
      BY <1>p, ParentPath
    <3> DEFINE v == HeaderValue(r)
    <3>2. /\ BucketValue(v) /\ v.root = r
          /\ v \in [len : Nat, root : PageIds \cup {0}, page : Seq(PlainInodes)]
      BY <1>6, HeaderValueFacts
    <3> HIDE DEF v
    <3>3. p # <<>> => /\ Leaf(Last(p), bucketLeafFlag, v) \in LeafInodes
                      /\ IsBucketInode(Leaf(Last(p), bucketLeafFlag, v))
                      /\ Leaf(Last(p), bucketLeafFlag, v).key = Last(p)
                      /\ Leaf(Last(p), bucketLeafFlag, v).value = v
      BY <3>1, <3>2, MadeFacts
    <3> QED
      BY <3>2, <3>3 DEF v
  <2> HIDE DEF x
  <2>2. pages'[r].of = p /\ (n > N => ~pages'[r].leaf)
    <3>1. CASE n > N
      BY <1>8, <3>1
    <3>2. CASE ~(n > N)
      BY <1>6, <1>7, <1>10, <3>2 DEF r
    <3> QED
      BY <3>1, <3>2
  <2>3. written \subseteq written' /\ written' \subseteq PageIds \ used
    BY <1>0, <1>1, <1>2 DEF CommitProceeds
  <2>4. ASSUME NEW q \in PageIds
        PROVE  /\ pages'[q] \in [leaf : BOOLEAN, inodes : Seq(LeafInodes \cup BranchInodes),
                                 of : Seq(Names)]
               /\ pages'[q].leaf => LeafList(pages'[q].inodes)
    <3>1. CASE \A i \in 1 .. n : q # ids[i]
      <4>1. pages'[q] = pages[q]
        BY <1>4, <3>1
      <4> QED
        BY <1>0, <4>1 DEF PagesHoldLists
    <3>2. ASSUME NEW i \in 1 .. N, q = ids[i]
          PROVE  /\ pages'[q] \in [leaf : BOOLEAN, inodes : Seq(LeafInodes \cup BranchInodes),
                                   of : Seq(Names)]
                 /\ pages'[q].leaf => LeafList(pages'[q].inodes)
      <4>1. pages'[q] = Page(TRUE, pieces[i], p) /\ LeafList(pieces[i])
        BY <1>3, <1>5, <3>2
      <4>2. pieces[i] \in Seq(LeafInodes \cup BranchInodes)
        <5>1. pieces[i] \in Seq(LeafInodes) /\ LeafInodes \subseteq LeafInodes \cup BranchInodes
          BY <4>1 DEF LeafList
        <5> QED
          BY <5>1, SeqMonotonic
      <4> QED
        BY <1>p, <4>1, <4>2 DEF Page
    <3>3. CASE n > N /\ q = r
      <4>1. PICK s : /\ SpilledPage(p, pieces, ids, n) = Page(FALSE, s, p)
                     /\ s \in Seq(BranchInodes)
        BY <1>3, <3>3
      <4>2. pages'[q] = Page(FALSE, s, p)
        BY <1>4, <1>6, <3>3, <4>1 DEF r
      <4>3. s \in Seq(LeafInodes \cup BranchInodes)
        <5>1. BranchInodes \subseteq LeafInodes \cup BranchInodes
          OBVIOUS
        <5> QED
          BY <4>1, <5>1, SeqMonotonic
      <4> QED
        BY <1>p, <4>2, <4>3 DEF Page
    <3> QED
      BY <1>10, <3>1, <3>2, <3>3 DEF r
  <2>5. pages' \in [PageIds -> [leaf : BOOLEAN, inodes : Seq(LeafInodes \cup BranchInodes),
                                of : Seq(Names)]]
    BY <1>1, <2>4
  <2>6. \A q \in used \cup written : pages'[q] = pages[q]
    BY <1>0, <1>2, <1>4 DEF PagesHoldLists, CommitProceeds
  <2>7. ASSUME NEW q \in written' \ written
        PROVE  /\ pages'[q].of = p
               /\ pages'[q].leaf => ToSet(pages'[q].inodes) \subseteq ToSet(opened[p].node)
               /\ pages'[q].leaf /\ q # r => ~pages'[r].leaf
               /\ ~pages'[q].leaf => BranchList(pages[q].inodes, written, p)' /\ q = r
    <3>1. PICK i \in 1 .. n : q = ids[i]
      BY <1>9
    <3>2. CASE i \in 1 .. N
      <4>1. /\ pages'[q].leaf = TRUE /\ pages'[q].inodes = pieces[i] /\ pages'[q].of = p
        BY <1>7, <3>1, <3>2
      <4>2. q # r => n > N
        BY <1>3, <1>n, <3>1, <3>2 DEF r
      <4> QED
        BY <1>3, <2>2, <3>2, <4>1, <4>2
    <3>3. CASE i = n /\ n > N
      <4>1. q = r
        BY <3>1, <3>3 DEF r
      <4> QED
        BY <1>8, <3>3, <4>1
    <3> QED
      BY <1>10, <3>2, <3>3
  <2>8. ASSUME NEW e \in ToSet(opened[p].node)
        PROVE  \E q \in written' :
                 pages'[q].leaf /\ pages'[q].of = p /\ e \in ToSet(pages'[q].inodes)
    <3>1. PICK i \in 1 .. N : e \in ToSet(pieces[i])
      BY <1>3
    <3> QED
      BY <1>7, <3>1
  <2> QED
    BY <1>6, <2>1, <2>2, <2>3, <2>4, <2>5, <2>6, <2>7, <2>8 DEF Placed
<1> HIDE DEF x
<1>13. r \in PageIds \cup {0}
  BY <1>6
<1>14. TreeInv'
  BY <1>0, <1>11, <1>12, <1>13, SpillKeeps
<1> QED
  BY <1>11, <1>12, <1>14

\* The last step of a commit: the pages freed go, those written stay.
LEMMA CommitKeeps ==
  ASSUME TreeInv, Commit
  PROVE  TreeInv'
<1>0. /\ ObjectsAreBuckets /\ ObjectsHaveRoots /\ ObjectsAreElements /\ ElementsLead
      /\ PagesHoldLists /\ PagesFormTree /\ CommitProceeds /\ WrittenHoldNodes
      /\ mode = "spill" /\ mode' = "none" /\ todo = {} /\ todo' = {}
      /\ freed' = {} /\ written' = {} /\ opened' = <<>>
      /\ rootPage' = opened[<<>>].root
      /\ used' = (used \ freed) \cup written
      /\ pages' = [q \in PageIds |-> IF q \in freed THEN Blank ELSE pages[q]]
  BY DEF TreeInv, Commit, Over
<1>z. /\ 0 \notin PageIds /\ used \subseteq PageIds /\ written \subseteq PageIds
      /\ freed \subseteq used /\ \A q \in written : q \notin used
  BY <1>0, BucketAssumption DEF PagesHoldLists, CommitProceeds
<1>1. /\ \A q \in used' : q \in PageIds /\ q \notin freed /\ pages'[q] = pages[q]
      /\ used' \subseteq PageIds
  BY <1>0, <1>z
<1>2. \A y \in DOMAIN opened : Done(y) <=> opened[y].hasNode
  BY <1>0 DEF Done
<1>3. /\ \A q \in freed : pages[q].of \in DOMAIN opened /\ Done(pages[q].of)
      /\ \A y \in DOMAIN opened : Done(y) => \A q \in used : pages[q].of = y => q \in freed
  BY <1>0 DEF CommitProceeds
<1>4. \A q \in written : /\ pages[q].of \in DOMAIN opened /\ Done(pages[q].of)
                         /\ opened[pages[q].of].root # 0
                         /\ pages[q].leaf =>
                              ToSet(pages[q].inodes) \subseteq ToSet(opened[pages[q].of].node)
  BY <1>0 DEF WrittenHoldNodes
<1>5. \A y \in DOMAIN opened \ {<<>>} : Front(y) \in DOMAIN opened /\ (Done(y) => Done(Front(y)))
  BY <1>0, <1>2 DEF CommitProceeds, ObjectsAreElements
<1>o. ObjectsInv'
  BY <1>0, NoObjects
<1>6. ASSUME NEW r, NEW y, RootOf(r, y), ~(y \in DOMAIN opened /\ Done(y))
      PROVE  RootOf(r, y)'
  <2>1. r = 0 \/ (r \in used /\ r \notin freed /\ pages[r].of = y)
    BY <1>3, <1>6 DEF RootOf
  <2>2. r = 0 \/ (r \in used' /\ pages'[r] = pages[r] /\ pages[r].of = y)
    BY <1>0, <1>1, <2>1
  <2>3. ASSUME r = 0 \/ pages'[r].leaf, NEW q \in used', pages'[q].of = y
        PROVE  q = r
    <3>1. pages[q].of = y
      BY <1>1, <2>3
    <3>2. q \in used
      BY <1>0, <1>4, <1>6, <3>1
    <3> QED
      BY <1>6, <2>2, <2>3, <3>1, <3>2 DEF RootOf, Sole
  <2> QED
    BY <2>2, <2>3 DEF RootOf, Sole
<1>7. ASSUME NEW y \in DOMAIN opened, Done(y), NEW r, r = opened[y].root
      PROVE  RootOf(r, y)'
  <2>1. r = 0 \/ (r \in written /\ pages[r].of = y)
    BY <1>0, <1>7 DEF ObjectsHaveRoots
  <2>2. r = 0 \/ (r \in used' /\ pages'[r] = pages[r] /\ pages[r].of = y)
    BY <1>0, <1>1, <2>1
  <2>3. ASSUME r = 0 \/ pages'[r].leaf, NEW q \in used', pages'[q].of = y
        PROVE  q = r
    <3>1. pages[q].of = y
      BY <1>1, <2>3
    <3>2. q \in written
      BY <1>0, <1>1, <1>3, <1>7, <3>1
    <3>3. /\ r # 0
          /\ pages[q].leaf /\ q # r => ~pages[r].leaf
          /\ ~pages[q].leaf => q = r
      BY <1>0, <1>7, <3>1, <3>2 DEF WrittenHoldNodes
    <3> QED
      BY <2>2, <2>3, <3>3
  <2> QED
    BY <2>2, <2>3 DEF RootOf, Sole
<1>8. ASSUME NEW y \in DOMAIN opened, Done(y), NEW i \in BucketsIn(ToSet(ListOf(y)))
      PROVE  \E u \in written : /\ pages[u].leaf /\ pages[u].of = y
                                /\ i \in BucketsIn(ToSet(pages[u].inodes))
  <2>1. ListOf(y) = opened[y].node
    BY <1>2, <1>8 DEF ListOf, Inodes
  <2>2. i \in ToSet(opened[y].node) /\ IsBucketInode(i)
    BY <1>8, <2>1 DEF BucketsIn
  <2>3. opened[y].root # 0
    <3> SUFFICES ASSUME opened[y].root = 0 PROVE FALSE
      OBVIOUS
    <3>1. isinlineable(opened[y].node)
      BY <1>0, <1>8 DEF CommitProceeds
    <3>2. LeafList(opened[y].node)
      BY <1>0 DEF ObjectsAreBuckets
    <3>3. InlineList(opened[y].node)
      BY <3>1, <3>2, SmallIsInline
    <3>4. BucketsIn(ToSet(opened[y].node)) = {}
      BY <3>3, InlineFacts
    <3> QED
      BY <1>8, <2>1, <3>4
  <2>4. \E u \in written : pages[u].leaf /\ pages[u].of = y /\ i \in ToSet(pages[u].inodes)
    BY <1>0, <1>8, <2>2, <2>3 DEF CommitProceeds
  <2> QED
    BY <2>2, <2>4 DEF BucketsIn
<1>9. PagesHoldLists'
  <2>1. ASSUME NEW q \in PageIds
        PROVE  /\ pages'[q] \in [leaf : BOOLEAN, inodes : Seq(LeafInodes \cup BranchInodes),
                                 of : Seq(Names)]
               /\ pages'[q].leaf => LeafList(pages'[q].inodes)
    <3>1. CASE q \in freed
      <4>1. pages'[q] = Page(TRUE, <<>>, <<>>)
        BY <1>0, <3>1 DEF Blank
      <4> QED
        BY <4>1, EmptyLeafList DEF Page
    <3>2. CASE q \notin freed
      <4>1. pages'[q] = pages[q]
        BY <1>0, <3>2
      <4> QED
        BY <1>0, <4>1 DEF PagesHoldLists
    <3> QED
      BY <3>1, <3>2
  <2>2. pages' \in [PageIds -> [leaf : BOOLEAN, inodes : Seq(LeafInodes \cup BranchInodes),
                                of : Seq(Names)]]
    BY <1>0, <2>1
  <2>3. ASSUME NEW q \in used', ~pages'[q].leaf
        PROVE  BranchList(pages[q].inodes, used, pages[q].of)'
    <3>1. pages'[q] = pages[q]
      BY <1>1
    <3>2. CASE q \in used
      <4>1. BranchList(pages[q].inodes, used, pages[q].of)
        BY <1>0, <2>3, <3>1, <3>2 DEF PagesHoldLists
      <4>2. ASSUME NEW i \in ToSet(pages[q].inodes) PROVE i.pageId \in used'
        <5>1. i.pageId \in used /\ pages[i.pageId].of = pages[q].of
          BY <4>1 DEF BranchList
        <5>2. i.pageId \notin freed
          BY <1>1, <1>3, <3>2, <5>1
        <5> QED
          BY <1>0, <5>1, <5>2
      <4> QED
        BY <1>1, <3>1, <4>1, <4>2 DEF BranchList
    <3>3. CASE q \in written
      <4>1. BranchList(pages[q].inodes, written, pages[q].of)
        BY <1>0, <2>3, <3>1, <3>3 DEF WrittenHoldNodes
      <4>2. \A i \in ToSet(pages[q].inodes) : i.pageId \in used'
        BY <1>0, <4>1 DEF BranchList
      <4> QED
        BY <1>1, <3>1, <4>1, <4>2 DEF BranchList
    <3> QED
      BY <1>0, <3>2, <3>3
  <2> QED
    BY <1>1, <2>1, <2>2, <2>3 DEF PagesHoldLists
<1>10. ASSUME NEW q \in used', pages[q].leaf, NEW i \in BucketsIn(ToSet(pages[q].inodes))
       PROVE  /\ Len(pages[q].of) < MaxDepth
              /\ \A c : c = Append(pages[q].of, i.key) => RootOf(i.value.root, c)'
  <2>0. PICK p : p = pages[q].of
    OBVIOUS
  <2>1. PICK c : c = Append(p, i.key)
    OBVIOUS
  <2>2. q \in PageIds /\ p \in Seq(Names)
    BY <1>0, <1>1, <2>0 DEF PagesHoldLists
  <2>3. LeafList(pages[q].inodes) /\ i \in ToSet(pages[q].inodes) /\ IsBucketInode(i)
    BY <1>0, <1>10, <2>2 DEF PagesHoldLists, BucketsIn
  <2>4. i \in LeafInodes /\ i.key \in Names
    BY <2>3, ListFacts, LeafFacts
  <2>5. c \in Seq(Names) /\ c # <<>> /\ Front(c) = p /\ Last(c) = i.key
    BY <2>1, <2>2, <2>4, ChildPath
  <2>6. CASE q \in used
    <3>1. ~(p \in DOMAIN opened /\ Done(p))
      BY <1>1, <1>3, <2>0, <2>6
    <3>2. Len(p) < MaxDepth /\ RootOf(i.value.root, c)
      BY <1>0, <1>10, <2>0, <2>1, <2>6 DEF PagesFormTree
    <3>3. ~(c \in DOMAIN opened /\ Done(c))
      BY <1>5, <2>5, <3>1
    <3>4. RootOf(i.value.root, c)'
      BY <1>6, <3>2, <3>3
    <3> QED
      BY <2>0, <2>1, <3>2, <3>4
  <2>7. CASE q \in written
    <3>1. p \in DOMAIN opened /\ Done(p) /\ i \in ToSet(opened[p].node)
      BY <1>4, <1>10, <2>0, <2>3, <2>7
    <3>2. opened[p].hasNode /\ ListOf(p) = opened[p].node
      BY <1>2, <3>1 DEF ListOf, Inodes
    <3>3. Len(p) < MaxDepth /\ (c \in DOMAIN opened \/ RootOf(i.value.root, c))
      BY <1>0, <2>1, <2>3, <3>1, <3>2 DEF ElementsLead, BucketsIn
    <3>4. CASE c \notin DOMAIN opened
      BY <1>6, <2>0, <2>1, <3>3, <3>4
    <3>5. CASE c \in DOMAIN opened
      <4>1. PICK j \in BucketsIn(ToSet(ListOf(p))) : j.key = i.key /\ j.value.root = opened[c].root
        <5>1. InPlace(c) /\ Front(c) = p /\ Last(c) = i.key
          BY <1>0, <2>5, <3>5 DEF ObjectsAreElements
        <5>2. i \in BucketsIn(ToSet(ListOf(p))) /\ IsLeaf(p)
          BY <2>3, <3>1, <3>2 DEF BucketsIn, IsLeaf, PageNode
        <5>3. ~Loose(c) /\ ~BelowBranch(c)
          BY <5>1, <5>2 DEF Loose, BelowBranch
        <5>4. HasElement(c, ListOf(p))
          BY <5>1, <5>3 DEF InPlace
        <5> QED
          BY <5>1, <5>4 DEF HasElement
      <4>2. LeafList(opened[p].node)
        BY <1>0, <3>1 DEF ObjectsAreBuckets
      <4>3. j = i
        BY <3>1, <3>2, <4>1, <4>2, ListFacts DEF BucketsIn
      <4>4. PICK r : r = i.value.root
        OBVIOUS
      <4>5. opened[c].root = r
        BY <4>1, <4>3, <4>4
      <4>6. CASE Done(c)
        <5>1. (r = 0 \/ (r \in written /\ pages[r].of = c))
          BY <1>0, <3>5, <4>5, <4>6 DEF ObjectsHaveRoots
        <5>2. RootOf(r, c)'
          BY <1>7, <3>5, <4>5, <4>6
        <5> QED
          BY <2>0, <2>1, <3>3, <4>4, <5>2
      <4>7. CASE ~Done(c)
        <5>1. RootOf(r, c)
          BY <1>0, <3>5, <4>5, <4>7 DEF ObjectsHaveRoots
        <5>2. RootOf(r, c)'
          BY <1>6, <4>7, <5>1
        <5> QED
          BY <2>0, <2>1, <3>3, <4>4, <5>2
      <4> QED
        BY <4>6, <4>7
    <3> QED
      BY <3>4, <3>5
  <2> QED
    BY <1>0, <2>6, <2>7
<1>11. ASSUME NEW q \in used', pages[q].of # <<>>
       PROVE  \E u \in used' :
                /\ pages[u].leaf /\ pages[u].of = Front(pages[q].of)
                /\ \E i \in BucketsIn(ToSet(pages[u].inodes)) : i.key = Last(pages[q].of)
  <2>0. PICK p : p = pages[q].of
    OBVIOUS
  <2>1. ASSUME Front(p) \in DOMAIN opened, Done(Front(p)),
               NEW i \in BucketsIn(ToSet(ListOf(Front(p)))), i.key = Last(p)
        PROVE  \E u \in used' :
                 /\ pages[u].leaf /\ pages[u].of = Front(p)
                 /\ \E j \in BucketsIn(ToSet(pages[u].inodes)) : j.key = Last(p)
    <3>1. PICK u \in written : /\ pages[u].leaf /\ pages[u].of = Front(p)
                               /\ i \in BucketsIn(ToSet(pages[u].inodes))
      BY <1>8, <2>1
    <3> QED
      BY <1>0, <2>1, <3>1
  <2>2. CASE q \in used
    <3>1. PICK u \in used :
            /\ pages[u].leaf /\ pages[u].of = Front(p)
            /\ \E i \in BucketsIn(ToSet(pages[u].inodes)) : i.key = Last(p)
      BY <1>0, <1>11, <2>0, <2>2 DEF PagesFormTree
    <3>2. CASE u \notin freed
      BY <1>0, <2>0, <3>1, <3>2
    <3>3. CASE u \in freed
      <4>1. Front(p) \in DOMAIN opened /\ Done(Front(p))
        BY <1>3, <3>1, <3>3
      <4>2. IsLeaf(Front(p))
        BY <1>2, <4>1 DEF IsLeaf, PageNode
      <4>3. \E i \in BucketsIn(ToSet(ListOf(Front(p)))) : i.key = Last(p)
        BY <1>0, <1>11, <2>0, <2>2, <4>1, <4>2 DEF ElementsLead
      <4> QED
        BY <2>0, <2>1, <4>1, <4>3
    <3> QED
      BY <3>2, <3>3
  <2>3. CASE q \in written
    <3>1. p \in DOMAIN opened /\ Done(p) /\ p # <<>>
      BY <1>4, <1>11, <2>0, <2>3
    <3>2. Front(p) \in DOMAIN opened /\ Done(Front(p))
      BY <1>5, <3>1
    <3>3. \E i \in BucketsIn(ToSet(ListOf(Front(p)))) : i.key = Last(p)
      BY <1>0, <3>1 DEF ObjectsAreElements, InPlace, Loose, BelowBranch, HasElement
    <3> QED
      BY <2>0, <2>1, <3>2, <3>3
  <2> QED
    BY <1>0, <2>2, <2>3
<1>12. rootPage' \in used' /\ RootOf(rootPage, <<>>)'
  <2>0. <<>> \in DOMAIN opened
    BY <1>0 DEF ObjectsAreBuckets
  <2>r. PICK r : r = opened[<<>>].root
    OBVIOUS
  <2>1. CASE Done(<<>>)
    <3>1. r \in written
      BY <1>0, <2>0, <2>r, <2>1 DEF ObjectsHaveRoots
    <3>2. RootOf(r, <<>>)'
      BY <1>7, <2>0, <2>r, <2>1
    <3> QED
      BY <1>0, <2>r, <3>1, <3>2
  <2>2. CASE ~Done(<<>>)
    <3>1. r = rootPage /\ r \notin freed /\ r \in used
      BY <1>0, <2>0, <2>r, <2>2 DEF ObjectsHaveRoots, PagesFormTree
    <3>2. RootOf(r, <<>>)
      BY <1>0, <3>1 DEF PagesFormTree
    <3>3. RootOf(r, <<>>)'
      BY <1>6, <2>2, <3>2
    <3> QED
      BY <1>0, <2>r, <3>1, <3>3
  <2> QED
    BY <2>1, <2>2
<1>13. PagesFormTree'
  <2>1. ASSUME NEW q \in used', pages'[q].leaf, NEW i \in BucketsIn(ToSet(pages'[q].inodes))
        PROVE  Len(pages'[q].of) < MaxDepth /\ RootOf(i.value.root, Append(pages[q].of, i.key))'
    <3>1. pages'[q] = pages[q]
      BY <1>1
    <3>2. PICK c : c = Append(pages[q].of, i.key)
      OBVIOUS
    <3>3. Len(pages[q].of) < MaxDepth /\ RootOf(i.value.root, c)'
      BY <1>10, <2>1, <3>1, <3>2
    <3>4. Append(pages'[q].of, i.key) = c
      BY <3>1, <3>2
    <3> QED
      BY <3>1, <3>3, <3>4
  <2>2. ASSUME NEW q \in used', pages'[q].of # <<>>
        PROVE  \E u \in used' :
                 /\ pages'[u].leaf /\ pages'[u].of = Front(pages'[q].of)
                 /\ \E i \in BucketsIn(ToSet(pages'[u].inodes)) : i.key = Last(pages'[q].of)
    BY <1>1, <1>11, <2>2
  <2> QED
    BY <1>12, <2>1, <2>2 DEF PagesFormTree
<1>14. CommitProceeds'
  <2>1. DOMAIN opened' = {}
    <3>1. DOMAIN <<>> = {}
      OBVIOUS
    <3> QED
      BY <1>0, <3>1
  <2> QED
    BY <1>0, <2>1 DEF CommitProceeds
<1>15. WrittenHoldNodes'
  BY <1>0 DEF WrittenHoldNodes
<1> QED
  BY <1>o, <1>9, <1>13, <1>14, <1>15 DEF TreeInv, ObjectsInv

---------------------------------------------------------------------------
(* Cursors.                                                                *)

\* Indexes that wrap around.
LEMMA ModFacts ==
  /\ \A a \in Int : a % IndexMod \in 0 .. IndexMod - 1
  /\ \A a \in 0 .. IndexMod - 1 : a % IndexMod = a /\ (a + IndexMod) % IndexMod = a
<1>1. IndexMod \in Nat /\ IndexMod > 0
  BY KeyFacts
<1>2. ASSUME NEW a \in Int PROVE a % IndexMod \in 0 .. IndexMod - 1
  BY <1>1
<1>3. ASSUME NEW a \in 0 .. IndexMod - 1 PROVE a % IndexMod = a
  BY <1>1
<1>4. ASSUME NEW a \in 0 .. IndexMod - 1 PROVE (a + IndexMod) % IndexMod = a
  BY <1>1
<1> QED
  BY <1>2, <1>3, <1>4

\* An element of a stack whose index changes.
LEMMA Indexed ==
  ASSUME NEW p, NEW ref \in Refs, RefOK(p, ref), NEW i \in 0 .. IndexMod - 1,
         ~ref.leaf => i < Len(ref.inodes),
         NEW new, new = [ref EXCEPT !.index = i]
  PROVE  new \in Refs /\ RefOK(p, new) /\ new.leaf = ref.leaf
<1>1. /\ new.live = ref.live /\ new.leaf = ref.leaf /\ new.inodes = ref.inodes /\ new.index = i
      /\ new \in Refs
  BY DEF Refs
<1> QED
  BY <1>1 DEF RefOK

\* The root of a bucket.
LEMMA PageNodeOK ==
  ASSUME TreeInv, mode \in {"ro", "rw"}, NEW p \in DOMAIN opened, NEW bytes \in Bytes(p)
  PROVE  /\ PageNode(p, bytes) \in Refs /\ RefOK(p, PageNode(p, bytes))
         /\ PageNode(p, bytes).index = 0
<1>0. ObjectsAreBuckets /\ PagesHoldLists /\ ObjectsHaveRoots
  BY DEF TreeInv
<1> DEFINE ref == PageNode(p, bytes)
<1>z. 0 \in 0 .. IndexMod - 1 /\ <<>> \in Seq(LeafInodes \cup BranchInodes)
  BY KeyFacts
<1>1. CASE opened[p].hasNode
  <2>1. ref = [live |-> TRUE, leaf |-> TRUE, inodes |-> <<>>, index |-> 0]
    BY <1>1 DEF PageNode
  <2> HIDE DEF ref
  <2>2. ref.live = TRUE /\ ref.leaf = TRUE /\ ref.index = 0 /\ ref \in Refs
    BY <1>z, <2>1 DEF Refs
  <2> QED
    BY <1>1, <2>2 DEF RefOK, ref
<1>2. CASE ~opened[p].hasNode /\ opened[p].root # 0
  <2> DEFINE page == pages[opened[p].root]
  <2>1. ref = [live |-> FALSE, leaf |-> page.leaf, inodes |-> page.inodes, index |-> 0]
    BY <1>2 DEF PageNode
  <2>2. opened[p].root \in used /\ opened[p].root \in PageIds /\ page.of = p
    BY <1>0, <1>2 DEF ObjectsHaveRoots, RootOf, Done, PagesHoldLists
  <2>3. /\ page.leaf \in BOOLEAN /\ page.inodes \in Seq(LeafInodes \cup BranchInodes)
        /\ page.leaf => LeafList(page.inodes)
        /\ ~page.leaf => BranchList(page.inodes, used, p)
    BY <1>0, <2>2 DEF PagesHoldLists
  <2> HIDE DEF ref, page
  <2>4. ref.live = FALSE /\ ref.leaf = page.leaf /\ ref.inodes = page.inodes /\ ref.index = 0
    BY <2>1
  <2>5. ref \in Refs
    BY <1>z, <2>1, <2>3 DEF Refs
  <2>6. ~page.leaf => 0 < Len(page.inodes)
    BY <2>3 DEF BranchList
  <2> QED
    BY <2>3, <2>4, <2>5, <2>6 DEF RefOK, ref
<1>3. CASE ~opened[p].hasNode /\ opened[p].root = 0
  <2>1. ref = [live |-> FALSE, leaf |-> TRUE, inodes |-> bytes, index |-> 0]
    BY <1>3 DEF PageNode, Page
  <2>2. PICK q \in DOMAIN opened : bytes = opened[q].page
    BY DEF Bytes
  <2>3. InlineList(bytes)
    BY <1>0, <2>2 DEF ObjectsAreBuckets
  <2>4. LeafList(bytes) /\ bytes \in Seq(LeafInodes \cup BranchInodes)
    <3>1. LeafList(bytes)
      BY <2>3, InlineFacts
    <3>2. bytes \in Seq(LeafInodes) /\ LeafInodes \subseteq LeafInodes \cup BranchInodes
      BY <3>1 DEF LeafList
    <3> QED
      BY <3>1, <3>2, SeqMonotonic
  <2> HIDE DEF ref
  <2>5. /\ ref.live = FALSE /\ ref.leaf = TRUE /\ ref.inodes = bytes /\ ref.index = 0
        /\ ref \in Refs
    BY <1>z, <2>1, <2>4 DEF Refs
  <2> QED
    BY <2>4, <2>5 DEF RefOK, ref
<1> QED
  BY <1>1, <1>2, <1>3

\* The elements a stack element stands for.
LEMMA ElementsOK ==
  ASSUME TreeInv, NEW p \in DOMAIN opened, NEW ref \in Refs, RefOK(p, ref)
  PROVE  /\ ref.leaf => LeafList(ElementsAt(p, ref))
         /\ ~ref.leaf => ElementsAt(p, ref) = ref.inodes /\ ref.inodes # <<>>
         /\ RefCount(p, ref) \in Nat /\ RefCount(p, ref) < IndexMod
<1>0. ObjectsAreBuckets
  BY DEF TreeInv
<1>b. ref.live \in BOOLEAN /\ ref.leaf \in BOOLEAN
  BY DEF Refs
<1> DEFINE s == ElementsAt(p, ref)
<1>1. CASE ref.leaf
  <2>1. LeafList(s)
    BY <1>0, <1>1, <1>b DEF RefOK, ElementsAt, ObjectsAreBuckets
  <2> HIDE DEF s
  <2>2. Len(s) \in Nat /\ Len(s) < IndexMod - 1
    BY <2>1, ListFacts
  <2> QED
    BY <1>1, <2>1, <2>2, KeyFacts DEF RefCount, s
<1>2. CASE ~ref.leaf
  <2>1. s = ref.inodes /\ BranchList(ref.inodes, used, p)
    BY <1>2, <1>b DEF RefOK, ElementsAt
  <2>2. ref.inodes # <<>> /\ Len(ref.inodes) \in Nat /\ Len(ref.inodes) < IndexMod
    BY <2>1 DEF BranchList
  <2> QED
    BY <1>2, <2>1, <2>2 DEF RefCount
<1> QED
  BY <1>1, <1>2

\* The child a branch element leads to is a leaf.
LEMMA ChildOK ==
  ASSUME TreeInv, NEW p, NEW ref \in Refs, RefOK(p, ref), ~ref.leaf, NEW last \in BOOLEAN
  PROVE  /\ Child(ref, last) \in Refs /\ RefOK(p, Child(ref, last))
         /\ Child(ref, last).leaf = TRUE /\ Child(ref, last).live = FALSE
<1>0. PagesHoldLists
  BY DEF TreeInv
<1>1. BranchList(ref.inodes, used, p) /\ ref.index < Len(ref.inodes) /\ ref.index \in Nat
  BY DEF RefOK, Refs
<1>2. ref.inodes[ref.index + 1] \in ToSet(ref.inodes)
  <2>1. ref.inodes \in Seq(BranchInodes)
    BY <1>1 DEF BranchList
  <2>2. ToSet(ref.inodes) = {ref.inodes[i] : i \in 1 .. Len(ref.inodes)}
    BY <2>1, ToSetFacts
  <2>3. ref.index + 1 \in 1 .. Len(ref.inodes)
    BY <1>1, <2>1
  <2> QED
    BY <2>2, <2>3
<1> DEFINE q == ref.inodes[ref.index + 1].pageId
           page == pages[q]
           i == IF last THEN Len(page.inodes) - 1 ELSE 0
<1>3. q \in used /\ q \in PageIds /\ page.leaf = TRUE /\ page.inodes # <<>>
  <2>1. q \in used /\ page.leaf /\ page.inodes # <<>>
    BY <1>1, <1>2 DEF BranchList
  <2>2. q \in PageIds
    BY <1>0, <2>1 DEF PagesHoldLists
  <2>3. page.leaf \in BOOLEAN
    BY <1>0, <2>2 DEF PagesHoldLists
  <2> QED
    BY <2>1, <2>2, <2>3
<1>4. LeafList(page.inodes) /\ page.inodes \in Seq(LeafInodes \cup BranchInodes)
  BY <1>0, <1>3 DEF PagesHoldLists
<1>5. Child(ref, last) = [live |-> FALSE, leaf |-> page.leaf, inodes |-> page.inodes, index |-> i]
  BY DEF Child
<1> HIDE DEF page
<1>6. i \in 0 .. IndexMod - 1
  <2>1. Len(page.inodes) \in Nat /\ Len(page.inodes) < IndexMod - 1 /\ Len(page.inodes) # 0
    BY <1>3, <1>4, ListFacts
  <2> QED
    BY <2>1, KeyFacts
<1> DEFINE c == Child(ref, last)
<1> HIDE DEF i, c
<1>7. c = [live |-> FALSE, leaf |-> TRUE, inodes |-> page.inodes, index |-> i]
  BY <1>3, <1>5 DEF c
<1>8. c \in Refs /\ c.live = FALSE /\ c.leaf = TRUE /\ c.inodes = page.inodes
  BY <1>4, <1>6, <1>7 DEF Refs
<1> QED
  BY <1>4, <1>8 DEF RefOK, c

\* Stacks of one and two elements.
LEMMA StackOf ==
  ASSUME NEW p, NEW ref \in Refs, RefOK(p, ref)
  PROVE  /\ Last(<<ref>>) = ref /\ <<ref>> # <<>>
         /\ ref.leaf => StackOK(p, <<ref>>)
         /\ \A c \in Refs : ~ref.leaf /\ c.leaf /\ RefOK(p, c) =>
              /\ StackOK(p, <<ref, c>>) /\ Last(<<ref, c>>) = c
              /\ <<ref, c>> = Append(<<ref>>, c)
<1>1. Last(<<ref>>) = ref /\ <<ref>> # <<>> /\ <<ref>> \in Seq(Refs) /\ Len(<<ref>>) = 1
      /\ <<ref>>[1] = ref
  BY DEF Last
<1>2. ASSUME ref.leaf PROVE StackOK(p, <<ref>>)
  <2> DEFINE s == <<ref>>
  <2> HIDE DEF s
  <2>1. s \in Seq(Refs) /\ Len(s) = 1 /\ s[1] = ref
    BY <1>1 DEF s
  <2>2. \A i \in 1 .. Len(s) : i = 1
    BY <2>1
  <2>3. StackOK(p, s)
    BY <1>2, <2>1, <2>2 DEF StackOK
  <2> QED
    BY <2>3 DEF s
<1>3. ASSUME NEW c \in Refs, ~ref.leaf, c.leaf, RefOK(p, c)
      PROVE  /\ StackOK(p, <<ref, c>>) /\ Last(<<ref, c>>) = c
             /\ <<ref, c>> = Append(<<ref>>, c)
  <2> DEFINE s == <<ref, c>>
  <2>1. s \in Seq(Refs) /\ Len(s) = 2 /\ s[1] = ref /\ s[2] = c /\ s = Append(<<ref>>, c)
    OBVIOUS
  <2>2. Last(s) = c
    BY <2>1 DEF Last
  <2> HIDE DEF s
  <2>3. \A i \in 1 .. Len(s) : i = 1 \/ i = 2
    BY <2>1
  <2>4. StackOK(p, s)
    BY <1>3, <2>1, <2>3 DEF StackOK
  <2> QED
    BY <2>1, <2>2, <2>4 DEF s
<1> QED
  BY <1>1, <1>2, <1>3

\* Down to a leaf.
LEMMA DownOK ==
  ASSUME TreeInv, NEW p, NEW ref \in Refs, RefOK(p, ref), NEW last \in BOOLEAN
  PROVE  StackOK(p, Down(<<ref>>, last)) /\ Down(<<ref>>, last) # <<>>
<1>1. Last(<<ref>>) = ref /\ <<ref>> # <<>>
  BY StackOf
<1>2. CASE ref.leaf
  BY <1>1, <1>2, StackOf DEF Down
<1>3. CASE ~ref.leaf
  <2> DEFINE c == Child(ref, last)
  <2>1. c \in Refs /\ RefOK(p, c) /\ c.leaf
    BY <1>3, ChildOK
  <2>2. Down(<<ref>>, last) = Append(<<ref>>, c)
    BY <1>1, <1>3 DEF Down
  <2> HIDE DEF c
  <2>3. StackOK(p, <<ref, c>>) /\ <<ref, c>> = Append(<<ref>>, c)
    BY <1>3, <2>1, StackOf
  <2>4. <<ref, c>> # <<>>
    OBVIOUS
  <2> QED
    BY <2>2, <2>3, <2>4
<1> QED
  BY <1>2, <1>3

\* A bucket that is left at once.
LEMMA EmptyStack == ASSUME NEW p PROVE StackOK(p, <<>>)
  BY DEF StackOK

\* A search moves a leaf element to where the key is or would be.
LEMMA SoughtOK ==
  ASSUME TreeInv, NEW p \in DOMAIN opened, NEW k \in Keys,
         NEW ref \in Refs, RefOK(p, ref), ref.leaf,
         NEW new, new = [ref EXCEPT !.index = binarySearch(ElementsAt(p, ref), k).index]
  PROVE  new \in Refs /\ RefOK(p, new) /\ new.leaf = ref.leaf
<1> DEFINE s == ElementsAt(p, ref)
           i == binarySearch(s, k).index
<1>1. LeafList(s) /\ Len(s) \in Nat /\ Len(s) < IndexMod
  BY ElementsOK DEF RefCount
<1> HIDE DEF s
<1>2. s \in Seq(LeafInodes) /\ k \in Int
  BY <1>1, KeyFacts DEF LeafList
<1>3. i \in 0 .. Len(s)
  BY <1>2, LeafFacts, SearchFacts
<1> HIDE DEF i
<1>4. i \in 0 .. IndexMod - 1
  BY <1>1, <1>3, KeyFacts
<1>5. new = [ref EXCEPT !.index = i]
  BY DEF i, s
<1> QED
  BY <1>4, <1>5, Indexed

\* Cursor::seek.
LEMMA SeekOK ==
  ASSUME TreeInv, mode \in {"ro", "rw"}, NEW p \in DOMAIN opened, NEW bytes \in Bytes(p),
         NEW k \in Keys, NEW i \in Routes(p)
  PROVE  StackOK(p, SeekStack(p, k, bytes, i))
<1> DEFINE ref == PageNode(p, bytes)
           at(r) == [r EXCEPT !.index = binarySearch(ElementsAt(p, r), k).index]
           b == [ref EXCEPT !.index = i]
           c == Child(b, FALSE)
<1>1. ref \in Refs /\ RefOK(p, ref)
  BY PageNodeOK
<1>2. SeekStack(p, k, bytes, i) = IF ref.leaf THEN <<at(ref)>> ELSE <<b, at(c)>>
  BY DEF SeekStack
<1>3. CASE ref.leaf
  <2>1. at(ref) \in Refs /\ RefOK(p, at(ref)) /\ at(ref).leaf = ref.leaf
    <3> HIDE DEF ref
    <3> QED
      BY <1>1, <1>3, SoughtOK
  <2> DEFINE a == at(ref)
  <2> HIDE DEF a
  <2>2. StackOK(p, <<a>>)
    BY <1>3, <2>1, StackOf DEF a
  <2> QED
    BY <1>2, <1>3, <2>2 DEF a
<1>4. CASE ~ref.leaf
  <2>1. /\ ~opened[p].hasNode /\ opened[p].root # 0
        /\ ref.leaf = pages[opened[p].root].leaf /\ ref.inodes = pages[opened[p].root].inodes
    BY <1>4 DEF PageNode, Page
  <2>2. ~IsLeaf(p)
    BY <1>4, <2>1 DEF IsLeaf, PageNode
  <2>3. i \in 0 .. Len(ref.inodes) - 1
    BY <2>1, <2>2 DEF Routes
  <2> HIDE DEF ref
  <2>4. BranchList(ref.inodes, used, p)
    BY <1>1, <1>4 DEF RefOK
  <2>5. Len(ref.inodes) \in Nat /\ Len(ref.inodes) < IndexMod
    BY <2>4 DEF BranchList
  <2>6. i \in 0 .. IndexMod - 1 /\ i < Len(ref.inodes)
    BY <2>3, <2>5, KeyFacts
  <2>7. b \in Refs /\ RefOK(p, b) /\ ~b.leaf
    BY <1>1, <1>4, <2>6, Indexed
  <2> HIDE DEF b
  <2>8. c \in Refs /\ RefOK(p, c) /\ c.leaf
    BY <2>7, ChildOK
  <2> HIDE DEF c
  <2>9. at(c) \in Refs /\ RefOK(p, at(c)) /\ at(c).leaf
    BY <2>8, SoughtOK
  <2> DEFINE a == at(c)
  <2> HIDE DEF a
  <2>10. StackOK(p, <<b, a>>)
    BY <2>7, <2>9, StackOf DEF a
  <2> QED
    BY <1>2, <1>4, <2>10 DEF a
<1> QED
  BY <1>3, <1>4

\* Cursor::first.
LEMMA FirstOK ==
  ASSUME TreeInv, mode \in {"ro", "rw"}, NEW p \in DOMAIN opened, NEW bytes \in Bytes(p)
  PROVE  StackOK(p, FirstStack(p, bytes))
<1>1. PageNode(p, bytes) \in Refs /\ RefOK(p, PageNode(p, bytes))
  BY PageNodeOK
<1> DEFINE stack == Down(<<PageNode(p, bytes)>>, FALSE)
<1>2. StackOK(p, stack)
  BY <1>1, DownOK
<1> HIDE DEF stack
<1>3. FirstStack(p, bytes) = <<>> \/ FirstStack(p, bytes) = stack
  BY DEF FirstStack, stack
<1> QED
  BY <1>2, <1>3, EmptyStack

\* Cursor::last.
LEMMA LastOK ==
  ASSUME TreeInv, mode \in {"ro", "rw"}, NEW p \in DOMAIN opened, NEW bytes \in Bytes(p)
  PROVE  StackOK(p, LastStack(p, bytes))
<1> DEFINE ref == PageNode(p, bytes)
           n == RefCount(p, ref)
           i == (n - 1 + IndexMod) % IndexMod
           new == [ref EXCEPT !.index = i]
<1>1. ref \in Refs /\ RefOK(p, ref)
  BY PageNodeOK
<1>e. LastStack(p, bytes) = Down(<<new>>, TRUE)
  BY DEF LastStack
<1> HIDE DEF ref
<1>2. n \in Nat /\ n < IndexMod /\ (~ref.leaf => n = Len(ref.inodes) /\ n > 0)
  <2>1. n \in Nat /\ n < IndexMod
    BY <1>1, ElementsOK
  <2>2. ~ref.leaf => ElementsAt(p, ref) = ref.inodes /\ ref.inodes # <<>>
    BY <1>1, ElementsOK
  <2>3. ref.inodes \in Seq(LeafInodes \cup BranchInodes)
    BY <1>1 DEF Refs
  <2>4. ref.inodes # <<>> => Len(ref.inodes) > 0
    BY <2>3
  <2> QED
    BY <2>1, <2>2, <2>4 DEF RefCount
<1> HIDE DEF n
<1>3. i \in 0 .. IndexMod - 1 /\ (n > 0 => i = n - 1)
  <2>1. n - 1 + IndexMod \in Int
    BY <1>2, KeyFacts
  <2>2. n > 0 => n - 1 \in 0 .. IndexMod - 1
    BY <1>2, KeyFacts
  <2> QED
    BY <2>1, <2>2, ModFacts
<1> HIDE DEF i
<1>4. ~ref.leaf => i < Len(ref.inodes)
  BY <1>2, <1>3
<1>5. new \in Refs /\ RefOK(p, new)
  BY <1>1, <1>3, <1>4, Indexed
<1> HIDE DEF new
<1> QED
  BY <1>5, <1>e, DownOK

\* A step of a cursor, from an element that can step.
LEMMA StepOK ==
  ASSUME TreeInv, NEW p, NEW stack, StackOK(p, stack), NEW S \in SUBSET (DOMAIN stack),
         NEW delta \in Int, NEW last \in BOOLEAN,
         \A i \in S : ~stack[i].leaf =>
            (stack[i].index + delta + IndexMod) % IndexMod < Len(stack[i].inodes)
  PROVE  StackOK(p, StepStack(stack, S, delta, last))
<1>0. stack \in Seq(Refs) /\ Len(stack) \in 0 .. 2 /\ DOMAIN stack = 1 .. Len(stack)
  <2>1. stack \in Seq(Refs) /\ Len(stack) <= 2
    BY DEF StackOK
  <2>2. Len(stack) \in Nat /\ DOMAIN stack = 1 .. Len(stack)
    BY <2>1
  <2> QED
    BY <2>1, <2>2
<1>1. CASE S = {}
  BY <1>1, EmptyStack DEF StepStack
<1>2. CASE S # {}
  <2> DEFINE i == Max(S)
             j == (stack[i].index + delta + IndexMod) % IndexMod
             ref == [stack[i] EXCEPT !.index = j]
  <2>1. i \in S
    <3>1. S \subseteq {1, 2}
      BY <1>0
    <3>2. \E x \in S : \A y \in S : x >= y
      <4>1. CASE 2 \in S
        BY <3>1, <4>1
      <4>2. CASE 2 \notin S
        BY <1>2, <3>1, <4>2
      <4> QED
        BY <4>1, <4>2
    <3> QED
      BY <3>2 DEF Max
  <2>2. StepStack(stack, S, delta, last) = Down(Append(SubSeq(stack, 1, i - 1), ref), last)
    BY <1>2 DEF StepStack
  <2> HIDE DEF i
  <2>3. i \in 1 .. Len(stack) /\ stack[i] \in Refs /\ RefOK(p, stack[i])
    BY <1>0, <2>1 DEF StackOK
  <2>4. j \in 0 .. IndexMod - 1
    <3>1. stack[i].index + delta + IndexMod \in Int
      BY <2>3, KeyFacts DEF Refs
    <3> QED
      BY <3>1, ModFacts
  <2>5. ~stack[i].leaf => j < Len(stack[i].inodes)
    BY <2>1
  <2> HIDE DEF j
  <2>6. ref \in Refs /\ RefOK(p, ref) /\ ref.leaf = stack[i].leaf
    BY <2>3, <2>4, <2>5, Indexed
  <2> HIDE DEF ref
  <2>7. CASE i = 1
    <3>1. Append(SubSeq(stack, 1, i - 1), ref) = <<ref>>
      <4> DEFINE t == SubSeq(stack, 1, 0)
      <4>1. t \in Seq(Refs) /\ Len(t) = 0
        BY <1>0
      <4>2. t = <<>>
        <5> HIDE DEF t
        <5> QED
          BY <4>1, EmptySeq
      <4>3. i - 1 = 0
        BY <2>7
      <4>4. Append(<<>>, ref) = <<ref>>
        OBVIOUS
      <4> QED
        BY <4>2, <4>3, <4>4
    <3> QED
      BY <2>2, <2>6, <3>1, DownOK
  <2>8. CASE i = 2
    <3>1. Len(stack) = 2 /\ i = Len(stack) /\ stack[1] \in Refs
      BY <1>0, <2>3, <2>8
    <3>2. RefOK(p, stack[1]) /\ ~stack[1].leaf /\ stack[2].leaf
      BY <1>0, <3>1 DEF StackOK
    <3>3. SubSeq(stack, 1, i - 1) = <<stack[1]>>
      <4> DEFINE t == SubSeq(stack, 1, 1)
                 u == <<stack[1]>>
      <4>1. /\ t \in Seq(Refs) /\ Len(t) = 1 /\ t[1] = stack[1]
            /\ u \in Seq(Refs) /\ Len(u) = 1 /\ u[1] = stack[1]
        BY <1>0, <3>1
      <4>2. \A m \in 1 .. Len(t) : m = 1
        BY <4>1
      <4>3. t = u
        <5> HIDE DEF t, u
        <5> QED
          BY <4>1, <4>2, SeqEqual
      <4>4. i - 1 = 1
        BY <2>8
      <4> QED
        BY <4>3, <4>4
    <3>4. ref.leaf
      BY <2>6, <2>8, <3>2
    <3>5. /\ StackOK(p, <<stack[1], ref>>) /\ Last(<<stack[1], ref>>) = ref
          /\ <<stack[1], ref>> = Append(<<stack[1]>>, ref)
      BY <2>6, <3>1, <3>2, <3>4, StackOf
    <3>6. Down(<<stack[1], ref>>, last) = <<stack[1], ref>>
      BY <3>4, <3>5 DEF Down
    <3> QED
      BY <2>2, <3>3, <3>5, <3>6
  <2> QED
    BY <1>0, <2>3, <2>7, <2>8
<1> QED
  BY <1>1, <1>2

\* Cursor::next and Cursor::prev.
LEMMA MoveOK ==
  ASSUME TreeInv, NEW p \in DOMAIN opened, NEW stack, StackOK(p, stack)
  PROVE  StackOK(p, NextStack(p, stack)) /\ StackOK(p, PrevStack(p, stack))
<1>0. stack \in Seq(Refs) /\ DOMAIN stack = 1 .. Len(stack)
  BY DEF StackOK
<1>1. ASSUME NEW i \in DOMAIN stack
      PROVE  /\ stack[i] \in Refs /\ RefOK(p, stack[i]) /\ stack[i].index \in 0 .. IndexMod - 1
             /\ ~stack[i].leaf =>
                  /\ stack[i].index < Len(stack[i].inodes) /\ Len(stack[i].inodes) < IndexMod
                  /\ Len(stack[i].inodes) \in Nat
                  /\ RefCount(p, stack[i]) = Len(stack[i].inodes)
  <2>0. i \in 1 .. Len(stack)
    BY <1>0
  <2>1. stack[i] \in Refs /\ RefOK(p, stack[i])
    <3>1. \A m \in 1 .. Len(stack) : RefOK(p, stack[m])
      BY DEF StackOK
    <3>2. stack[i] \in Refs
      BY <1>0, <2>0
    <3> QED
      BY <2>0, <3>1, <3>2
  <2>2. stack[i].index \in 0 .. IndexMod - 1
    BY <2>1 DEF Refs
  <2>3. ~stack[i].leaf => /\ stack[i].index < Len(stack[i].inodes)
                          /\ BranchList(stack[i].inodes, used, p)
    BY <2>1 DEF RefOK
  <2>4. ~stack[i].leaf => Len(stack[i].inodes) < IndexMod /\ Len(stack[i].inodes) \in Nat
    BY <2>3 DEF BranchList
  <2>5. ~stack[i].leaf => RefCount(p, stack[i]) = Len(stack[i].inodes)
    BY <2>1, ElementsOK DEF RefCount
  <2> QED
    BY <2>1, <2>2, <2>3, <2>4, <2>5
<1>2. StackOK(p, NextStack(p, stack))
  <2> DEFINE S == {i \in DOMAIN stack : (stack[i].index + 1) % IndexMod < RefCount(p, stack[i])}
  <2>1. ASSUME NEW i \in S, ~stack[i].leaf
        PROVE  (stack[i].index + 1 + IndexMod) % IndexMod < Len(stack[i].inodes)
    <3>0. i \in DOMAIN stack /\ (stack[i].index + 1) % IndexMod < Len(stack[i].inodes)
      BY <1>1, <2>1
    <3>1. stack[i].index + 1 \in 0 .. IndexMod - 1
      BY <1>1, <2>1, <3>0, KeyFacts
    <3>2. (stack[i].index + 1 + IndexMod) % IndexMod = (stack[i].index + 1) % IndexMod
      BY <3>1, ModFacts
    <3> QED
      BY <3>0, <3>2
  <2>2. NextStack(p, stack) = StepStack(stack, S, 1, FALSE)
    BY DEF NextStack
  <2>3. S \in SUBSET (DOMAIN stack) /\ 1 \in Int
    OBVIOUS
  <2> HIDE DEF S
  <2> QED
    BY <2>1, <2>2, <2>3, StepOK
<1>3. StackOK(p, PrevStack(p, stack))
  <2> DEFINE S == {i \in DOMAIN stack : stack[i].index > 0}
  <2>1. ASSUME NEW i \in S, ~stack[i].leaf
        PROVE  (stack[i].index + -1 + IndexMod) % IndexMod < Len(stack[i].inodes)
    <3>0. i \in DOMAIN stack /\ stack[i].index > 0
      BY <2>1
    <3>1. stack[i].index + -1 \in 0 .. IndexMod - 1 /\ stack[i].index + -1 < Len(stack[i].inodes)
      BY <1>1, <2>1, <3>0, KeyFacts
    <3>2. (stack[i].index + -1 + IndexMod) % IndexMod = stack[i].index + -1
      BY <3>1, ModFacts
    <3> QED
      BY <3>1, <3>2
  <2>2. PrevStack(p, stack) = StepStack(stack, S, -1, TRUE)
    BY DEF PrevStack
  <2>3. S \in SUBSET (DOMAIN stack) /\ -1 \in Int
    OBVIOUS
  <2> HIDE DEF S
  <2> QED
    BY <2>1, <2>2, <2>3, StepOK
<1> QED
  BY <1>2, <1>3

---------------------------------------------------------------------------
(* The inductive invariant.                                                *)

\* A stack stays what it is while its bucket has its pages and its node.
LEMMA StackKept ==
  ASSUME NEW p, NEW stack, StackOK(p, stack), used' = used,
         \A q \in used : pages'[q] = pages[q],
         opened[p].hasNode => opened'[p].hasNode
  PROVE  StackOK(p, stack)'
<1>1. ASSUME NEW s, BranchList(s, used, p) PROVE BranchList(s, used, p)'
  BY <1>1 DEF BranchList
<1>2. ASSUME NEW ref, RefOK(p, ref) PROVE RefOK(p, ref)'
  BY <1>1, <1>2 DEF RefOK
<1> QED
  BY <1>2 DEF StackOK

\* So does the cursor, unless its call moves it.
LEMMA CursorKept ==
  ASSUME CursorOK, used' = used, \A q \in used : pages'[q] = pages[q],
         DOMAIN opened \subseteq DOMAIN opened',
         \A p \in DOMAIN opened : opened[p].hasNode => opened'[p].hasNode,
         NEW fresh \in BOOLEAN, cursor' = [cursor EXCEPT !.fresh = fresh]
  PROVE  CursorOK'
<1>1. cursor \in [on : BOOLEAN, path : Seq(Names), stack : Seq(Refs), fresh : BOOLEAN]
  BY DEF CursorOK
<1>2. /\ cursor'.on = cursor.on /\ cursor'.path = cursor.path /\ cursor'.stack = cursor.stack
      /\ cursor' \in [on : BOOLEAN, path : Seq(Names), stack : Seq(Refs), fresh : BOOLEAN]
  BY <1>1
<1>3. PICK p, stack : p = cursor.path /\ stack = cursor.stack
  OBVIOUS
<1>4. cursor.on => p \in DOMAIN opened /\ StackOK(p, stack)
  BY <1>3 DEF CursorOK
<1>5. cursor.on => p \in DOMAIN opened' /\ StackOK(p, stack)'
  BY <1>4, StackKept
<1>6. ~cursor.on => cursor.stack = <<>>
  BY DEF CursorOK
<1>7. cursor'.path = p /\ cursor'.stack = stack
  BY <1>2, <1>3
<1>8. cursor'.on => cursor'.path \in DOMAIN opened' /\ StackOK(cursor.path, cursor.stack)'
  BY <1>2, <1>5, <1>7
<1>9. ~cursor'.on => cursor'.stack = <<>>
  BY <1>2, <1>6
<1> QED
  BY <1>2, <1>8, <1>9 DEF CursorOK

\* In particular when nobody touches it.
LEMMA CursorStays ==
  ASSUME CursorOK, used' = used, \A q \in used : pages'[q] = pages[q],
         DOMAIN opened \subseteq DOMAIN opened',
         \A p \in DOMAIN opened : opened[p].hasNode => opened'[p].hasNode,
         cursor' = cursor
  PROVE  CursorOK'
<1>1. cursor \in [on : BOOLEAN, path : Seq(Names), stack : Seq(Refs), fresh : BOOLEAN]
  BY DEF CursorOK
<1>2. cursor.fresh \in BOOLEAN /\ cursor' = [cursor EXCEPT !.fresh = cursor.fresh]
  BY <1>1
<1> QED
  BY <1>2, CursorKept

\* No cursor.
LEMMA CursorGone == ASSUME cursor' = NoCursor PROVE CursorOK'
<1>1. /\ cursor'.on = FALSE /\ cursor'.stack = <<>>
      /\ cursor' \in [on : BOOLEAN, path : Seq(Names), stack : Seq(Refs), fresh : BOOLEAN]
  BY DEF NoCursor
<1> QED
  BY <1>1 DEF CursorOK

\* A call that places the cursor.
LEMMA CursorPlaced ==
  ASSUME TreeInv, NEW p \in DOMAIN opened, NEW stack, StackOK(p, stack), Position(p, stack),
         UNCHANGED <<file, spill>>
  PROVE  CursorOK'
<1>1. p \in Seq(Names) /\ stack \in Seq(Refs)
  BY DEF TreeInv, ObjectsAreBuckets, StackOK
<1>2. /\ cursor'.on = TRUE /\ cursor'.path = p /\ cursor'.stack = stack
      /\ cursor' \in [on : BOOLEAN, path : Seq(Names), stack : Seq(Refs), fresh : BOOLEAN]
  BY <1>1 DEF Position
<1>3. StackOK(p, stack)'
  BY StackKept DEF Position, file
<1>4. StackOK(cursor.path, cursor.stack)'
  BY <1>2, <1>3
<1>5. p \in DOMAIN opened'
  BY DEF Position
<1> QED
  BY <1>2, <1>4, <1>5 DEF CursorOK

\* A step that changes neither the file nor the objects.
LEMMA SameObjects ==
  ASSUME TreeInv, UNCHANGED <<file, spill, mode, opened>>
  PROVE  TreeInv'
<1>0. /\ ObjectsAreBuckets /\ ObjectsHaveRoots /\ ObjectsAreElements /\ ElementsLead
      /\ PagesHoldLists /\ PagesFormTree /\ CommitProceeds /\ WrittenHoldNodes
      /\ UNCHANGED <<pages, used, rootPage, opened, todo, freed, written, mode>>
  BY DEF TreeInv, file, spill
<1>1. ASSUME NEW x PROVE Done(x)' <=> Done(x)
  BY <1>0 DEF Done
<1>2. ASSUME NEW x PROVE ListOf(x)' = ListOf(x) /\ IsLeaf(x)' = IsLeaf(x)
  BY <1>0, SameList
<1>r. ASSUME NEW r, NEW x PROVE RootOf(r, x)' <=> RootOf(r, x)
  BY <1>0 DEF RootOf, Sole
<1>3. PagesHoldLists'
  BY <1>0 DEF PagesHoldLists, BranchList
<1>4. PagesFormTree'
  BY <1>0, <1>r DEF PagesFormTree
<1>5. ObjectsAreBuckets'
  BY <1>0, <1>1 DEF ObjectsAreBuckets
<1>6. ObjectsHaveRoots'
  BY <1>0, <1>1, <1>r DEF ObjectsHaveRoots
<1>7. ObjectsAreElements'
  BY <1>0, <1>1, PlaceUnchanged DEF ObjectsAreElements
<1>8. ElementsLead'
  BY <1>0, <1>2, <1>r DEF ElementsLead
<1>9. CommitProceeds'
  BY <1>0, <1>1 DEF CommitProceeds
<1>10. WrittenHoldNodes'
  BY <1>0, <1>1 DEF WrittenHoldNodes, BranchList
<1> QED
  BY <1>3, <1>4, <1>5, <1>6, <1>7, <1>8, <1>9, <1>10 DEF TreeInv

\* A call that changes the node of a bucket but none of its buckets, except
\* that it may drop a fresh one.
LEMMA ModifyStep ==
  ASSUME TreeInv, CursorOK, NEW p \in DOMAIN opened, InCall(p, {"rw"}), IsLeaf(p),
         NEW bytes \in Bytes(p), NEW new, LeafList(new),
         BucketsIn(ToSet(new)) \subseteq BucketsIn(ToSet(Inodes(p, bytes))),
         \A i \in BucketsIn(ToSet(Inodes(p, bytes))) :
           i \in BucketsIn(ToSet(new)) \/ Fresh(Append(p, i.key)),
         Modify(p, bytes, new)
  PROVE  TreeInv' /\ CursorOK'
<1>0. /\ mode = "rw" /\ mode' = mode /\ UNCHANGED <<file, spill>>
      /\ opened' = [opened EXCEPT ![p] = WithNode(@, Inodes(p, bytes), new)]
  BY DEF InCall, Modify
<1>1. BucketsIn(ToSet(Inodes(p, bytes))) = BucketsIn(ToSet(ListOf(p)))
  BY ObjectList
<1>2. ObjectsInv'
  BY <1>0, <1>1, ModifyKeeps
<1>3. PagesHoldLists' /\ PagesFormTree' /\ CommitProceeds' /\ WrittenHoldNodes'
  BY <1>0, FileKept DEF Quiet
<1>4. TreeInv'
  BY <1>2, <1>3 DEF TreeInv, ObjectsInv
<1>5. CursorOK'
  <2>1. cursor.fresh \in BOOLEAN
    BY DEF CursorOK
  <2>2. \E fresh \in BOOLEAN : cursor' = [cursor EXCEPT !.fresh = fresh]
    <3> DEFINE fresh == cursor.fresh /\ (cursor.on /\ cursor.path = p => Inodes(p, bytes) = new)
    <3>1. fresh \in BOOLEAN
      BY <2>1
    <3>2. cursor' = [cursor EXCEPT !.fresh = fresh]
      BY DEF Modify, Touch, CursorOK
    <3> QED
      BY <3>1, <3>2
  <2>3. opened[p] \in Objects
    BY DEF TreeInv, ObjectsAreBuckets
  <2> DEFINE b == WithNode(opened[p], Inodes(p, bytes), new)
  <2>4. b.hasNode = TRUE
    BY <2>3, WithNodeFacts DEF Noded
  <2>5. DOMAIN opened' = DOMAIN opened /\ opened'[p] = b
        /\ \A x \in DOMAIN opened : x # p => opened'[x] = opened[x]
    BY <1>0
  <2> HIDE DEF b
  <2>6. \A x \in DOMAIN opened : opened[x].hasNode => opened'[x].hasNode
    BY <2>4, <2>5
  <2>7. used' = used /\ pages' = pages
    BY <1>0 DEF file
  <2> QED
    BY <2>2, <2>5, <2>6, <2>7, CursorKept
<1> QED
  BY <1>4, <1>5

\* Bucket::put.
LEMMA PutKeeps ==
  ASSUME TreeInv, CursorOK, NEW p \in DOMAIN opened, NEW k \in Keys, NEW len \in Lens,
         Put(p, k, len)
  PROVE  TreeInv' /\ CursorOK'
<1> DEFINE e == Leaf(k, valueLeafFlag, PlainValue(len))
<1>1. PICK bytes \in Bytes(p) :
        /\ ~\E inode \in Found(p, k, bytes) : IsBucketInode(inode)
        /\ Modify(p, bytes, put(Inodes(p, bytes), k, e))
  BY DEF Put
<1>2. InCall(p, {"rw"}) /\ IsLeaf(p)
  BY DEF Put
<1>3. k \in Int
  BY KeyFacts
<1> DEFINE s == Inodes(p, bytes)
<1>4. LeafList(s)
  BY <1>2, ObjectList
<1>5. \A i \in BucketsIn(ToSet(s)) : i.key # k
  BY <1>1, <1>2, <1>3, FoundFacts DEF BucketsIn
<1> DEFINE new == put(s, k, e)
<1>6. LeafList(new) /\ BucketsIn(ToSet(new)) = BucketsIn(ToSet(s))
  <2> HIDE DEF s
  <2> QED
    BY <1>4, <1>5, PlainChange
<1> HIDE DEF new
<1>7. Modify(p, bytes, new)
  BY <1>1 DEF new
<1> QED
  BY <1>2, <1>6, <1>7, ModifyStep

\* A deletion of a key that is no bucket's, or a fresh one's.
LEMMA DelKeeps ==
  ASSUME TreeInv, CursorOK, NEW p \in DOMAIN opened, NEW k \in Int, InCall(p, {"rw"}), IsLeaf(p),
         NEW bytes \in Bytes(p),
         (\A i \in BucketsIn(ToSet(Inodes(p, bytes))) : i.key # k) \/ Fresh(Append(p, k)),
         Modify(p, bytes, del(Inodes(p, bytes), k))
  PROVE  TreeInv' /\ CursorOK'
<1> DEFINE s == Inodes(p, bytes)
           new == del(s, k)
<1>1. LeafList(s)
  BY ObjectList
<1>2. LeafList(new) /\ ToSet(new) = {y \in ToSet(s) : y.key # k}
  <2> HIDE DEF s
  <2> QED
    BY <1>1, DelList
<1>3. Modify(p, bytes, new)
  BY DEF new
<1> HIDE DEF new
<1>4. /\ BucketsIn(ToSet(new)) \subseteq BucketsIn(ToSet(s))
      /\ \A i \in BucketsIn(ToSet(s)) : i \in BucketsIn(ToSet(new)) \/ i.key = k
  BY <1>2 DEF BucketsIn
<1>5. \A i \in BucketsIn(ToSet(s)) : i \in BucketsIn(ToSet(new)) \/ Fresh(Append(p, i.key))
  BY <1>4
<1> QED
  BY <1>2, <1>3, <1>4, <1>5, ModifyStep

\* A search that stops at no bucket is for no bucket's key.
LEMMA NotSought ==
  ASSUME TreeInv, NEW p \in DOMAIN opened, IsLeaf(p), NEW k \in Int, NEW bytes \in Bytes(p),
         ~\E inode \in Sought(p, k, bytes) : IsBucketInode(inode)
  PROVE  \A i \in BucketsIn(ToSet(ListOf(p))) : i.key # k
<1> DEFINE s == Inodes(p, bytes)
           at == binarySearch(s, k)
<1>4. LeafList(s)
  BY ObjectList
<1>5. Sought(p, k, bytes) = {s[j] : j \in {at.index + 1} \cap DOMAIN s}
  BY DEF Sought
<1>6. \A i \in BucketsIn(ToSet(s)) : i.key # k
  <2> HIDE DEF s
  <2>1. s \in Seq(LeafInodes) /\ Ordered(s) /\ Elements(LeafInodes)
    BY <1>4, LeafFacts DEF LeafList
  <2>2. /\ at.index \in 0 .. Len(s) /\ at.found \in BOOLEAN
        /\ at.found => at.index < Len(s) /\ s[at.index + 1].key = k
        /\ at.found <=> \E x \in ToSet(s) : x.key = k
    BY <2>1, SearchFacts, SearchOrdered
  <2> HIDE DEF at
  <2>3. SUFFICES ASSUME NEW i \in BucketsIn(ToSet(s)), i.key = k PROVE FALSE
    OBVIOUS
  <2>4. i \in ToSet(s) /\ IsBucketInode(i)
    BY DEF BucketsIn
  <2>5. at.found
    BY <2>2, <2>3, <2>4
  <2>6. at.index + 1 \in 1 .. Len(s) /\ DOMAIN s = 1 .. Len(s) /\ s[at.index + 1].key = k
    BY <2>1, <2>2, <2>5
  <2>7. s[at.index + 1] \in ToSet(s)
    BY <2>1, <2>6, ToSetFacts
  <2>8. s[at.index + 1] = i
    BY <1>4, <2>3, <2>4, <2>6, <2>7, ListFacts
  <2>9. i \in Sought(p, k, bytes)
    BY <1>5, <2>6, <2>8
  <2> QED
    BY <2>4, <2>9
<1>7. BucketsIn(ToSet(s)) = BucketsIn(ToSet(ListOf(p)))
  BY ObjectList
<1> QED
  BY <1>6, <1>7

\* Bucket::remove.
LEMMA RemoveKeeps ==
  ASSUME TreeInv, CursorOK, NEW p \in DOMAIN opened, NEW k \in Keys, BucketRemove(p, k)
  PROVE  TreeInv' /\ CursorOK'
<1>1. PICK bytes \in Bytes(p) :
        /\ ~\E inode \in Sought(p, k, bytes) : IsBucketInode(inode)
        /\ Modify(p, bytes, del(Inodes(p, bytes), k))
  BY DEF BucketRemove
<1>2. InCall(p, {"rw"}) /\ IsLeaf(p)
  BY DEF BucketRemove
<1>3. k \in Int
  BY KeyFacts
<1>4. \A i \in BucketsIn(ToSet(ListOf(p))) : i.key # k
  BY <1>1, <1>2, <1>3, NotSought
<1>5. BucketsIn(ToSet(Inodes(p, bytes))) = BucketsIn(ToSet(ListOf(p)))
  BY <1>2, ObjectList
<1> QED
  BY <1>1, <1>2, <1>3, <1>4, <1>5, DelKeeps

\* The element a cursor is at.
LEMMA AtElement ==
  ASSUME TreeInv, CursorOK, cursor.on, cursor.stack # <<>>,
         NEW p, p = cursor.path, NEW ref, ref = Last(cursor.stack), InRange(p, ref)
  PROVE  /\ ref \in Refs /\ RefOK(p, ref) /\ ref.leaf
         /\ LeafList(ElementsAt(p, ref)) /\ Current(p, ref) \in ToSet(ElementsAt(p, ref))
         /\ cursor.stack[1].leaf => ref = cursor.stack[1]
<1>1. StackOK(p, cursor.stack) /\ p \in DOMAIN opened
  BY DEF CursorOK
<1> DEFINE n == Len(cursor.stack)
<1>2. cursor.stack \in Seq(Refs) /\ n \in 1 .. n /\ 1 \in 1 .. n /\ ref = cursor.stack[n]
  BY <1>1 DEF StackOK, Last
<1>3. ref \in Refs /\ RefOK(p, ref) /\ ref.leaf
  BY <1>1, <1>2 DEF StackOK
<1>4. cursor.stack[1].leaf => ref = cursor.stack[1]
  BY <1>1, <1>2 DEF StackOK
<1> DEFINE s == ElementsAt(p, ref)
<1>5. LeafList(s) /\ ref.index < Len(s) /\ ref.index \in Nat
  BY <1>1, <1>3, ElementsOK DEF InRange, RefCount, Refs
<1>6. Current(p, ref) = s[ref.index + 1]
  BY DEF Current
<1> HIDE DEF s
<1>7. s \in Seq(LeafInodes)
  BY <1>5 DEF LeafList
<1>8. ref.index + 1 \in 1 .. Len(s)
  BY <1>5, <1>7
<1>9. s[ref.index + 1] \in ToSet(s)
  BY <1>7, <1>8, ToSetFacts
<1> QED
  BY <1>3, <1>4, <1>5, <1>6, <1>9 DEF s

\* Cursor::remove.
LEMMA CursorRemoveKeeps ==
  ASSUME TreeInv, CursorOK, ShownPlain, CursorRemove \/ CursorRemoveNothing
  PROVE  TreeInv' /\ CursorOK'
<1>0. PICK p : p = cursor.path
  OBVIOUS
<1>1. cursor.on /\ InCall(p, {"rw"}) /\ IsLeaf(p) /\ p \in DOMAIN opened /\ cursor.stack # <<>>
  BY <1>0 DEF CursorRemove, CursorRemoveNothing, InCall
<1>2. CASE CursorRemove
  <2>0. PICK ref : ref = Last(cursor.stack)
    OBVIOUS
  <2>i. PICK i : i = Current(p, ref)
    OBVIOUS
  <2>1. PICK bytes \in Bytes(p) : Modify(p, bytes, del(Inodes(p, bytes), i.key))
    BY <1>0, <1>2, <2>0, <2>i DEF CursorRemove
  <2>2. InRange(p, ref) /\ ~IsBucketInode(i)
    BY <1>0, <1>2, <2>0, <2>i DEF CursorRemove
  <2>3. /\ ref \in Refs /\ RefOK(p, ref) /\ ref.leaf
        /\ LeafList(ElementsAt(p, ref)) /\ i \in ToSet(ElementsAt(p, ref))
        /\ cursor.stack[1].leaf => ref = cursor.stack[1]
    BY <1>0, <1>1, <2>0, <2>2, <2>i, AtElement
  <2>4. i.key \in Int
    BY <2>3, ListFacts, LeafFacts, KeyFacts
  <2>5. ShowsFresh(p, cursor.stack[1])
    BY <1>0, <1>1 DEF ShownPlain, InCall
  <2>6. CASE ref.live
    <3>1. ElementsAt(p, ref) = Inodes(p, bytes)
      BY <2>3, <2>6 DEF ElementsAt, Inodes, RefOK
    <3>2. \A j \in BucketsIn(ToSet(Inodes(p, bytes))) : j.key # i.key
      BY <2>2, <2>3, <3>1, ListFacts DEF BucketsIn
    <3> QED
      BY <1>1, <2>1, <2>4, <3>2, DelKeeps
  <2>7. CASE ~ref.live
    <3>1. i \in ToSet(ref.inodes) /\ ref = cursor.stack[1]
      BY <2>3, <2>5, <2>7 DEF ElementsAt, ShowsFresh
    <3>2. Fresh(Append(p, i.key))
      BY <2>2, <2>5, <2>7, <3>1 DEF ShowsFresh
    <3> QED
      BY <1>1, <2>1, <2>4, <3>2, DelKeeps
  <2> QED
    BY <2>6, <2>7
<1>3. CASE CursorRemoveNothing
  <2>1. PICK bytes \in Bytes(p) :
          \/ UNCHANGED <<opened, cursor, mode>>
          \/ Modify(p, bytes, del(Inodes(p, bytes), NoKey))
    BY <1>0, <1>3 DEF CursorRemoveNothing
  <2>2. UNCHANGED <<file, spill>>
    BY <1>1 DEF InCall
  <2>3. CASE UNCHANGED <<opened, cursor, mode>>
    <3>1. TreeInv'
      BY <2>2, <2>3, SameObjects
    <3>2. used' = used /\ pages' = pages
      BY <2>2 DEF file
    <3>3. CursorOK'
      BY <2>3, <3>2, CursorStays
    <3> QED
      BY <3>1, <3>3
  <2>4. CASE Modify(p, bytes, del(Inodes(p, bytes), NoKey))
    <3>1. LeafList(Inodes(p, bytes))
      BY <1>1, ObjectList
    <3>2. \A i \in BucketsIn(ToSet(Inodes(p, bytes))) : i.key # NoKey
      <4>1. ToSet(Inodes(p, bytes)) \subseteq LeafInodes
        BY <3>1, ListFacts
      <4> QED
        BY <4>1, LeafFacts, BucketAssumption DEF BucketsIn
    <3>3. NoKey \in Int
      BY DEF NoKey
    <3> QED
      BY <1>1, <2>4, <3>2, <3>3, DelKeeps
  <2> QED
    BY <2>1, <2>3, <2>4
<1> QED
  BY <1>2, <1>3

\* Calls that only move the cursor.
LEMMA CursorCallKeeps ==
  ASSUME TreeInv, CursorOK, NEW p \in DOMAIN opened,
         (\E k \in Keys : Seek(p, k)) \/ CursorFirst(p) \/ CursorLast(p)
  PROVE  TreeInv' /\ CursorOK'
<1>1. mode \in {"ro", "rw"} /\ UNCHANGED <<file, spill>>
  BY DEF Seek, CursorFirst, CursorLast, InCall
<1>2. PICK stack : StackOK(p, stack) /\ Position(p, stack)
  <2>1. ASSUME NEW k \in Keys, Seek(p, k) PROVE \E stack : StackOK(p, stack) /\ Position(p, stack)
    <3>1. PICK bytes \in Bytes(p), i \in Routes(p) : Position(p, SeekStack(p, k, bytes, i))
      BY <2>1 DEF Seek
    <3> QED
      BY <1>1, <3>1, SeekOK
  <2>2. CASE CursorFirst(p)
    <3>1. PICK bytes \in Bytes(p) : Position(p, FirstStack(p, bytes))
      BY <2>2 DEF CursorFirst
    <3> QED
      BY <1>1, <3>1, FirstOK
  <2>3. CASE CursorLast(p)
    <3>1. PICK bytes \in Bytes(p) : Position(p, LastStack(p, bytes))
      BY <2>3 DEF CursorLast
    <3> QED
      BY <1>1, <3>1, LastOK
  <2> QED
    BY <2>1, <2>2, <2>3
<1>3. CursorOK'
  BY <1>1, <1>2, CursorPlaced
<1>4. UNCHANGED <<mode, opened>>
  BY <1>2 DEF Position
<1>5. TreeInv'
  BY <1>1, <1>4, SameObjects
<1> QED
  BY <1>3, <1>5

\* Cursor::next and Cursor::prev.
LEMMA MoveKeeps ==
  ASSUME TreeInv, CursorOK, CursorNext \/ CursorPrev
  PROVE  TreeInv' /\ CursorOK'
<1>0. PICK p, old : p = cursor.path /\ old = cursor.stack
  OBVIOUS
<1>1. /\ cursor.on /\ p \in DOMAIN opened /\ UNCHANGED <<file, spill>>
      /\ UNCHANGED <<mode, opened>>
      /\ \E stack \in {NextStack(p, old), PrevStack(p, old)} :
           cursor' = [cursor EXCEPT !.stack = stack]
  BY <1>0 DEF CursorNext, CursorPrev, Move, InCall
<1>2. StackOK(p, old)
  BY <1>0, <1>1 DEF CursorOK
<1>3. PICK stack : StackOK(p, stack) /\ cursor' = [cursor EXCEPT !.stack = stack]
  BY <1>1, <1>2, MoveOK
<1>4. stack \in Seq(Refs)
  BY <1>3 DEF StackOK
<1>5. cursor \in [on : BOOLEAN, path : Seq(Names), stack : Seq(Refs), fresh : BOOLEAN]
  BY DEF CursorOK
<1>6. /\ cursor'.on = cursor.on /\ cursor'.path = p /\ cursor'.stack = stack
      /\ cursor' \in [on : BOOLEAN, path : Seq(Names), stack : Seq(Refs), fresh : BOOLEAN]
  BY <1>0, <1>3, <1>4, <1>5
<1>7. StackOK(p, stack)'
  BY <1>1, <1>3, StackKept DEF file
<1>8. StackOK(cursor.path, cursor.stack)'
  BY <1>6, <1>7
<1>9. CursorOK'
  BY <1>1, <1>6, <1>8 DEF CursorOK
<1>10. TreeInv'
  BY <1>1, SameObjects
<1> QED
  BY <1>9, <1>10

\* A fresh database.
LEMMA InitOK == Init => TreeInv /\ CursorOK
<1> SUFFICES ASSUME Init PROVE TreeInv /\ CursorOK
  OBVIOUS
<1>0. /\ rootPage = Min(PageIds) /\ used = {rootPage} /\ pages = [q \in PageIds |-> Blank]
      /\ mode = "none" /\ opened = <<>> /\ cursor = NoCursor
      /\ todo = {} /\ freed = {} /\ written = {}
  BY DEF Init
<1>1. rootPage \in PageIds
  <2>1. PageIds \in SUBSET Nat /\ PageIds # {}
    BY BucketAssumption
  <2>2. \E x \in PageIds : \A y \in PageIds : x <= y
    BY <2>1, Least
  <2> QED
    BY <1>0, <2>2 DEF Min
<1>2. DOMAIN opened = {}
  <2>1. DOMAIN <<>> = {}
    OBVIOUS
  <2> QED
    BY <1>0, <2>1
<1>3. \A q \in PageIds : pages[q] = Page(TRUE, <<>>, <<>>)
  BY <1>0 DEF Blank
<1>4. ASSUME NEW q \in PageIds
      PROVE  /\ pages[q].leaf = TRUE /\ pages[q].inodes = <<>> /\ pages[q].of = <<>>
             /\ pages[q] \in [leaf : BOOLEAN, inodes : Seq(LeafInodes \cup BranchInodes),
                              of : Seq(Names)]
  <2> DEFINE b == pages[q]
  <2>1. b = [leaf |-> TRUE, inodes |-> <<>>, of |-> <<>>]
    BY <1>3 DEF Page
  <2>2. <<>> \in Seq(LeafInodes \cup BranchInodes) /\ <<>> \in Seq(Names)
    OBVIOUS
  <2> HIDE DEF b
  <2>3. /\ b.leaf = TRUE /\ b.inodes = <<>> /\ b.of = <<>>
        /\ b \in [leaf : BOOLEAN, inodes : Seq(LeafInodes \cup BranchInodes), of : Seq(Names)]
    BY <2>1, <2>2
  <2> QED
    BY <2>3 DEF b
<1>5. PagesHoldLists
  <2>1. pages \in [PageIds -> [leaf : BOOLEAN, inodes : Seq(LeafInodes \cup BranchInodes),
                               of : Seq(Names)]]
    BY <1>0, <1>4
  <2> QED
    BY <1>0, <1>1, <1>4, <2>1, EmptyLeafList DEF PagesHoldLists
<1>6. PagesFormTree
  <2>1. RootOf(rootPage, <<>>)
    BY <1>0, <1>1, <1>4 DEF RootOf, Sole
  <2> QED
    BY <1>0, <1>1, <1>4, <2>1, EmptyLeafList DEF PagesFormTree
<1>7. ObjectsAreBuckets /\ ObjectsHaveRoots /\ ObjectsAreElements /\ ElementsLead
  BY <1>0, <1>2 DEF ObjectsAreBuckets, ObjectsHaveRoots, ObjectsAreElements, ElementsLead
<1>8. CommitProceeds /\ WrittenHoldNodes
  BY <1>0, <1>2 DEF CommitProceeds, WrittenHoldNodes
<1>9. CursorOK
  <2>1. /\ cursor.on = FALSE /\ cursor.stack = <<>>
        /\ cursor \in [on : BOOLEAN, path : Seq(Names), stack : Seq(Refs), fresh : BOOLEAN]
    BY <1>0 DEF NoCursor
  <2> QED
    BY <2>1 DEF CursorOK
<1> QED
  BY <1>5, <1>6, <1>7, <1>8, <1>9 DEF TreeInv

\* Steps that end a transaction without a commit, or begin one.
LEMMA EndKeeps ==
  ASSUME TreeInv, mode' \in {"none", "dead"}, Quiet(mode), opened' = <<>>, cursor' = NoCursor,
         UNCHANGED <<file, spill>>
  PROVE  TreeInv' /\ CursorOK'
<1>1. ObjectsInv'
  BY NoObjects
<1>2. PagesHoldLists' /\ PagesFormTree' /\ CommitProceeds' /\ WrittenHoldNodes'
  BY FileKept DEF Quiet
<1> QED
  BY <1>1, <1>2, CursorGone DEF TreeInv, ObjectsInv

\* A commit that an assertion ends.
LEMMA SpillAbortKeeps ==
  ASSUME TreeInv, NEW p, SpillAborts(p)
  PROVE  TreeInv' /\ CursorOK'
<1>0. /\ PagesHoldLists /\ PagesFormTree /\ UNCHANGED <<pages, used, rootPage>>
      /\ mode' = "dead" /\ opened' = <<>> /\ cursor' = NoCursor
      /\ todo' = {} /\ freed' = {} /\ written' = {}
  BY DEF TreeInv, SpillAborts, Dies, file
<1>1. DOMAIN opened' = {}
  <2>1. DOMAIN <<>> = {}
    OBVIOUS
  <2> QED
    BY <1>0, <2>1
<1>r. ASSUME NEW r, NEW x PROVE RootOf(r, x)' <=> RootOf(r, x)
  BY <1>0 DEF RootOf, Sole
<1>h. PagesHoldLists'
  BY <1>0 DEF PagesHoldLists, BranchList
<1>2. PagesFormTree'
  BY <1>0, <1>r DEF PagesFormTree
<1>3. CommitProceeds' /\ WrittenHoldNodes'
  BY <1>0, <1>1 DEF CommitProceeds, WrittenHoldNodes
<1>4. ObjectsInv' /\ CursorOK'
  BY <1>0, NoObjects, CursorGone
<1> QED
  BY <1>h, <1>2, <1>3, <1>4 DEF TreeInv, ObjectsInv

\* A bucket is spilled under the cursor.
LEMMA SpillCursor ==
  ASSUME TreeInv, CursorOK, NEW p \in todo, NEW r, NEW x, Moved(p, r, x), Placed(p, r, x),
         used' = used, cursor' = cursor
  PROVE  CursorOK'
<1>0. p \in DOMAIN opened /\ (p # <<>> => Front(p) \in DOMAIN opened)
  BY DEF TreeInv, CommitProceeds, ObjectsAreElements
<1>1. \A q \in used : pages'[q] = pages[q]
  BY DEF Placed
<1>2. DOMAIN opened' = DOMAIN opened
  BY DEF Moved
<1>3. ASSUME NEW y \in DOMAIN opened, opened[y].hasNode PROVE opened'[y].hasNode
  <2>1. CASE y = p
    <3>1. opened'[p] = [opened[p] EXCEPT !.root = r] /\ opened[p] \in Objects
      BY <1>0 DEF Moved, TreeInv, ObjectsAreBuckets
    <3>2. opened'[p].hasNode = opened[p].hasNode
      BY <3>1 DEF Objects
    <3> QED
      BY <1>3, <2>1, <3>2
  <2>2. CASE y # p /\ p # <<>> /\ y = Front(p)
    BY <2>2 DEF Moved, Noded
  <2>3. CASE y # p /\ (p = <<>> \/ y # Front(p))
    BY <1>3, <2>3 DEF Moved
  <2> QED
    BY <2>1, <2>2, <2>3
<1> QED
  BY <1>1, <1>2, <1>3, CursorStays

\* Every step keeps the invariant.
LEMMA NextOK ==
  TreeInv /\ CursorOK /\ ShownPlain /\ [Next]_vars => TreeInv' /\ CursorOK'
<1> SUFFICES ASSUME TreeInv, CursorOK, ShownPlain, [Next]_vars PROVE TreeInv' /\ CursorOK'
  OBVIOUS
<1>1. ASSUME NEW m \in {"ro", "rw"}, Begin(m) PROVE TreeInv' /\ CursorOK'
  <2>1. ObjectsInv' /\ CursorOK'
    BY <1>1, BeginKeeps, CursorGone DEF Begin
  <2>2. PagesHoldLists' /\ PagesFormTree' /\ CommitProceeds' /\ WrittenHoldNodes'
    BY <1>1, FileKept DEF Begin, Quiet
  <2> QED
    BY <2>1, <2>2 DEF TreeInv, ObjectsInv
<1>2. ASSUME NEW p \in DOMAIN opened, NEW k \in Names, OpenBucket(p, k) PROVE TreeInv' /\ CursorOK'
  <2>0. mode \in {"ro", "rw"} /\ mode' = mode /\ UNCHANGED <<file, spill, cursor>>
    BY <1>2 DEF OpenBucket
  <2>1. ObjectsInv'
    BY <1>2, OpenKeeps
  <2>2. PagesHoldLists' /\ PagesFormTree' /\ CommitProceeds' /\ WrittenHoldNodes'
    BY <2>0, FileKept DEF Quiet
  <2>3. \E b : opened' = With(opened, Append(p, k), b) /\ Append(p, k) \notin DOMAIN opened
    BY <1>2 DEF OpenBucket
  <2>4. DOMAIN opened \subseteq DOMAIN opened' /\ \A y \in DOMAIN opened : opened'[y] = opened[y]
    BY <2>3 DEF With
  <2>5. used' = used /\ pages' = pages
    BY <2>0 DEF file
  <2>6. CursorOK'
    BY <2>0, <2>4, <2>5, CursorStays
  <2> QED
    BY <2>1, <2>2, <2>6 DEF TreeInv, ObjectsInv
<1>3. ASSUME NEW p \in DOMAIN opened, NEW k \in Names, CreateBucket(p, k)
      PROVE  TreeInv' /\ CursorOK'
  <2>0. mode = "rw" /\ mode' = mode /\ UNCHANGED <<file, spill>>
    BY <1>3 DEF CreateBucket, InCall
  <2>1. ObjectsInv'
    BY <1>3, CreateKeeps
  <2>2. PagesHoldLists' /\ PagesFormTree' /\ CommitProceeds' /\ WrittenHoldNodes'
    BY <2>0, FileKept DEF Quiet
  <2>3. PICK old, new, b :
          /\ opened' = With([opened EXCEPT ![p] = WithNode(@, old, new)], Append(p, k), b)
          /\ Append(p, k) \in DOMAIN opened => b = opened[Append(p, k)]
          /\ Touch(p, old, new)
    BY <1>3 DEF CreateBucket
  <2>4. opened[p] \in Objects /\ p \in Seq(Names)
    BY DEF TreeInv, ObjectsAreBuckets
  <2>5. WithNode(opened[p], old, new).hasNode = TRUE
    BY <2>4, WithNodeFacts DEF Noded
  <2>n. Append(p, k) # p
    BY <2>4, ChildPath, ParentPath
  <2>6. /\ DOMAIN opened \subseteq DOMAIN opened'
        /\ \A y \in DOMAIN opened : opened[y].hasNode => opened'[y].hasNode
    <3> DEFINE c == WithNode(opened[p], old, new)
               f == [opened EXCEPT ![p] = c]
    <3>1. opened' = With(f, Append(p, k), b)
      BY <2>3
    <3> HIDE DEF c
    <3>2. DOMAIN f = DOMAIN opened /\ f[p] = c /\ \A y \in DOMAIN opened : y # p => f[y] = opened[y]
      OBVIOUS
    <3> HIDE DEF f
    <3>3. DOMAIN opened \subseteq DOMAIN opened' /\ \A y \in DOMAIN opened : opened'[y] = f[y]
      BY <2>3, <2>n, <3>1, <3>2 DEF With
    <3>4. c.hasNode = TRUE
      BY <2>5 DEF c
    <3> QED
      BY <3>2, <3>3, <3>4
  <2>7. \E fresh \in BOOLEAN : cursor' = [cursor EXCEPT !.fresh = fresh]
    <3> DEFINE fresh == cursor.fresh /\ (cursor.on /\ cursor.path = p => old = new)
    <3>1. cursor.fresh \in BOOLEAN
      BY DEF CursorOK
    <3>2. fresh \in BOOLEAN
      BY <3>1
    <3>3. cursor' = [cursor EXCEPT !.fresh = fresh]
      BY <2>3 DEF Touch, CursorOK
    <3> QED
      BY <3>2, <3>3
  <2>8. used' = used /\ pages' = pages
    BY <2>0 DEF file
  <2>9. CursorOK'
    BY <2>6, <2>7, <2>8, CursorKept
  <2> QED
    BY <2>1, <2>2, <2>9 DEF TreeInv, ObjectsInv
<1>d. ASSUME NEW p \in DOMAIN opened, NEW k \in Names, DeleteBucket(p, k)
      PROVE  TreeInv' /\ CursorOK'
  <2>1. UNCHANGED <<file, spill, mode, opened, cursor>>
    BY <1>d DEF DeleteBucket, InCall
  <2>2. TreeInv'
    BY <2>1, SameObjects
  <2> QED
    BY <2>1, <2>2, CursorStays DEF file
<1>a. ASSUME NEW p \in DOMAIN opened, NEW k, NEW op, Abort(op, p, k) PROVE TreeInv' /\ CursorOK'
  BY <1>a, EndKeeps DEF Abort, Dies, InCall, Quiet
<1>s. ASSUME NEW p \in todo, SpillAborts(p) PROVE TreeInv' /\ CursorOK'
  BY <1>s, SpillAbortKeeps
<1>4. ASSUME NEW p \in DOMAIN opened, NEW k \in Keys,
             \/ \E len \in Lens : Put(p, k, len)
             \/ BucketRemove(p, k)
             \/ Seek(p, k)
             \/ \E op \in {"Put", "Remove", "DeleteBucket", "CursorRemove"} : Abort(op, p, k)
      PROVE  TreeInv' /\ CursorOK'
  <2>1. CASE \E len \in Lens : Put(p, k, len)
    BY <2>1, PutKeeps
  <2>2. CASE BucketRemove(p, k)
    BY <2>2, RemoveKeeps
  <2>3. CASE Seek(p, k)
    BY <2>3, CursorCallKeeps
  <2>4. ASSUME NEW op, Abort(op, p, k) PROVE TreeInv' /\ CursorOK'
    BY <2>4, EndKeeps DEF Abort, Dies, InCall, Quiet
  <2> QED
    BY <1>4, <2>1, <2>2, <2>3, <2>4
<1>c. ASSUME NEW p \in DOMAIN opened, CursorFirst(p) \/ CursorLast(p) PROVE TreeInv' /\ CursorOK'
  BY <1>c, CursorCallKeeps
<1>5. ASSUME CursorNext \/ CursorPrev PROVE TreeInv' /\ CursorOK'
  BY <1>5, MoveKeeps
<1>6. ASSUME CursorRemove \/ CursorRemoveNothing PROVE TreeInv' /\ CursorOK'
  BY <1>6, CursorRemoveKeeps
<1>7. ASSUME StartCommit PROVE TreeInv' /\ CursorOK'
  <2>1. TreeInv'
    BY <1>7, StartCommitKeeps
  <2> QED
    BY <1>7, <2>1, CursorStays DEF StartCommit, file
<1>8. ASSUME NEW p \in todo, SpillNothing(p) PROVE TreeInv' /\ CursorOK'
  <2>1. TreeInv'
    BY <1>8, SpillNothingKeeps
  <2> QED
    BY <1>8, <2>1, CursorStays DEF SpillNothing, file
<1>9. ASSUME NEW p \in todo, SpillInline(p) \/ SpillNode(p) PROVE TreeInv' /\ CursorOK'
  <2>1. TreeInv' /\ \E r, x : Moved(p, r, x) /\ Placed(p, r, x)
    BY <1>9, SpillInlineKeeps, SpillNodeKeeps
  <2>2. used' = used /\ cursor' = cursor
    BY <1>9 DEF SpillInline, SpillNode, Spilled
  <2> QED
    BY <2>1, <2>2, SpillCursor
<1>10. ASSUME Commit PROVE TreeInv' /\ CursorOK'
  BY <1>10, CommitKeeps, CursorGone DEF Commit, Over
<1>11. ASSUME Rollback \/ Restart PROVE TreeInv' /\ CursorOK'
  BY <1>11, EndKeeps DEF Rollback, Restart, Over, Quiet
<1>12. ASSUME UNCHANGED vars PROVE TreeInv' /\ CursorOK'
  <2>1. UNCHANGED <<file, spill, mode, opened, cursor>>
    BY <1>12 DEF vars
  <2>2. TreeInv'
    BY <2>1, SameObjects
  <2> QED
    BY <2>1, <2>2, CursorStays DEF file
<1> QED
  BY <1>1, <1>2, <1>3, <1>d, <1>a, <1>s, <1>4, <1>c, <1>5, <1>6, <1>7, <1>8, <1>9, <1>10, <1>11,
     <1>12
     DEF Next, UserBuckets

---------------------------------------------------------------------------
(* What the cursor shows.                                                  *)

\* A key that is no bucket's in a bucket without a node is fresh.
LEMMA PlainIsFresh ==
  ASSUME TreeInv, mode \in {"ro", "rw"}, NEW p \in DOMAIN opened, IsLeaf(p), ~opened[p].hasNode,
         NEW k \in Keys, \A j \in BucketsIn(ToSet(ListOf(p))) : j.key # k
  PROVE  Fresh(Append(p, k)) /\ Append(p, k) \notin DOMAIN opened
<1>0. /\ ObjectsAreBuckets /\ ObjectsAreElements /\ ElementsLead /\ PagesHoldLists
      /\ p \in Seq(Names)
  BY DEF TreeInv, ObjectsAreBuckets
<1>1. Append(p, k) # <<>> /\ Front(Append(p, k)) = p /\ Last(Append(p, k)) = k
  <2>1. p \in Seq(Keys)
    BY <1>0, KeyFacts, SeqMonotonic
  <2> QED
    BY <2>1, AppendParts
<1>2. \A q \in used : pages[q].of # Append(p, k)
  BY <1>0, <1>1 DEF ElementsLead
<1>3. ASSUME Append(p, k) \in DOMAIN opened PROVE FALSE
  <2>1. InPlace(Append(p, k))
    BY <1>0, <1>1, <1>3 DEF ObjectsAreElements
  <2> QED
    BY <1>1, <2>1 DEF InPlace, HasElement, Loose, BelowBranch
<1> QED
  BY <1>2, <1>3 DEF Fresh

\* Where a call places the cursor it shows nothing that is a bucket.
LEMMA RootShows ==
  ASSUME TreeInv, mode \in {"ro", "rw"}, NEW p \in DOMAIN opened, IsLeaf(p),
         NEW bytes \in Bytes(p), NEW ref, ref.leaf = PageNode(p, bytes).leaf,
         ref.live = PageNode(p, bytes).live, ref.inodes = PageNode(p, bytes).inodes
  PROVE  ShowsFresh(p, ref)
<1>1. CASE opened[p].hasNode
  BY <1>1 DEF PageNode, ShowsFresh
<1>2. CASE ~opened[p].hasNode
  <2>1. PageNode(p, bytes).inodes = Inodes(p, bytes)
    BY <1>2 DEF Inodes
  <2>2. ref.leaf
    BY DEF IsLeaf, PageNode, Page
  <2>3. LeafList(Inodes(p, bytes))
        /\ BucketsIn(ToSet(Inodes(p, bytes))) = BucketsIn(ToSet(ListOf(p)))
    BY ObjectList
  <2>4. ASSUME NEW i \in ToSet(ref.inodes), ~IsBucketInode(i)
        PROVE  /\ Fresh(Append(p, i.key))
               /\ ~\E j \in BucketsIn(ToSet(ListOf(p))) : j.key = i.key
    <3>1. i \in ToSet(Inodes(p, bytes)) /\ i.key \in Keys
      BY <2>1, <2>3, <2>4, ListFacts, LeafFacts
    <3>2. \A j \in BucketsIn(ToSet(ListOf(p))) : j.key # i.key
      BY <2>3, <2>4, <3>1, ListFacts DEF BucketsIn
    <3> QED
      BY <1>2, <3>1, <3>2, PlainIsFresh
  <2> QED
    BY <2>2, <2>4 DEF ShowsFresh
<1> QED
  BY <1>1, <1>2

\* The first element of a stack that goes down from ref.
LEMMA DownFirst ==
  ASSUME NEW ref, NEW last
  PROVE  Down(<<ref>>, last) # <<>> /\ Down(<<ref>>, last)[1] = ref
<1>1. Last(<<ref>>) = ref
  BY DEF Last
<1>2. CASE ref.leaf
  BY <1>1, <1>2 DEF Down
<1>3. CASE ~ref.leaf
  <2> DEFINE c == Child(ref, last)
  <2>1. Down(<<ref>>, last) = Append(<<ref>>, c)
    BY <1>1, <1>3 DEF Down
  <2> HIDE DEF c
  <2>2. <<ref>> \in Seq({ref, c}) /\ c \in {ref, c} /\ Len(<<ref>>) = 1 /\ <<ref>>[1] = ref
    OBVIOUS
  <2> DEFINE s == <<ref>>
  <2> HIDE DEF s
  <2>3. Append(s, c) # <<>> /\ Append(s, c)[1] = ref
    BY <2>2, AppendProperties DEF s
  <2> QED
    BY <2>1, <2>3 DEF s
<1> QED
  BY <1>2, <1>3

\* The element ref is that of page node n but for its index.
SameRef(ref, n) == ref.leaf = n.leaf /\ ref.live = n.live /\ ref.inodes = n.inodes

\* Calls that place the cursor.
LEMMA PlacedShows ==
  ASSUME TreeInv, CursorOK, NEW p \in DOMAIN opened,
         (\E k \in Keys : Seek(p, k)) \/ CursorFirst(p) \/ CursorLast(p)
  PROVE  ShownPlain'
<1>0. /\ mode \in {"ro", "rw"} /\ UNCHANGED <<pages, used>> /\ mode' = mode /\ opened' = opened
  BY DEF Seek, CursorFirst, CursorLast, InCall, Position, file
<1>p. ASSUME NEW bytes \in Bytes(p), NEW i
      PROVE  \E n : /\ n = PageNode(p, bytes)
                    /\ \A new : new = [n EXCEPT !.index = i] => SameRef(new, n)
  <2> DEFINE n == PageNode(p, bytes)
  <2>1. n \in Refs
    BY <1>0, PageNodeOK
  <2> HIDE DEF n
  <2>2. \A new : new = [n EXCEPT !.index = i] => SameRef(new, n)
    BY <2>1 DEF Refs, SameRef
  <2> QED
    BY <2>2 DEF n
<1>1. PICK stack : /\ Position(p, stack)
                   /\ stack # <<>> => \E bytes \in Bytes(p) : SameRef(stack[1], PageNode(p, bytes))
  <2>1. ASSUME NEW k \in Keys, Seek(p, k)
        PROVE  \E stack : /\ Position(p, stack)
                          /\ stack # <<>> =>
                               \E bytes \in Bytes(p) : SameRef(stack[1], PageNode(p, bytes))
    <3>1. PICK bytes \in Bytes(p), i \in Routes(p) : Position(p, SeekStack(p, k, bytes, i))
      BY <2>1 DEF Seek
    <3>2. PICK n : n = PageNode(p, bytes)
      OBVIOUS
    <3>3. n \in Refs
      BY <1>0, <3>2, PageNodeOK
    <3> DEFINE a == [n EXCEPT !.index = binarySearch(ElementsAt(p, n), k).index]
               b == [n EXCEPT !.index = i]
               c == Child(b, FALSE)
               d == [c EXCEPT !.index = binarySearch(ElementsAt(p, c), k).index]
    <3>4. SeekStack(p, k, bytes, i) = IF n.leaf THEN <<a>> ELSE <<b, d>>
      BY <3>2 DEF SeekStack
    <3>5. SameRef(a, n) /\ SameRef(b, n)
      BY <3>3 DEF Refs, SameRef
    <3> HIDE DEF a, b, c, d
    <3>6. <<a>>[1] = a /\ <<b, d>>[1] = b
      OBVIOUS
    <3>7. SameRef(SeekStack(p, k, bytes, i)[1], n)
      BY <3>4, <3>5, <3>6
    <3> QED
      BY <3>1, <3>2, <3>7
  <2>2. ASSUME CursorFirst(p)
        PROVE  \E stack : /\ Position(p, stack)
                          /\ stack # <<>> =>
                               \E bytes \in Bytes(p) : SameRef(stack[1], PageNode(p, bytes))
    <3>1. PICK bytes \in Bytes(p) : Position(p, FirstStack(p, bytes))
      BY <2>2 DEF CursorFirst
    <3>2. PICK n : n = PageNode(p, bytes)
      OBVIOUS
    <3>3. FirstStack(p, bytes) = <<>> \/ FirstStack(p, bytes) = Down(<<n>>, FALSE)
      BY <3>2 DEF FirstStack
    <3>4. FirstStack(p, bytes) # <<>> => FirstStack(p, bytes)[1] = n
      BY <3>3, DownFirst
    <3> QED
      BY <3>1, <3>2, <3>4 DEF SameRef
  <2>3. ASSUME CursorLast(p)
        PROVE  \E stack : /\ Position(p, stack)
                          /\ stack # <<>> =>
                               \E bytes \in Bytes(p) : SameRef(stack[1], PageNode(p, bytes))
    <3>1. PICK bytes \in Bytes(p) : Position(p, LastStack(p, bytes))
      BY <2>3 DEF CursorLast
    <3>2. PICK n : n = PageNode(p, bytes)
      OBVIOUS
    <3>3. PICK i : LastStack(p, bytes) = Down(<<[n EXCEPT !.index = i]>>, TRUE)
      BY <3>2 DEF LastStack
    <3> DEFINE a == [n EXCEPT !.index = i]
    <3>4. SameRef(a, n)
      BY <1>p, <3>2
    <3>5. LastStack(p, bytes) = Down(<<a>>, TRUE)
      BY <3>3
    <3> HIDE DEF a
    <3>6. LastStack(p, bytes)[1] = a
      BY <3>5, DownFirst
    <3> QED
      BY <3>1, <3>2, <3>4, <3>6
  <2> QED
    BY <2>1, <2>2, <2>3
<1>2. cursor'.path = p /\ cursor'.stack = stack
  BY <1>1 DEF Position
<1>3. ASSUME NEW x PROVE ListOf(x)' = ListOf(x) /\ IsLeaf(x)' = IsLeaf(x)
  BY <1>0, SameList
<1>4. ASSUME stack # <<>>, IsLeaf(p) PROVE ShowsFresh(p, stack[1])
  <2>1. PICK bytes \in Bytes(p) : SameRef(stack[1], PageNode(p, bytes))
    BY <1>1, <1>4
  <2>2. PICK ref : ref = stack[1]
    OBVIOUS
  <2>3. ShowsFresh(p, ref)
    BY <1>0, <1>4, <2>1, <2>2, RootShows DEF SameRef
  <2> QED
    BY <2>2, <2>3
<1>5. ASSUME NEW ref PROVE ShowsFresh(p, ref)' <=> ShowsFresh(p, ref)
  BY <1>0, <1>3 DEF ShowsFresh, Fresh
<1>6. ASSUME stack # <<>>, IsLeaf(p)' PROVE ShowsFresh(p, stack[1])'
  BY <1>3, <1>4, <1>5, <1>6
<1>7. ASSUME stack # <<>>, IsLeaf(cursor.path)' PROVE ShowsFresh(cursor.path, cursor.stack[1])'
  BY <1>2, <1>6, <1>7
<1> QED
  BY <1>2, <1>7 DEF ShownPlain

\* A move in a stack of one leaf.
LEMMA StepFirst ==
  ASSUME NEW stack \in Seq(Refs), Len(stack) = 1, NEW S \in SUBSET (DOMAIN stack),
         NEW delta, NEW last, StepStack(stack, S, delta, last) # <<>>
  PROVE  SameRef(StepStack(stack, S, delta, last)[1], stack[1])
<1>1. S # {} /\ stack[1] \in Refs
  BY DEF StepStack
<1>2. S = {1}
  BY <1>1
<1>3. Max(S) = 1
  BY <1>2 DEF Max
<1> DEFINE ref == [stack[1] EXCEPT !.index = (@ + delta + IndexMod) % IndexMod]
<1>4. StepStack(stack, S, delta, last) = Down(Append(SubSeq(stack, 1, 0), ref), last)
  BY <1>1, <1>3 DEF StepStack
<1>5. SameRef(ref, stack[1])
  BY <1>1 DEF SameRef, Refs
<1> HIDE DEF ref
<1>6. Append(SubSeq(stack, 1, 0), ref) = <<ref>>
  <2> DEFINE t == SubSeq(stack, 1, 0)
  <2>1. t \in Seq(Refs) /\ Len(t) = 0
    OBVIOUS
  <2>2. t = <<>>
    <3> HIDE DEF t
    <3> QED
      BY <2>1, EmptySeq
  <2>3. Append(<<>>, ref) = <<ref>>
    OBVIOUS
  <2> QED
    BY <2>2, <2>3
<1>7. StepStack(stack, S, delta, last)[1] = ref
  BY <1>4, <1>6, DownFirst
<1> QED
  BY <1>5, <1>7

\* Cursor::next and Cursor::prev.
LEMMA MoveShows ==
  ASSUME TreeInv, CursorOK, ShownPlain, CursorNext \/ CursorPrev
  PROVE  ShownPlain'
<1>0. PICK p, old : p = cursor.path /\ old = cursor.stack
  OBVIOUS
<1>1. /\ cursor.on /\ UNCHANGED <<pages, used, mode, opened>> /\ p \in DOMAIN opened
      /\ \E stack \in {NextStack(p, old), PrevStack(p, old)} :
           cursor' = [cursor EXCEPT !.stack = stack]
  BY <1>0 DEF CursorNext, CursorPrev, Move, InCall, file
<1>2. PICK stack \in {NextStack(p, old), PrevStack(p, old)} :
        cursor' = [cursor EXCEPT !.stack = stack]
  BY <1>1
<1>3. cursor'.path = p /\ cursor'.stack = stack
  BY <1>0, <1>2 DEF CursorOK
<1>4. ASSUME NEW x PROVE ListOf(x)' = ListOf(x) /\ IsLeaf(x)' = IsLeaf(x)
  BY <1>1, SameList
<1>5. ASSUME NEW ref PROVE ShowsFresh(p, ref)' <=> ShowsFresh(p, ref)
  BY <1>1, <1>4 DEF ShowsFresh, Fresh
<1>s. StackOK(p, old)
  BY <1>0, <1>1 DEF CursorOK
<1>6. ASSUME mode = "rw", stack # <<>>, IsLeaf(p) PROVE ShowsFresh(p, stack[1])
  <2>1. PICK S \in SUBSET (DOMAIN old), delta \in Int, last \in BOOLEAN :
          stack = StepStack(old, S, delta, last)
    <3>1. CASE stack = NextStack(p, old)
      <4> DEFINE T == {i \in DOMAIN old : (old[i].index + 1) % IndexMod < RefCount(p, old[i])}
      <4>1. stack = StepStack(old, T, 1, FALSE) /\ T \in SUBSET (DOMAIN old)
        BY <3>1 DEF NextStack
      <4> HIDE DEF T
      <4>2. 1 \in Int /\ FALSE \in BOOLEAN
        OBVIOUS
      <4> QED
        BY Zenon, <4>1, <4>2
    <3>2. CASE stack = PrevStack(p, old)
      <4> DEFINE T == {i \in DOMAIN old : old[i].index > 0}
      <4>1. stack = StepStack(old, T, -1, TRUE) /\ T \in SUBSET (DOMAIN old)
        BY <3>2 DEF PrevStack
      <4> HIDE DEF T
      <4>2. -1 \in Int /\ TRUE \in BOOLEAN
        OBVIOUS
      <4> QED
        BY Zenon, <4>1, <4>2
    <3> QED
      BY <3>1, <3>2
  <2>2. old \in Seq(Refs) /\ Len(old) \in Nat /\ DOMAIN old = 1 .. Len(old)
    BY <1>s DEF StackOK
  <2>3. old # <<>>
    <3>1. S # {}
      BY <1>6, <2>1 DEF StepStack
    <3> QED
      BY <2>2, <3>1
  <2>4. ShowsFresh(p, old[1])
    BY <1>0, <1>1, <1>6, <2>3 DEF ShownPlain
  <2>5. Len(old) = 1
    <3>1. 1 \in 1 .. Len(old) /\ old[1].leaf
      BY <2>2, <2>3, <2>4 DEF ShowsFresh
    <3>2. \A i \in 1 .. Len(old) : old[i].leaf <=> i = Len(old)
      BY <1>s DEF StackOK
    <3> QED
      BY <3>1, <3>2
  <2>6. SameRef(stack[1], old[1])
    BY <1>6, <2>1, <2>2, <2>5, StepFirst
  <2> QED
    BY <2>4, <2>6 DEF SameRef, ShowsFresh
<1>7. ASSUME mode = "rw", stack # <<>>, IsLeaf(p)' PROVE ShowsFresh(p, stack[1])'
  BY <1>4, <1>5, <1>6, <1>7
<1>8. ASSUME mode = "rw", stack # <<>>, IsLeaf(cursor.path)'
      PROVE  ShowsFresh(cursor.path, cursor.stack[1])'
  BY <1>3, <1>7, <1>8
<1> QED
  BY <1>1, <1>3, <1>8 DEF ShownPlain

\* The object c after a step is as it was, or created by it, or opened by it.
Appears(c) ==
  \/ /\ c \in DOMAIN opened
     /\ opened'[c].root = opened[c].root /\ opened'[c].page = opened[c].page
  \/ opened'[c].root = 0 /\ opened'[c].page = <<>>
  \/ /\ c \notin DOMAIN opened
     /\ IsLeaf(Front(c)) => \E j \in BucketsIn(ToSet(ListOf(Front(c)))) : j.key = Last(c)

\* What the cursor shows when a call leaves it where it is.
LEMMA ShownKept ==
  ASSUME TreeInv, CursorOK, ShownPlain, mode = "rw", UNCHANGED <<pages, used>>,
         cursor'.on = cursor.on, cursor'.path = cursor.path, cursor'.stack = cursor.stack,
         DOMAIN opened \subseteq DOMAIN opened',
         \A c \in DOMAIN opened' : Appears(c),
         \A p \in DOMAIN opened :
           /\ IsLeaf(p)' => IsLeaf(p)
           /\ \A j \in BucketsIn(ToSet(ListOf(p)')) :
                j \in BucketsIn(ToSet(ListOf(p))) \/ Append(p, j.key) \in DOMAIN opened'
  PROVE  ShownPlain'
<1>0. PICK p, stack : p = cursor.path /\ stack = cursor.stack
  OBVIOUS
<1>1. ASSUME cursor.on, stack # <<>>, IsLeaf(p)' PROVE ShowsFresh(p, stack[1])'
  <2>1. p \in DOMAIN opened /\ StackOK(p, stack) /\ p \in Seq(Names)
    BY <1>0, <1>1 DEF CursorOK
  <2>2. IsLeaf(p)
    BY <1>1, <2>1
  <2>3. PICK ref : ref = stack[1]
    OBVIOUS
  <2>4. ShowsFresh(p, ref)
    BY <1>0, <1>1, <2>2, <2>3 DEF ShownPlain
  <2>5. stack \in Seq(Refs) /\ 1 \in 1 .. Len(stack)
    BY <1>1, <2>1 DEF StackOK
  <2>6. RefOK(p, ref)
    BY <2>1, <2>3, <2>5 DEF StackOK
  <2>7. ASSUME ~ref.live, NEW i \in ToSet(ref.inodes), ~IsBucketInode(i)
        PROVE  /\ Fresh(Append(p, i.key))'
               /\ (\E j \in BucketsIn(ToSet(ListOf(p)')) : j.key = i.key) =>
                    Append(p, i.key) \in DOMAIN opened'
    <3>1. PICK c : c = Append(p, i.key)
      OBVIOUS
    <3>2. i.key \in Keys
      BY <2>4, <2>6, <2>7, ListFacts, LeafFacts DEF RefOK, ShowsFresh
    <3>3. Front(c) = p /\ Last(c) = i.key
      <4>1. p \in Seq(Keys)
        BY <2>1, KeyFacts, SeqMonotonic
      <4> QED
        BY <3>1, <3>2, <4>1, AppendParts
    <3>4. /\ Fresh(c)
          /\ (\E j \in BucketsIn(ToSet(ListOf(p))) : j.key = i.key) => c \in DOMAIN opened
      BY <2>4, <2>7, <3>1 DEF ShowsFresh
    <3>5. c \in DOMAIN opened' => opened'[c].root = 0 /\ opened'[c].page = <<>>
      BY <2>2, <3>3, <3>4 DEF Appears, Fresh
    <3>6. Fresh(c)'
      BY <3>4, <3>5 DEF Fresh
    <3>7. (\E j \in BucketsIn(ToSet(ListOf(p)')) : j.key = i.key) => c \in DOMAIN opened'
      BY <2>1, <3>1, <3>4
    <3> QED
      BY <3>1, <3>6, <3>7
  <2>8. ShowsFresh(p, ref)'
    BY <2>4, <2>7 DEF ShowsFresh
  <2> QED
    BY <2>3, <2>8
<1>2. ASSUME cursor'.on, cursor'.stack # <<>>, IsLeaf(cursor.path)'
      PROVE  ShowsFresh(cursor.path, cursor.stack[1])'
  BY <1>0, <1>1, <1>2
<1> QED
  BY <1>2 DEF ShownPlain

\* A change of a node that adds no bucket.
LEMMA ModifyShows ==
  ASSUME TreeInv, CursorOK, ShownPlain, NEW p \in DOMAIN opened, InCall(p, {"rw"}), IsLeaf(p),
         NEW bytes \in Bytes(p), NEW new,
         BucketsIn(ToSet(new)) \subseteq BucketsIn(ToSet(Inodes(p, bytes))),
         Modify(p, bytes, new)
  PROVE  ShownPlain'
<1>0. /\ mode = "rw" /\ mode' = mode /\ UNCHANGED <<pages, used>>
      /\ opened' = [opened EXCEPT ![p] = WithNode(@, Inodes(p, bytes), new)]
  BY DEF InCall, Modify, file
<1>1. cursor'.on = cursor.on /\ cursor'.path = cursor.path /\ cursor'.stack = cursor.stack
  BY DEF Modify, Touch, CursorOK
<1>2. BucketsIn(ToSet(Inodes(p, bytes))) = BucketsIn(ToSet(ListOf(p)))
  BY ObjectList
<1>3. opened[p] \in Objects
  BY DEF TreeInv, ObjectsAreBuckets
<1> DEFINE b == WithNode(opened[p], Inodes(p, bytes), new)
<1>4. Noded(b, opened[p], new)
  BY <1>3, WithNodeFacts
<1>5. /\ DOMAIN opened' = DOMAIN opened /\ opened'[p] = b
      /\ \A x \in DOMAIN opened : x # p => opened'[x] = opened[x]
  BY <1>0
<1> HIDE DEF b
<1>6. \A c \in DOMAIN opened' : Appears(c)
  BY <1>4, <1>5 DEF Appears, Noded
<1>7. ASSUME NEW x \in DOMAIN opened
      PROVE  /\ IsLeaf(x)' => IsLeaf(x)
             /\ BucketsIn(ToSet(ListOf(x)')) \subseteq BucketsIn(ToSet(ListOf(x)))
  <2>1. CASE x = p
    <3>1. ListOf(p)' = new
      BY <1>4, <1>5 DEF ListOf, Inodes, Noded
    <3> QED
      BY <1>2, <2>1, <3>1
  <2>2. CASE x # p
    <3>1. ListOf(x)' = ListOf(x) /\ IsLeaf(x)' = IsLeaf(x)
      BY <1>0, <1>5, <2>2, SameList
    <3> QED
      BY <3>1
  <2> QED
    BY <2>1, <2>2
<1> QED
  BY <1>0, <1>1, <1>5, <1>6, <1>7, ShownKept

\* A call that changes no object.
LEMMA SameShows ==
  ASSUME TreeInv, CursorOK, ShownPlain, UNCHANGED <<pages, used, opened, mode, cursor>>
  PROVE  ShownPlain'
<1>1. ASSUME NEW x PROVE ListOf(x)' = ListOf(x) /\ IsLeaf(x)' = IsLeaf(x)
  BY SameList
<1>2. ASSUME NEW x, NEW ref PROVE ShowsFresh(x, ref)' <=> ShowsFresh(x, ref)
  BY <1>1 DEF ShowsFresh, Fresh
<1>3. PICK p, ref : p = cursor.path /\ ref = cursor.stack[1]
  OBVIOUS
<1>4. mode = "rw" /\ cursor.on /\ cursor.stack # <<>> /\ IsLeaf(p)' => ShowsFresh(p, ref)'
  BY <1>1, <1>2, <1>3 DEF ShownPlain
<1>5. mode = "rw" /\ cursor.on /\ cursor.stack # <<>> /\ IsLeaf(cursor.path)' =>
        ShowsFresh(cursor.path, cursor.stack[1])'
  BY <1>3, <1>4
<1> QED
  BY <1>5 DEF ShownPlain

\* Bucket::put, Bucket::remove and Cursor::remove.
LEMMA ChangeShows ==
  ASSUME TreeInv, CursorOK, ShownPlain,
         \/ \E p \in DOMAIN opened, k \in Keys, len \in Lens : Put(p, k, len)
         \/ \E p \in DOMAIN opened, k \in Keys : BucketRemove(p, k)
         \/ CursorRemove \/ CursorRemoveNothing
  PROVE  ShownPlain'
<1>1. ASSUME NEW p \in DOMAIN opened, InCall(p, {"rw"}), IsLeaf(p), NEW bytes \in Bytes(p),
             NEW k \in Int, Modify(p, bytes, del(Inodes(p, bytes), k))
      PROVE  ShownPlain'
  <2> DEFINE s == Inodes(p, bytes)
             new == del(s, k)
  <2>1. LeafList(s)
    BY <1>1, ObjectList
  <2>2. ToSet(new) = {y \in ToSet(s) : y.key # k}
    <3> HIDE DEF s
    <3> QED
      BY <2>1, DelList
  <2>3. Modify(p, bytes, new)
    BY <1>1
  <2> HIDE DEF new
  <2>4. BucketsIn(ToSet(new)) \subseteq BucketsIn(ToSet(s))
    BY <2>2 DEF BucketsIn
  <2> QED
    BY <1>1, <2>3, <2>4, ModifyShows
<1>2. ASSUME NEW p \in DOMAIN opened, NEW k \in Keys, NEW len \in Lens, Put(p, k, len)
      PROVE  ShownPlain'
  <2> DEFINE e == Leaf(k, valueLeafFlag, PlainValue(len))
  <2>1. PICK bytes \in Bytes(p) : Modify(p, bytes, put(Inodes(p, bytes), k, e))
    BY <1>2 DEF Put
  <2>2. InCall(p, {"rw"}) /\ IsLeaf(p)
    BY <1>2 DEF Put
  <2> DEFINE s == Inodes(p, bytes)
             new == put(s, k, e)
  <2>3. LeafList(s)
    BY <2>2, ObjectList
  <2>4. ToSet(new) = {y \in ToSet(s) : y.key # k} \cup {e} /\ ~IsBucketInode(e)
    <3> HIDE DEF s, e
    <3>1. e \in LeafInodes /\ ~IsBucketInode(e) /\ e.key = k
      BY MadeFacts DEF e
    <3> QED
      BY <2>3, <3>1, PutList
  <2>5. Modify(p, bytes, new)
    BY <2>1
  <2> HIDE DEF new, e
  <2>6. BucketsIn(ToSet(new)) \subseteq BucketsIn(ToSet(s))
    BY <2>4 DEF BucketsIn
  <2> QED
    BY <2>2, <2>5, <2>6, ModifyShows
<1>3. ASSUME NEW p \in DOMAIN opened, NEW k \in Keys, BucketRemove(p, k) PROVE ShownPlain'
  <2>1. PICK bytes \in Bytes(p) : Modify(p, bytes, del(Inodes(p, bytes), k))
    BY <1>3 DEF BucketRemove
  <2>2. InCall(p, {"rw"}) /\ IsLeaf(p) /\ k \in Int
    BY <1>3, KeyFacts DEF BucketRemove
  <2> QED
    BY <1>1, <2>1, <2>2
<1>4. ASSUME CursorRemove \/ CursorRemoveNothing PROVE ShownPlain'
  <2>0. PICK p, ref : p = cursor.path /\ ref = Last(cursor.stack)
    OBVIOUS
  <2>1. cursor.on /\ InCall(p, {"rw"}) /\ IsLeaf(p) /\ p \in DOMAIN opened /\ cursor.stack # <<>>
    BY <1>4, <2>0 DEF CursorRemove, CursorRemoveNothing, InCall
  <2>2. \/ UNCHANGED <<opened, cursor, mode>>
        \/ \E bytes \in Bytes(p) : Modify(p, bytes, del(Inodes(p, bytes), NoKey))
        \/ /\ InRange(p, ref)
           /\ \E bytes \in Bytes(p) : Modify(p, bytes, del(Inodes(p, bytes), Current(p, ref).key))
    BY <1>4, <2>0 DEF CursorRemove, CursorRemoveNothing
  <2>3. CASE UNCHANGED <<opened, cursor, mode>>
    <3>1. UNCHANGED <<pages, used, opened, mode, cursor>>
      BY <2>1, <2>3 DEF InCall, file
    <3> QED
      BY <3>1, SameShows
  <2>4. ASSUME NEW bytes \in Bytes(p), Modify(p, bytes, del(Inodes(p, bytes), NoKey))
        PROVE  ShownPlain'
    <3>1. NoKey \in Int
      BY DEF NoKey
    <3> QED
      BY <1>1, <2>1, <2>4, <3>1
  <2>5. ASSUME InRange(p, ref), NEW bytes \in Bytes(p),
               Modify(p, bytes, del(Inodes(p, bytes), Current(p, ref).key))
        PROVE  ShownPlain'
    <3>1. PICK k : k = Current(p, ref).key
      OBVIOUS
    <3>2. LeafList(ElementsAt(p, ref)) /\ Current(p, ref) \in ToSet(ElementsAt(p, ref))
      BY <2>0, <2>1, <2>5, AtElement
    <3>3. k \in Int
      BY <3>1, <3>2, ListFacts, LeafFacts, KeyFacts
    <3> QED
      BY <1>1, <2>1, <2>5, <3>1, <3>3
  <2> QED
    BY <2>2, <2>3, <2>4, <2>5
<1> QED
  BY <1>2, <1>3, <1>4

\* Bucket::getBucketByName.
LEMMA OpenShows ==
  ASSUME TreeInv, CursorOK, ShownPlain, NEW p \in DOMAIN opened, NEW k \in Names, OpenBucket(p, k),
         mode = "rw"
  PROVE  ShownPlain'
<1>0. /\ mode' = mode /\ UNCHANGED <<pages, used, cursor>> /\ p \in Seq(Names)
      /\ Append(p, k) \notin DOMAIN opened /\ ~Done(p)
  BY DEF OpenBucket, file, TreeInv, ObjectsAreBuckets, Done
<1>c. Front(Append(p, k)) = p /\ Last(Append(p, k)) = k
  BY <1>0, ChildPath
<1>1. PICK bytes \in Bytes(p), i \in Routes(p) : \E inode \in FoundIn(LeafAt(p, bytes, i), k) :
        /\ IsBucketInode(inode)
        /\ opened' = With(opened, Append(p, k), openBucket(inode.value, opened[p].hasNode))
  BY DEF OpenBucket
<1>2. PICK inode \in FoundIn(LeafAt(p, bytes, i), k) :
        /\ IsBucketInode(inode)
        /\ opened' = With(opened, Append(p, k), openBucket(inode.value, opened[p].hasNode))
  BY <1>1
<1>3. PICK b : opened' = With(opened, Append(p, k), b)
  BY <1>2
<1>4. /\ DOMAIN opened' = DOMAIN opened \cup {Append(p, k)}
      /\ \A x \in DOMAIN opened : opened'[x] = opened[x]
  BY <1>0, <1>3 DEF With
<1>5. IsLeaf(p) => \E j \in BucketsIn(ToSet(ListOf(p))) : j.key = k
  <2>1. SUFFICES ASSUME IsLeaf(p) PROVE \E j \in BucketsIn(ToSet(ListOf(p))) : j.key = k
    OBVIOUS
  <2>2. LeafAt(p, bytes, i) = Inodes(p, bytes) /\ LeafList(Inodes(p, bytes))
    BY <1>0, <2>1, LeafAtFacts, ObjectList
  <2>3. inode \in ToSet(Inodes(p, bytes)) /\ inode.key = k
    BY <1>2, <2>2, FoundInFacts, KeyFacts
  <2>4. inode \in BucketsIn(ToSet(ListOf(p)))
    BY <1>2, <2>1, <2>3, ObjectList DEF BucketsIn
  <2> QED
    BY <2>3, <2>4
<1>6. \A c \in DOMAIN opened' : Appears(c)
  BY <1>0, <1>c, <1>4, <1>5 DEF Appears
<1>7. ASSUME NEW x \in DOMAIN opened PROVE ListOf(x)' = ListOf(x) /\ IsLeaf(x)' = IsLeaf(x)
  BY <1>0, <1>4, SameList
<1> QED
  BY <1>0, <1>4, <1>6, <1>7, ShownKept

\* Bucket::createBucket.
LEMMA CreateShows ==
  ASSUME TreeInv, CursorOK, ShownPlain, NEW p \in DOMAIN opened, NEW k \in Names,
         CreateBucket(p, k)
  PROVE  ShownPlain'
<1>0. /\ mode = "rw" /\ mode' = mode /\ UNCHANGED <<pages, used>> /\ p \in Seq(Names)
      /\ opened[p] \in Objects /\ IsLeaf(p)
  BY DEF CreateBucket, InCall, file, TreeInv, ObjectsAreBuckets
<1>n. Append(p, k) # p
  BY <1>0, ChildPath, ParentPath
<1> DEFINE v == InlineValue(<<>>)
           e == Leaf(k, bucketLeafFlag, v)
<1>1. PICK bytes \in Bytes(p) :
        /\ opened' = With([opened EXCEPT ![p] =
                             WithNode(@, Inodes(p, bytes), put(Inodes(p, bytes), k, e))],
                          Append(p, k),
                          IF Append(p, k) \in DOMAIN opened THEN opened[Append(p, k)]
                          ELSE openBucket(v, TRUE))
        /\ Touch(p, Inodes(p, bytes), put(Inodes(p, bytes), k, e))
  BY DEF CreateBucket
<1>2. cursor'.on = cursor.on /\ cursor'.path = cursor.path /\ cursor'.stack = cursor.stack
  BY <1>1 DEF Touch, CursorOK
<1> DEFINE s == Inodes(p, bytes)
           new == put(s, k, e)
           b == WithNode(opened[p], s, new)
           o == IF Append(p, k) \in DOMAIN opened THEN opened[Append(p, k)]
                ELSE openBucket(v, TRUE)
           f == [opened EXCEPT ![p] = b]
<1>3. opened' = With(f, Append(p, k), o)
  BY <1>1
<1>4. Noded(b, opened[p], new)
  BY <1>0, WithNodeFacts
<1>5. /\ BucketsIn(ToSet(new)) = {i \in BucketsIn(ToSet(s)) : i.key # k} \cup {e}
      /\ e.key = k
  <2>1. LeafList(s)
    BY <1>0, ObjectList
  <2>2. v \in [len : Nat, root : PageIds \cup {0}, page : Seq(PlainInodes)] /\ BucketValue(v)
    BY EmptyInline, InlineValueFacts
  <2> HIDE DEF s, e, v
  <2> QED
    BY <2>1, <2>2, PutBucket DEF e
<1>6. BucketsIn(ToSet(s)) = BucketsIn(ToSet(ListOf(p)))
  BY <1>0, ObjectList
<1>7. Append(p, k) \notin DOMAIN opened => o.root = 0 /\ o.page = <<>>
  <2>1. v.root = 0 /\ v.page = <<>>
    BY EmptyInline, InlineValueFacts
  <2> HIDE DEF v
  <2> QED
    BY <2>1 DEF openBucket, NewBucket
<1>8. Append(p, k) \in DOMAIN opened => o = opened[Append(p, k)]
  OBVIOUS
<1> HIDE DEF v, e, s, new, b, o
<1>9. DOMAIN f = DOMAIN opened /\ f[p] = b /\ \A x \in DOMAIN opened : x # p => f[x] = opened[x]
  OBVIOUS
<1> HIDE DEF f
<1>10. /\ DOMAIN opened' = DOMAIN opened \cup {Append(p, k)} /\ opened'[p] = b
       /\ opened'[Append(p, k)] = o
       /\ \A x \in DOMAIN opened : x # p /\ x # Append(p, k) => opened'[x] = opened[x]
  BY <1>n, <1>3, <1>9 DEF With
<1>11. \A c \in DOMAIN opened' : Appears(c)
  BY <1>4, <1>7, <1>8, <1>10 DEF Appears, Noded
<1>12. ASSUME NEW x \in DOMAIN opened
       PROVE  /\ IsLeaf(x)' => IsLeaf(x)
              /\ \A j \in BucketsIn(ToSet(ListOf(x)')) :
                   j \in BucketsIn(ToSet(ListOf(x))) \/ Append(x, j.key) \in DOMAIN opened'
  <2>1. CASE x = p
    <3>1. ListOf(p)' = new
      BY <1>4, <1>10 DEF ListOf, Inodes, Noded
    <3> QED
      BY <1>0, <1>5, <1>6, <1>10, <2>1, <3>1
  <2>2. CASE x # p
    <3>0. opened'[x] = opened[x]
      BY <1>8, <1>10, <2>2
    <3>1. ListOf(x)' = ListOf(x) /\ IsLeaf(x)' = IsLeaf(x)
      BY <1>0, <3>0, SameList
    <3> QED
      BY <3>1
  <2> QED
    BY <2>1, <2>2
<1> QED
  BY <1>0, <1>2, <1>10, <1>11, <1>12, ShownKept

\* No transaction, no cursor.
LEMMA InitShows == Init => ShownPlain
  BY DEF Init, ShownPlain

\* Every step leaves only fresh keys on show.
LEMMA NextShows ==
  TreeInv /\ CursorOK /\ ShownPlain /\ [Next]_vars => ShownPlain'
<1> SUFFICES ASSUME TreeInv, CursorOK, ShownPlain, [Next]_vars PROVE ShownPlain'
  OBVIOUS
<1>q. ASSUME mode' # "rw" \/ cursor' = NoCursor PROVE ShownPlain'
  BY <1>q DEF ShownPlain, NoCursor
<1>1. ASSUME NEW m \in {"ro", "rw"}, Begin(m) PROVE ShownPlain'
  BY <1>q, <1>1 DEF Begin
<1>2. ASSUME NEW p \in DOMAIN opened, NEW k \in Names, OpenBucket(p, k) PROVE ShownPlain'
  <2>1. CASE mode = "rw"
    BY <1>2, <2>1, OpenShows
  <2>2. CASE mode # "rw"
    BY <1>q, <1>2, <2>2 DEF OpenBucket
  <2> QED
    BY <2>1, <2>2
<1>3. ASSUME NEW p \in DOMAIN opened, NEW k \in Names, CreateBucket(p, k) PROVE ShownPlain'
  BY <1>3, CreateShows
<1>d. ASSUME NEW p, NEW k, DeleteBucket(p, k) PROVE ShownPlain'
  <2>1. UNCHANGED <<pages, used, opened, mode, cursor>>
    BY <1>d DEF DeleteBucket, InCall, file
  <2> QED
    BY <2>1, SameShows
<1>a. ASSUME NEW p, NEW k, NEW op, Abort(op, p, k) PROVE ShownPlain'
  BY <1>q, <1>a DEF Abort, Dies
<1>s. ASSUME NEW p, SpillAborts(p) PROVE ShownPlain'
  BY <1>q, <1>s DEF SpillAborts, Dies
<1>4. ASSUME NEW p \in DOMAIN opened, NEW k \in Keys,
             \/ \E len \in Lens : Put(p, k, len)
             \/ BucketRemove(p, k)
             \/ Seek(p, k)
             \/ \E op \in {"Put", "Remove", "DeleteBucket", "CursorRemove"} : Abort(op, p, k)
      PROVE  ShownPlain'
  BY <1>a, <1>4, ChangeShows, PlacedShows
<1>c. ASSUME NEW p \in DOMAIN opened, CursorFirst(p) \/ CursorLast(p) PROVE ShownPlain'
  BY <1>c, PlacedShows
<1>5. ASSUME CursorNext \/ CursorPrev PROVE ShownPlain'
  BY <1>5, MoveShows
<1>6. ASSUME CursorRemove \/ CursorRemoveNothing PROVE ShownPlain'
  BY <1>6, ChangeShows
<1>7. ASSUME StartCommit PROVE ShownPlain'
  BY <1>q, <1>7 DEF StartCommit
<1>8. ASSUME NEW p \in todo, SpillNothing(p) \/ SpillInline(p) \/ SpillNode(p) PROVE ShownPlain'
  BY <1>q, <1>8 DEF SpillNothing, SpillInline, SpillNode, Spilled, Ready
<1>9. ASSUME Commit \/ Rollback \/ Restart PROVE ShownPlain'
  BY <1>q, <1>9 DEF Commit, Rollback, Restart
<1>10. ASSUME UNCHANGED vars PROVE ShownPlain'
  <2>1. UNCHANGED <<pages, used, opened, mode, cursor>>
    BY <1>10 DEF vars, file
  <2> QED
    BY <2>1, SameShows
<1> QED
  BY <1>1, <1>2, <1>3, <1>d, <1>a, <1>s, <1>4, <1>c, <1>5, <1>6, <1>7, <1>8, <1>9, <1>10
     DEF Next, UserBuckets

\* Elements are where their keys say and pages where their buckets are, in every
\* state of a transaction and of its commit.
THEOREM TreeHolds == Spec => [](TreeInv /\ CursorOK /\ ShownPlain)
  BY InitOK, InitShows, NextOK, NextShows, PTL DEF Spec

---------------------------------------------------------------------------
(* What follows from it.                                                   *)

\* A state of the right type.
THEOREM TypeHolds == Spec => []TypeOK
<1>1. TreeInv /\ CursorOK => TypeOK
  <2> SUFFICES ASSUME TreeInv, CursorOK PROVE TypeOK
    OBVIOUS
  <2>0. /\ ObjectsAreBuckets /\ ObjectsHaveRoots
        /\ PagesHoldLists /\ PagesFormTree /\ CommitProceeds
    BY DEF TreeInv
  <2>1. DOMAIN pages = PageIds /\ used \subseteq PageIds /\ rootPage \in used
    BY <2>0 DEF PagesHoldLists, PagesFormTree
  <2>2. mode \in {"none", "ro", "rw", "spill", "dead"}
    BY <2>0 DEF ObjectsAreBuckets
  <2>3. ASSUME NEW p \in DOMAIN opened
        PROVE  /\ Len(p) <= MaxDepth
               /\ opened[p].root \in (used \ freed) \cup written \cup {0}
               /\ opened[p].hasNode => mode \in {"rw", "spill"}
    <3>1. Len(p) <= MaxDepth /\ (opened[p].hasNode => mode \in {"rw", "spill"})
      BY <2>0 DEF ObjectsAreBuckets
    <3>2. CASE Done(p)
      BY <2>0, <3>1, <3>2 DEF ObjectsHaveRoots
    <3>3. CASE ~Done(p)
      BY <2>0, <3>1, <3>3 DEF ObjectsHaveRoots, RootOf
    <3> QED
      BY <3>2, <3>3
  <2>4. todo \subseteq DOMAIN opened /\ freed \subseteq used /\ written \subseteq PageIds \ used
    BY <2>0 DEF CommitProceeds
  <2>5. cursor.on => cursor.path \in DOMAIN opened
    BY DEF CursorOK
  <2>6. ASSUME NEW i \in DOMAIN cursor.stack PROVE cursor.stack[i].index \in 0 .. IndexMod - 1
    <3>1. cursor.stack \in Seq(Refs)
      BY DEF CursorOK
    <3>2. cursor.stack[i] \in Refs
      BY <3>1
    <3> QED
      BY <3>2 DEF Refs
  <2> QED
    BY <2>1, <2>2, <2>3, <2>4, <2>5, <2>6 DEF TypeOK
<1> QED
  BY <1>1, TreeHolds, PTL

\* What a transaction holds for a bucket it has opened.
LEMMA HeldFacts ==
  ASSUME NEW p \in DOMAIN opened, IsLeaf(p), NEW v
  PROVE  Held(p, v) = ToSet(ListOf(p))
<1>1. CASE opened[p].hasNode
  BY <1>1 DEF Held, ListOf, Inodes
<1>2. CASE ~opened[p].hasNode
  <2>1. Held(p, v) = Stored(opened[p])
    BY <1>2 DEF Held
  <2>2. CASE opened[p].root = 0
    BY <1>2, <2>1, <2>2, ReadList DEF Stored
  <2>3. CASE opened[p].root # 0
    <3>1. ListOf(p) = pages[opened[p].root].inodes /\ pages[opened[p].root].leaf = TRUE
      BY <1>2, <2>3, ReadList
    <3> QED
      BY <2>1, <2>3, <3>1 DEF Stored
  <2> QED
    BY <2>2, <2>3
<1> QED
  BY <1>1, <1>2

\* An object that is in place has its element where its parent looks for it.
LEMMA HeldInPlace ==
  ASSUME TreeInv, NEW p \in DOMAIN opened \ {<<>>}, ~Loose(p)
  PROVE  \E i \in Held(Front(p), HeaderValue(0)) : i.key = Last(p) /\ IsBucketInode(i)
<1>0. PICK q : q = Front(p)
  OBVIOUS
<1>1. q \in DOMAIN opened /\ InPlace(p)
  BY <1>0 DEF TreeInv, ObjectsAreElements
<1>2. CASE IsLeaf(q) /\ HasElement(p, ListOf(q))
  <2>1. Held(q, HeaderValue(0)) = ToSet(ListOf(q))
    BY <1>1, <1>2, HeldFacts
  <2> QED
    BY <1>0, <1>2, <2>1 DEF HasElement, BucketsIn
<1>3. CASE BelowBranch(p)
  <2>1. PICK c \in ToSet(pages[opened[q].root].inodes) : HasElement(p, pages[c.pageId].inodes)
    BY <1>0, <1>3 DEF BelowBranch
  <2>2. PICK i \in ToSet(pages[c.pageId].inodes) : i.key = Last(p) /\ IsBucketInode(i)
    BY <2>1 DEF HasElement, BucketsIn
  <2>3. ~IsLeaf(q)
    BY <1>0, <1>3 DEF BelowBranch
  <2>4. ~opened[q].hasNode
    BY <2>3 DEF IsLeaf, PageNode
  <2>5. opened[q].root # 0 /\ ~pages[opened[q].root].leaf
    BY <2>3, <2>4 DEF IsLeaf, PageNode, Page
  <2>6. Held(q, HeaderValue(0)) =
          UNION {ToSet(pages[j.pageId].inodes) : j \in ToSet(pages[opened[q].root].inodes)}
    BY <1>1, <2>4, <2>5 DEF Held, Stored
  <2>7. i \in Held(q, HeaderValue(0))
    BY <2>1, <2>2, <2>6
  <2> QED
    BY <1>0, <2>2, <2>7
<1> QED
  BY <1>0, <1>1, <1>2, <1>3 DEF InPlace

\* A stored bucket is never cut off from its parent.
THEOREM StoredEntriesHold == Spec => []StoredHaveEntries
<1>1. TreeInv => StoredHaveEntries
  <2> SUFFICES ASSUME TreeInv, NEW p \in DOMAIN opened \ {<<>>},
                      opened[p].root # 0 \/ opened[p].page # <<>>
               PROVE  \E i \in Held(Front(p), HeaderValue(0)) :
                        i.key = Last(p) /\ IsBucketInode(i)
    BY DEF StoredHaveEntries
  <2>1. ~Loose(p)
    BY DEF Loose
  <2> QED
    BY <2>1, HeldInPlace
<1> QED
  BY <1>1, TreeHolds, PTL

---------------------------------------------------------------------------
(* While the cursor shows no bucket as plain.                              *)

\* No bucket is removed.
SameBuckets ==
  /\ DOMAIN opened' = DOMAIN opened
  /\ \A x \in DOMAIN opened :
       /\ IsLeaf(x)' => IsLeaf(x)
       /\ BucketsIn(ToSet(ListOf(x)')) = BucketsIn(ToSet(ListOf(x)))

\* A change that keeps a bucket's buckets.
LEMMA ModifySame ==
  ASSUME TreeInv, NEW p \in DOMAIN opened, InCall(p, {"rw"}), IsLeaf(p), NEW bytes \in Bytes(p),
         NEW new, BucketsIn(ToSet(new)) = BucketsIn(ToSet(Inodes(p, bytes))),
         Modify(p, bytes, new)
  PROVE  SameBuckets
<1>0. /\ UNCHANGED <<pages, used>>
      /\ opened' = [opened EXCEPT ![p] = WithNode(@, Inodes(p, bytes), new)]
  BY DEF InCall, Modify, file
<1>2. BucketsIn(ToSet(Inodes(p, bytes))) = BucketsIn(ToSet(ListOf(p)))
  BY ObjectList
<1>3. opened[p] \in Objects
  BY DEF TreeInv, ObjectsAreBuckets
<1> DEFINE b == WithNode(opened[p], Inodes(p, bytes), new)
<1>4. Noded(b, opened[p], new)
  BY <1>3, WithNodeFacts
<1>5. /\ DOMAIN opened' = DOMAIN opened /\ opened'[p] = b
      /\ \A x \in DOMAIN opened : x # p => opened'[x] = opened[x]
  BY <1>0
<1> HIDE DEF b
<1>7. ASSUME NEW x \in DOMAIN opened
      PROVE  /\ IsLeaf(x)' => IsLeaf(x)
             /\ BucketsIn(ToSet(ListOf(x)')) = BucketsIn(ToSet(ListOf(x)))
  <2>1. CASE x = p
    <3>1. ListOf(p)' = new
      BY <1>4, <1>5 DEF ListOf, Inodes, Noded
    <3> QED
      BY <1>2, <2>1, <3>1
  <2>2. CASE x # p
    <3>1. ListOf(x)' = ListOf(x) /\ IsLeaf(x)' = IsLeaf(x)
      BY <1>0, <1>5, <2>2, SameList
    <3> QED
      BY <3>1
  <2> QED
    BY <2>1, <2>2
<1> QED
  BY <1>5, <1>7 DEF SameBuckets

\* Bucket::put, Bucket::remove and Cursor::remove.
LEMMA ChangeSame ==
  ASSUME TreeInv, CursorOK, ShowsNoBucket,
         \/ \E p \in DOMAIN opened, k \in Keys, len \in Lens : Put(p, k, len)
         \/ \E p \in DOMAIN opened, k \in Keys : BucketRemove(p, k)
         \/ CursorRemove \/ CursorRemoveNothing
  PROVE  SameBuckets
<1>1. ASSUME NEW p \in DOMAIN opened, InCall(p, {"rw"}), IsLeaf(p), NEW bytes \in Bytes(p),
             NEW k \in Int, \A i \in BucketsIn(ToSet(ListOf(p))) : i.key # k,
             Modify(p, bytes, del(Inodes(p, bytes), k))
      PROVE  SameBuckets
  <2> DEFINE s == Inodes(p, bytes)
             new == del(s, k)
  <2>1. LeafList(s) /\ BucketsIn(ToSet(s)) = BucketsIn(ToSet(ListOf(p)))
    BY <1>1, ObjectList
  <2>2. BucketsIn(ToSet(new)) = BucketsIn(ToSet(s))
    <3> HIDE DEF s
    <3> QED
      BY <1>1, <2>1, PlainChange
  <2>3. Modify(p, bytes, new)
    BY <1>1
  <2> HIDE DEF new
  <2> QED
    BY <1>1, <2>2, <2>3, ModifySame
<1>2. ASSUME NEW p \in DOMAIN opened, NEW k \in Keys, NEW len \in Lens, Put(p, k, len)
      PROVE  SameBuckets
  <2> DEFINE e == Leaf(k, valueLeafFlag, PlainValue(len))
  <2>1. PICK bytes \in Bytes(p) :
          /\ ~\E inode \in Found(p, k, bytes) : IsBucketInode(inode)
          /\ Modify(p, bytes, put(Inodes(p, bytes), k, e))
    BY <1>2 DEF Put
  <2>2. InCall(p, {"rw"}) /\ IsLeaf(p) /\ k \in Int
    BY <1>2, KeyFacts DEF Put
  <2> DEFINE s == Inodes(p, bytes)
             new == put(s, k, e)
  <2>3. LeafList(s)
    BY <2>2, ObjectList
  <2>4. \A i \in BucketsIn(ToSet(s)) : i.key # k
    BY <2>1, <2>2, FoundFacts DEF BucketsIn
  <2>5. BucketsIn(ToSet(new)) = BucketsIn(ToSet(s))
    <3> HIDE DEF s
    <3> QED
      BY <2>3, <2>4, PlainChange
  <2>6. Modify(p, bytes, new)
    BY <2>1
  <2> HIDE DEF new
  <2> QED
    BY <2>2, <2>5, <2>6, ModifySame
<1>3. ASSUME NEW p \in DOMAIN opened, NEW k \in Keys, BucketRemove(p, k) PROVE SameBuckets
  <2>1. PICK bytes \in Bytes(p) :
          /\ ~\E inode \in Sought(p, k, bytes) : IsBucketInode(inode)
          /\ Modify(p, bytes, del(Inodes(p, bytes), k))
    BY <1>3 DEF BucketRemove
  <2>2. InCall(p, {"rw"}) /\ IsLeaf(p) /\ k \in Int
    BY <1>3, KeyFacts DEF BucketRemove
  <2>3. \A i \in BucketsIn(ToSet(ListOf(p))) : i.key # k
    BY <2>1, <2>2, NotSought
  <2> QED
    BY <1>1, <2>1, <2>2, <2>3
<1>4. ASSUME CursorRemove \/ CursorRemoveNothing PROVE SameBuckets
  <2>0. PICK p, ref : p = cursor.path /\ ref = Last(cursor.stack)
    OBVIOUS
  <2>1. cursor.on /\ InCall(p, {"rw"}) /\ IsLeaf(p) /\ p \in DOMAIN opened /\ cursor.stack # <<>>
    BY <1>4, <2>0 DEF CursorRemove, CursorRemoveNothing, InCall
  <2>2. \/ UNCHANGED <<opened, cursor, mode>>
        \/ \E bytes \in Bytes(p) : Modify(p, bytes, del(Inodes(p, bytes), NoKey))
        \/ /\ InRange(p, ref) /\ ~IsBucketInode(Current(p, ref))
           /\ \E bytes \in Bytes(p) : Modify(p, bytes, del(Inodes(p, bytes), Current(p, ref).key))
    BY <1>4, <2>0 DEF CursorRemove, CursorRemoveNothing
  <2>l. LeafList(ListOf(p))
    BY <2>1, ListOfFacts
  <2>3. CASE UNCHANGED <<opened, cursor, mode>>
    <3>1. UNCHANGED <<pages, opened>>
      BY <2>1, <2>3 DEF InCall, file
    <3>2. ASSUME NEW x PROVE ListOf(x)' = ListOf(x) /\ IsLeaf(x)' = IsLeaf(x)
      BY <3>1, SameList
    <3> QED
      BY <3>1, <3>2 DEF SameBuckets
  <2>4. ASSUME NEW bytes \in Bytes(p), Modify(p, bytes, del(Inodes(p, bytes), NoKey))
        PROVE  SameBuckets
    <3>1. NoKey \in Int
      BY DEF NoKey
    <3>2. \A i \in BucketsIn(ToSet(ListOf(p))) : i.key # NoKey
      <4>1. ToSet(ListOf(p)) \subseteq LeafInodes
        BY <2>l, ListFacts
      <4> QED
        BY <4>1, LeafFacts, BucketAssumption DEF BucketsIn
    <3> QED
      BY <1>1, <2>1, <2>4, <3>1, <3>2
  <2>5. ASSUME InRange(p, ref), ~IsBucketInode(Current(p, ref)), NEW bytes \in Bytes(p),
               Modify(p, bytes, del(Inodes(p, bytes), Current(p, ref).key))
        PROVE  SameBuckets
    <3>1. PICK k : k = Current(p, ref).key
      OBVIOUS
    <3>2. LeafList(ElementsAt(p, ref)) /\ Current(p, ref) \in ToSet(ElementsAt(p, ref))
      BY <2>0, <2>1, <2>5, AtElement
    <3>3. k \in Int
      BY <3>1, <3>2, ListFacts, LeafFacts, KeyFacts
    <3>4. \A i \in BucketsIn(ToSet(ListOf(p))) : i.key # k
      BY <2>0, <2>1, <2>5, <3>1 DEF ShowsNoBucket, InCall
    <3> QED
      BY <1>1, <2>1, <2>5, <3>1, <3>3, <3>4
  <2> QED
    BY <2>2, <2>3, <2>4, <2>5
<1> QED
  BY <1>2, <1>3, <1>4

\* An object whose key is in its parent's list has its element there.
LEMMA LooseKept ==
  ASSUME TreeInv',
         \A x \in DOMAIN opened' \ {<<>>} :
           IsLeaf(Front(x))' => \E j \in BucketsIn(ToSet(ListOf(Front(x))')) : j.key = Last(x)
  PROVE  NothingLoose'
<1> SUFFICES ASSUME NEW x \in DOMAIN opened' \ {<<>>}, IsLeaf(Front(x))'
             PROVE  HasElement(x, ListOf(Front(x)))'
  BY DEF NothingLoose
<1>1. InPlace(x)'
  BY DEF TreeInv, ObjectsAreElements
<1>2. \E j \in BucketsIn(ToSet(ListOf(Front(x))')) : j.key = Last(x)
  OBVIOUS
<1>3. ~Loose(x)'
  BY <1>2 DEF Loose
<1>4. ~BelowBranch(x)'
  BY DEF BelowBranch
<1> QED
  BY <1>1, <1>3, <1>4 DEF InPlace

\* No object comes loose when the buckets stay.
LEMMA SameLoose ==
  ASSUME TreeInv, TreeInv', NothingLoose, SameBuckets
  PROVE  NothingLoose'
<1> SUFFICES ASSUME NEW x \in DOMAIN opened' \ {<<>>}, IsLeaf(Front(x))'
             PROVE  \E j \in BucketsIn(ToSet(ListOf(Front(x))')) : j.key = Last(x)
  BY LooseKept
<1>1. x \in DOMAIN opened \ {<<>>} /\ Front(x) \in DOMAIN opened
  BY DEF SameBuckets, TreeInv, ObjectsAreElements
<1>2. HasElement(x, ListOf(Front(x)))
  BY <1>1 DEF SameBuckets, NothingLoose
<1>3. BucketsIn(ToSet(ListOf(Front(x))')) = BucketsIn(ToSet(ListOf(Front(x))))
  BY <1>1 DEF SameBuckets
<1> QED
  BY <1>2, <1>3 DEF HasElement

\* A step that leaves the objects and the pages alone.
LEMMA StillSame ==
  ASSUME UNCHANGED <<pages, opened>>
  PROVE  SameBuckets
<1>1. ASSUME NEW x PROVE ListOf(x)' = ListOf(x) /\ IsLeaf(x)' = IsLeaf(x)
  BY SameList
<1> QED
  BY <1>1 DEF SameBuckets

\* Bucket::getBucketByName.
LEMMA OpenLoose ==
  ASSUME TreeInv, TreeInv', NothingLoose, NEW p \in DOMAIN opened, NEW k \in Names,
         OpenBucket(p, k)
  PROVE  NothingLoose'
<1>0. /\ pages' = pages /\ p \in Seq(Names) /\ ~Done(p)
      /\ Append(p, k) \notin DOMAIN opened
  BY DEF OpenBucket, file, TreeInv, ObjectsAreBuckets, Done
<1>c. Front(Append(p, k)) = p /\ Last(Append(p, k)) = k
  BY <1>0, ChildPath
<1>1. PICK bytes \in Bytes(p), i \in Routes(p) : \E inode \in FoundIn(LeafAt(p, bytes, i), k) :
        /\ IsBucketInode(inode)
        /\ opened' = With(opened, Append(p, k), openBucket(inode.value, opened[p].hasNode))
  BY DEF OpenBucket
<1>2. PICK inode \in FoundIn(LeafAt(p, bytes, i), k) :
        /\ IsBucketInode(inode)
        /\ opened' = With(opened, Append(p, k), openBucket(inode.value, opened[p].hasNode))
  BY <1>1
<1>3. PICK b : opened' = With(opened, Append(p, k), b)
  BY <1>2
<1>4. /\ DOMAIN opened' = DOMAIN opened \cup {Append(p, k)}
      /\ \A x \in DOMAIN opened : opened'[x] = opened[x]
  BY <1>0, <1>3 DEF With
<1>5. IsLeaf(p) => \E j \in BucketsIn(ToSet(ListOf(p))) : j.key = k
  <2>1. SUFFICES ASSUME IsLeaf(p) PROVE \E j \in BucketsIn(ToSet(ListOf(p))) : j.key = k
    OBVIOUS
  <2>2. LeafAt(p, bytes, i) = Inodes(p, bytes) /\ LeafList(Inodes(p, bytes))
    BY <1>0, <2>1, LeafAtFacts, ObjectList
  <2>3. inode \in ToSet(Inodes(p, bytes)) /\ inode.key = k
    BY <1>2, <2>2, FoundInFacts, KeyFacts
  <2>4. inode \in BucketsIn(ToSet(ListOf(p)))
    BY <1>2, <2>1, <2>3, ObjectList DEF BucketsIn
  <2> QED
    BY <2>3, <2>4
<1>6. ASSUME NEW x \in DOMAIN opened PROVE ListOf(x)' = ListOf(x) /\ IsLeaf(x)' = IsLeaf(x)
  BY <1>0, <1>4, SameList
<1>7. ASSUME NEW x \in DOMAIN opened' \ {<<>>}, IsLeaf(Front(x))'
      PROVE  \E j \in BucketsIn(ToSet(ListOf(Front(x))')) : j.key = Last(x)
  <2>1. CASE x = Append(p, k)
    BY <1>c, <1>5, <1>6, <1>7, <2>1
  <2>2. CASE x \in DOMAIN opened
    <3>1. Front(x) \in DOMAIN opened
      BY <1>7, <2>2 DEF TreeInv, ObjectsAreElements
    <3>2. ListOf(Front(x))' = ListOf(Front(x)) /\ IsLeaf(Front(x))
      BY <1>6, <1>7, <3>1
    <3> QED
      BY <1>7, <2>2, <3>2 DEF NothingLoose, HasElement
  <2> QED
    BY <1>4, <1>7, <2>1, <2>2
<1> QED
  BY <1>7, LooseKept

\* Bucket::createBucket.
LEMMA CreateLoose ==
  ASSUME TreeInv, TreeInv', NothingLoose, NEW p \in DOMAIN opened, NEW k \in Names,
         CreateBucket(p, k)
  PROVE  NothingLoose'
<1>0. /\ pages' = pages /\ p \in Seq(Names) /\ opened[p] \in Objects /\ IsLeaf(p)
  BY DEF CreateBucket, InCall, file, TreeInv, ObjectsAreBuckets
<1>n. Append(p, k) # p /\ Front(Append(p, k)) = p /\ Last(Append(p, k)) = k
  BY <1>0, ChildPath, ParentPath
<1> DEFINE v == InlineValue(<<>>)
           e == Leaf(k, bucketLeafFlag, v)
<1>1. PICK bytes \in Bytes(p) :
        opened' = With([opened EXCEPT ![p] =
                          WithNode(@, Inodes(p, bytes), put(Inodes(p, bytes), k, e))],
                       Append(p, k),
                       IF Append(p, k) \in DOMAIN opened THEN opened[Append(p, k)]
                       ELSE openBucket(v, TRUE))
  BY DEF CreateBucket
<1> DEFINE s == Inodes(p, bytes)
           new == put(s, k, e)
           b == WithNode(opened[p], s, new)
           o == IF Append(p, k) \in DOMAIN opened THEN opened[Append(p, k)]
                ELSE openBucket(v, TRUE)
           f == [opened EXCEPT ![p] = b]
<1>3. opened' = With(f, Append(p, k), o)
  BY <1>1
<1>4. Noded(b, opened[p], new)
  BY <1>0, WithNodeFacts
<1>5. /\ BucketsIn(ToSet(new)) = {i \in BucketsIn(ToSet(s)) : i.key # k} \cup {e}
      /\ e.key = k
  <2>1. LeafList(s)
    BY <1>0, ObjectList
  <2>2. v \in [len : Nat, root : PageIds \cup {0}, page : Seq(PlainInodes)] /\ BucketValue(v)
    BY EmptyInline, InlineValueFacts
  <2> HIDE DEF s, e, v
  <2> QED
    BY <2>1, <2>2, PutBucket DEF e
<1>6. BucketsIn(ToSet(s)) = BucketsIn(ToSet(ListOf(p)))
  BY <1>0, ObjectList
<1>8. Append(p, k) \in DOMAIN opened => o = opened[Append(p, k)]
  OBVIOUS
<1> HIDE DEF v, e, s, new, b, o
<1>9. DOMAIN f = DOMAIN opened /\ f[p] = b /\ \A x \in DOMAIN opened : x # p => f[x] = opened[x]
  OBVIOUS
<1> HIDE DEF f
<1>10. /\ DOMAIN opened' = DOMAIN opened \cup {Append(p, k)} /\ opened'[p] = b
       /\ \A x \in DOMAIN opened : x # p => opened'[x] = opened[x]
  BY <1>n, <1>3, <1>8, <1>9 DEF With
<1>11. ListOf(p)' = new
  BY <1>4, <1>10 DEF ListOf, Inodes, Noded
<1>12. ASSUME NEW x \in DOMAIN opened' \ {<<>>}, IsLeaf(Front(x))'
       PROVE  \E j \in BucketsIn(ToSet(ListOf(Front(x))')) : j.key = Last(x)
  <2>1. CASE x = Append(p, k)
    BY <1>n, <1>5, <1>11, <2>1
  <2>2. CASE x # Append(p, k)
    <3>0. x \in DOMAIN opened /\ Front(x) \in DOMAIN opened
      BY <1>10, <1>12, <2>2 DEF TreeInv, ObjectsAreElements
    <3>1. CASE Front(x) = p
      BY <1>0, <1>5, <1>6, <1>11, <1>12, <3>0, <3>1 DEF NothingLoose, HasElement
    <3>2. CASE Front(x) # p
      <4>1. ListOf(Front(x))' = ListOf(Front(x)) /\ IsLeaf(Front(x))' = IsLeaf(Front(x))
        BY <1>0, <1>10, <3>0, <3>2, SameList
      <4> QED
        BY <1>12, <3>0, <4>1 DEF NothingLoose, HasElement
    <3> QED
      BY <3>1, <3>2
  <2> QED
    BY <2>1, <2>2
<1> QED
  BY <1>12, LooseKept

\* The element of a spilled bucket is replaced in its parent, and no other list
\* changes.
Reput(p, x) ==
  /\ used' = used /\ \A u \in used : pages'[u] = pages[u]
  /\ DOMAIN opened' = DOMAIN opened
  /\ \A y \in DOMAIN opened : p = <<>> \/ y # Front(p) =>
       /\ ListOf(y)' = ListOf(y)
       /\ opened'[y].node = opened[y].node /\ opened'[y].hasNode = opened[y].hasNode
  /\ p # <<>> =>
       /\ Front(p) \in DOMAIN opened /\ Append(Front(p), Last(p)) \in DOMAIN opened
       /\ opened'[Front(p)].hasNode
       /\ opened'[Front(p)].node = put(ListOf(Front(p)), Last(p), x)
       /\ LeafList(ListOf(Front(p))) /\ x \in LeafInodes /\ x.key = Last(p) /\ IsBucketInode(x)
       /\ \E y \in ToSet(ListOf(Front(p))) : y.key = Last(p) /\ IsBucketInode(y)

\* Spilling a bucket puts the element its parent already has for it.
LEMMA SpillReputs ==
  ASSUME TreeInv, NEW p \in todo, SpillInline(p) \/ SpillNode(p)
  PROVE  \E x : Reput(p, x)
<1>0. /\ ObjectsAreBuckets /\ ObjectsHaveRoots /\ ObjectsAreElements /\ CommitProceeds
      /\ used' = used /\ opened[p].hasNode
  BY DEF TreeInv, SpillInline, SpillNode, Spilled
<1>1. p \in DOMAIN opened
  BY <1>0 DEF CommitProceeds
<1>2. PICK r, x : Moved(p, r, x) /\ Placed(p, r, x)
  BY SpillInlineKeeps, SpillNodeKeeps
<1>3. /\ DOMAIN opened' = DOMAIN opened
      /\ opened'[p] = [opened[p] EXCEPT !.root = r]
      /\ \A y \in DOMAIN opened : y # p /\ (p = <<>> \/ y # Front(p)) => opened'[y] = opened[y]
  BY <1>2 DEF Moved
<1>4. \A u \in used \cup written : pages'[u] = pages[u]
  BY <1>2 DEF Placed
<1>5. opened[p] \in Objects /\ p \in Seq(Names)
  BY <1>0, <1>1 DEF ObjectsAreBuckets
<1>6. opened'[p].hasNode = opened[p].hasNode /\ opened'[p].node = opened[p].node
  BY <1>3, <1>5 DEF Objects
<1>7. ASSUME NEW y \in DOMAIN opened, p = <<>> \/ y # Front(p)
      PROVE  /\ ListOf(y)' = ListOf(y)
             /\ opened'[y].node = opened[y].node /\ opened'[y].hasNode = opened[y].hasNode
  <2>1. CASE y = p
    BY <1>0, <1>6, <2>1 DEF ListOf, Inodes
  <2>2. CASE y # p
    <3>1. opened'[y] = opened[y]
      BY <1>3, <1>7, <2>2
    <3>2. opened[y].root = 0 \/ opened[y].hasNode \/ pages'[opened[y].root] = pages[opened[y].root]
      BY <1>0, <1>4 DEF ObjectsHaveRoots, RootOf, Done
    <3> QED
      BY <3>1, <3>2, SameList
  <2> QED
    BY <2>1, <2>2
<1>8. ASSUME p # <<>>
      PROVE  /\ Front(p) \in DOMAIN opened /\ Append(Front(p), Last(p)) \in DOMAIN opened
             /\ opened'[Front(p)].hasNode
             /\ opened'[Front(p)].node = put(ListOf(Front(p)), Last(p), x)
             /\ LeafList(ListOf(Front(p)))
             /\ x \in LeafInodes /\ x.key = Last(p) /\ IsBucketInode(x)
             /\ \E y \in ToSet(ListOf(Front(p))) : y.key = Last(p) /\ IsBucketInode(y)
  <2>1. Front(p) \in DOMAIN opened /\ IsLeaf(Front(p))
    BY <1>0, <1>1, <1>8 DEF ObjectsAreElements, SpillInline, SpillNode, HasEntry
  <2>2. \E y \in BucketsIn(ToSet(ListOf(Front(p)))) : y.key = Last(p)
    <3>1. PICK q : q = Front(p)
      OBVIOUS
    <3>2. Last(p) \in Int
      BY <1>5, <1>8, ParentPath, KeyFacts
    <3>3. \E y \in Found(q, Last(p), opened[q].page) : IsBucketInode(y)
      BY <1>8, <3>1 DEF SpillInline, SpillNode, HasEntry
    <3>4. opened[q].page \in Bytes(q)
      BY <2>1, <3>1 DEF Bytes
    <3>5. Found(q, Last(p), opened[q].page) = {y \in ToSet(ListOf(q)) : y.key = Last(p)}
      BY <2>1, <3>1, <3>2, <3>4, FoundFacts DEF ListOf
    <3> QED
      BY <3>1, <3>3, <3>5 DEF BucketsIn
  <2>3. Append(Front(p), Last(p)) = p
    BY <1>5, <1>8, ParentPath
  <2>4. LeafList(ListOf(Front(p)))
    BY <2>1, ListOfFacts
  <2>5. PICK new : Noded(opened'[Front(p)], opened[Front(p)], new)
                     /\ new = put(ListOf(Front(p)), Last(p), x)
    BY <1>2, <1>8 DEF Moved
  <2>6. opened'[Front(p)].hasNode /\ opened'[Front(p)].node = new
    BY <2>5 DEF Noded
  <2>7. x \in LeafInodes /\ x.key = Last(p) /\ IsBucketInode(x)
    BY <1>2, <1>8 DEF Placed
  <2> QED
    BY <1>1, <2>1, <2>2, <2>3, <2>4, <2>5, <2>6, <2>7 DEF BucketsIn
<1>9. Reput(p, x)
  <2>1. \A u \in used : pages'[u] = pages[u]
    BY <1>4
  <2> QED
    BY <1>0, <1>3, <1>7, <1>8, <2>1 DEF Reput
<1> QED
  BY <1>9

\* So each object stays in place.
LEMMA SpillLoose ==
  ASSUME TreeInv, TreeInv', NothingLoose, NEW p \in todo, SpillInline(p) \/ SpillNode(p)
  PROVE  NothingLoose'
<1>1. PICK x : Reput(p, x)
  BY SpillReputs
<1>2. DOMAIN opened' = DOMAIN opened
  BY <1>1 DEF Reput
<1>3. ASSUME NEW y \in DOMAIN opened' \ {<<>>}, IsLeaf(Front(y))'
      PROVE  \E j \in BucketsIn(ToSet(ListOf(Front(y))')) : j.key = Last(y)
  <2>0. y \in DOMAIN opened \ {<<>>} /\ Front(y) \in DOMAIN opened
    BY <1>2, <1>3 DEF TreeInv, ObjectsAreElements
  <2>1. CASE p # <<>> /\ Front(y) = Front(p)
    <3>1. PICK q : q = Front(p)
      OBVIOUS
    <3>2. /\ opened'[q].hasNode /\ opened'[q].node = put(ListOf(q), Last(p), x)
          /\ LeafList(ListOf(q)) /\ x \in LeafInodes /\ x.key = Last(p) /\ IsBucketInode(x)
      BY <1>1, <2>1, <3>1 DEF Reput
    <3>3. ListOf(q)' = put(ListOf(q), Last(p), x)
      BY <3>2 DEF ListOf, Inodes
    <3>4. ToSet(ListOf(q)') = {i \in ToSet(ListOf(q)) : i.key # Last(p)} \cup {x}
      BY <3>2, <3>3, PutList
    <3>5. IsLeaf(q)
      BY <2>1, <3>1 DEF SpillInline, SpillNode, HasEntry
    <3>6. \E j \in BucketsIn(ToSet(ListOf(q))) : j.key = Last(y)
      BY <2>0, <2>1, <3>1, <3>5 DEF NothingLoose, HasElement
    <3>7. \E j \in BucketsIn(ToSet(ListOf(q)')) : j.key = Last(y)
      BY <3>2, <3>4, <3>6 DEF BucketsIn
    <3> QED
      BY <2>1, <3>1, <3>7
  <2>2. CASE p = <<>> \/ Front(y) # Front(p)
    <3>1. PICK q : q = Front(y)
      OBVIOUS
    <3>2. ListOf(q)' = ListOf(q) /\ opened'[q].hasNode = opened[q].hasNode
      BY <1>1, <2>0, <2>2, <3>1 DEF Reput
    <3>3. IsLeaf(q)
      <4>1. CASE opened[q].hasNode
        BY <4>1 DEF IsLeaf, PageNode
      <4>2. CASE ~opened[q].hasNode
        <5>1. q # p
          BY <4>2 DEF SpillInline, SpillNode
        <5>2. opened'[q] = opened[q]
          <6>1. PICK r, z : Moved(p, r, z)
            BY SpillInlineKeeps, SpillNodeKeeps
          <6> QED
            BY <2>0, <2>2, <3>1, <5>1, <6>1 DEF Moved
        <5>3. opened[q].root = 0 \/ pages'[opened[q].root] = pages[opened[q].root]
          <6>1. ~Done(q) /\ q \in DOMAIN opened
            BY <2>0, <3>1, <4>2 DEF Done
          <6>2. opened[q].root = 0 \/ opened[q].root \in used
            BY <6>1 DEF TreeInv, ObjectsHaveRoots, RootOf
          <6> QED
            BY <1>1, <6>2 DEF Reput
        <5> QED
          BY <1>3, <3>1, <5>2, <5>3, SameList
      <4> QED
        BY <4>1, <4>2
    <3>4. \E j \in BucketsIn(ToSet(ListOf(q))) : j.key = Last(y)
      BY <2>0, <3>1, <3>3 DEF NothingLoose, HasElement
    <3> QED
      BY <3>1, <3>2, <3>4
  <2> QED
    BY <2>1, <2>2
<1> QED
  BY <1>3, LooseKept

\* No step sets an object loose, as long as the cursor shows no bucket as plain.
LEMMA LooseStep ==
  ASSUME TreeInv, CursorOK, TreeInv', ShowsNoBucket, NothingLoose, [Next]_vars
  PROVE  NothingLoose'
<1>q. ASSUME opened' = <<>> PROVE NothingLoose'
  <2>1. DOMAIN opened' = {}
    <3>1. DOMAIN <<>> = {}
      OBVIOUS
    <3> QED
      BY <1>q, <3>1
  <2> QED
    BY <2>1 DEF NothingLoose
<1>u. ASSUME UNCHANGED <<pages, opened>> PROVE NothingLoose'
  BY <1>u, StillSame, SameLoose
<1>1. ASSUME NEW m \in {"ro", "rw"}, Begin(m) PROVE NothingLoose'
  <2>1. DOMAIN opened' = {<<>>}
    BY <1>1 DEF Begin, With
  <2> QED
    BY <2>1 DEF NothingLoose
<1>2. ASSUME NEW p \in DOMAIN opened, NEW k \in Names, OpenBucket(p, k) PROVE NothingLoose'
  BY <1>2, OpenLoose
<1>3. ASSUME NEW p \in DOMAIN opened, NEW k \in Names, CreateBucket(p, k) PROVE NothingLoose'
  BY <1>3, CreateLoose
<1>d. ASSUME NEW p, NEW k, DeleteBucket(p, k) PROVE NothingLoose'
  BY <1>u, <1>d DEF DeleteBucket, InCall, file
<1>a. ASSUME NEW p, NEW k, NEW op, Abort(op, p, k) PROVE NothingLoose'
  BY <1>q, <1>a DEF Abort, Dies
<1>s. ASSUME NEW p, SpillAborts(p) PROVE NothingLoose'
  BY <1>q, <1>s DEF SpillAborts, Dies
<1>4. ASSUME NEW p \in DOMAIN opened, NEW k \in Keys,
             (\E len \in Lens : Put(p, k, len)) \/ BucketRemove(p, k)
      PROVE  NothingLoose'
  BY <1>4, ChangeSame, SameLoose
<1>5. ASSUME NEW p \in DOMAIN opened, NEW k \in Keys, Seek(p, k) PROVE NothingLoose'
  BY <1>u, <1>5 DEF Seek, Position, InCall, file
<1>c. ASSUME NEW p \in DOMAIN opened, CursorFirst(p) \/ CursorLast(p) PROVE NothingLoose'
  BY <1>u, <1>c DEF CursorFirst, CursorLast, Position, InCall, file
<1>m. ASSUME CursorNext \/ CursorPrev PROVE NothingLoose'
  BY <1>u, <1>m DEF CursorNext, CursorPrev, Move, InCall, file
<1>6. ASSUME CursorRemove \/ CursorRemoveNothing PROVE NothingLoose'
  BY <1>6, ChangeSame, SameLoose
<1>7. ASSUME StartCommit PROVE NothingLoose'
  BY <1>u, <1>7 DEF StartCommit, file
<1>8. ASSUME NEW p \in todo, SpillNothing(p) PROVE NothingLoose'
  BY <1>u, <1>8 DEF SpillNothing, file
<1>9. ASSUME NEW p \in todo, SpillInline(p) \/ SpillNode(p) PROVE NothingLoose'
  BY <1>9, SpillLoose
<1>10. ASSUME Commit \/ Rollback \/ Restart PROVE NothingLoose'
  BY <1>q, <1>10 DEF Commit, Rollback, Restart, Over
<1>11. ASSUME UNCHANGED vars PROVE NothingLoose'
  BY <1>u, <1>11 DEF vars, file
<1> QED
  BY <1>1, <1>2, <1>3, <1>d, <1>a, <1>s, <1>4, <1>5, <1>c, <1>m, <1>6, <1>7, <1>8, <1>9, <1>10,
     <1>11
     DEF Next, UserBuckets

\* Every object has its element while the cursor shows no bucket as plain.
LEMMA LooseHolds == Spec /\ []ShowsNoBucket => []NothingLoose
<1>1. Init => NothingLoose
  <2>1. DOMAIN <<>> = {}
    OBVIOUS
  <2> QED
    BY <2>1 DEF Init, NothingLoose
<1>2. TreeInv /\ CursorOK /\ TreeInv' /\ ShowsNoBucket /\ NothingLoose /\ [Next]_vars => NothingLoose'
  BY LooseStep
<1> QED
  BY <1>1, <1>2, TreeHolds, PTL DEF Spec

\* Then the assertions of Bucket::spill hold.
THEOREM EntriesHold == Spec /\ []ShowsNoBucket => []ChildrenHaveEntries
<1>1. TreeInv /\ NothingLoose => ChildrenHaveEntries
  <2> SUFFICES ASSUME TreeInv, NothingLoose, NEW p \in DOMAIN opened \ {<<>>}
               PROVE  \E i \in Held(Front(p), HeaderValue(0)) :
                        i.key = Last(p) /\ IsBucketInode(i)
    BY DEF ChildrenHaveEntries
  <2>1. ~Loose(p)
    <3>1. IsLeaf(Front(p)) => \E i \in BucketsIn(ToSet(ListOf(Front(p)))) : i.key = Last(p)
      BY DEF NothingLoose, HasElement
    <3>2. opened[Front(p)].hasNode => IsLeaf(Front(p))
      BY DEF IsLeaf, PageNode
    <3> QED
      BY <3>1, <3>2 DEF Loose
  <2> QED
    BY <2>1, HeldInPlace
<1> QED
  BY <1>1, LooseHolds, TreeHolds, PTL

---------------------------------------------------------------------------
(* The buckets of the file and of a transaction.                           *)

\* Bucket and Buckets(seen), one level of nesting at a time.
BucketAt(p, v, seen) ==
  [path |-> p, inodes |-> IF seen THEN Held(p, v) ELSE Stored(v)]
Below(L, seen) ==
  UNION {{BucketAt(Append(b.path, i.key), i.value, seen) :
            i \in {i \in b.inodes : IsBucketInode(i)}} : b \in L}
Levels(f, seen) ==
  /\ f[0] = {BucketAt(<<>>, HeaderValue(rootPage), seen)}
  /\ \A d \in 1 .. MaxDepth : f[d] = Below(f[d - 1], seen)

\* An element that leads to a bucket of the file, or of the transaction.
Leads(p, i, seen) ==
  IsBucketInode(i) =>
    /\ Len(p) < MaxDepth
    /\ (seen /\ Append(p, i.key) \in DOMAIN opened) \/ RootOf(i.value.root, Append(p, i.key))

\* Buckets whose elements do.
GoodBuckets(seen) ==
  {b \in [path : Seq(Names), inodes : SUBSET (LeafInodes \cup BranchInodes)] :
     \A i \in b.inodes : i \in LeafInodes /\ Leads(b.path, i, seen)}

\* The bucket at a root.
LEMMA StoredGood ==
  ASSUME TreeInv, NEW p \in Seq(Names), NEW v, RootOf(v.root, p),
         v.root = 0 => InlineList(v.page), NEW seen \in BOOLEAN
  PROVE  \A i \in Stored(v) : i \in LeafInodes /\ Leads(p, i, seen)
<1>0. PagesHoldLists /\ PagesFormTree
  BY DEF TreeInv
<1>1. CASE v.root = 0
  <2>1. Stored(v) = ToSet(v.page) /\ InlineList(v.page)
    BY <1>1 DEF Stored
  <2>2. \A i \in ToSet(v.page) : i \in PlainInodes /\ ~IsBucketInode(i)
    BY <2>1, InlineFacts, PlainFacts
  <2> QED
    BY <2>1, <2>2 DEF LeafInodes, Leads
<1>2. ASSUME NEW q \in used, pages[q].leaf, pages[q].of = p, NEW i \in ToSet(pages[q].inodes)
      PROVE  i \in LeafInodes /\ Leads(p, i, seen)
  <2>1. LeafList(pages[q].inodes)
    BY <1>0, <1>2 DEF PagesHoldLists
  <2>2. i \in LeafInodes
    BY <1>2, <2>1, ListFacts
  <2>3. Leads(p, i, seen)
    BY <1>0, <1>2 DEF PagesFormTree, Leads, BucketsIn
  <2> QED
    BY <2>2, <2>3
<1>3. CASE v.root # 0
  <2>1. v.root \in used /\ pages[v.root].of = p
    BY <1>3 DEF RootOf
  <2>2. CASE pages[v.root].leaf
    <3>1. Stored(v) = ToSet(pages[v.root].inodes)
      BY <1>3, <2>2 DEF Stored
    <3> QED
      BY <1>2, <2>1, <2>2, <3>1
  <2>3. CASE ~pages[v.root].leaf
    <3>1. Stored(v) = UNION {ToSet(pages[i.pageId].inodes) : i \in ToSet(pages[v.root].inodes)}
      BY <1>3, <2>3 DEF Stored
    <3>2. BranchList(pages[v.root].inodes, used, p)
      BY <1>0, <2>1, <2>3 DEF PagesHoldLists
    <3>3. \A i \in ToSet(pages[v.root].inodes) :
            i.pageId \in used /\ pages[i.pageId].of = p /\ pages[i.pageId].leaf
      BY <3>2 DEF BranchList
    <3>4. ASSUME NEW j \in Stored(v) PROVE j \in LeafInodes /\ Leads(p, j, seen)
      <4>1. PICK i \in ToSet(pages[v.root].inodes) : j \in ToSet(pages[i.pageId].inodes)
        BY <3>1
      <4> QED
        BY <1>2, <3>3, <4>1
    <3> QED
      BY <3>4
  <2> QED
    BY <2>2, <2>3
<1> QED
  BY <1>1, <1>3

\* A set that has the root bucket and, with a bucket, its sub-buckets.
ClosedBelow(G, seen) ==
  /\ BucketAt(<<>>, HeaderValue(rootPage), seen) \in G
  /\ \A b \in G : \A i \in BucketsIn(b.inodes) :
       BucketAt(Append(b.path, i.key), i.value, seen) \in G

\* Buckets(seen) is what its levels hold, and these stay within such a set.
LEMMA BucketsLevels ==
  ASSUME NEW seen, NEW G, ClosedBelow(G, seen)
  PROVE  \E f \in [0 .. MaxDepth -> SUBSET G] :
           Levels(f, seen) /\ Buckets(seen) = UNION {f[d] : d \in 0 .. MaxDepth}
<1> DEFINE N == MaxDepth
           A == SUBSET G
           base == {BucketAt(<<>>, HeaderValue(rootPage), seen)}
           L(h) == [d \in 0 .. N |-> IF d = 0 THEN base ELSE Below(h[d - 1], seen)]
           g == CHOOSE h : h = L(h)
           F == [x \in A \X (1 .. N) |-> Below(x[1], seen)]
<1>1. N \in Nat
  BY BucketAssumption
<1>2. Buckets(seen) = UNION {g[d] : d \in 0 .. N}
  BY DEF Buckets, Below, BucketAt
<1>3. ASSUME NEW X \in A PROVE Below(X, seen) \in A
  <2> SUFFICES ASSUME NEW c \in Below(X, seen) PROVE c \in G
    OBVIOUS
  <2>1. PICK b \in X : c \in {BucketAt(Append(b.path, i.key), i.value, seen) :
                                i \in {i \in b.inodes : IsBucketInode(i)}}
    BY DEF Below
  <2>2. PICK i \in BucketsIn(b.inodes) : c = BucketAt(Append(b.path, i.key), i.value, seen)
    BY <2>1 DEF BucketsIn
  <2> QED
    BY <2>2 DEF ClosedBelow
<1>4. base \in A
  BY DEF ClosedBelow
<1> HIDE DEF N, base, A
<1>5. F \in [A \X (1 .. N) -> A] /\ \A X \in A, k \in 1 .. N : F[<<X, k>>] = Below(X, seen)
  BY <1>3
<1>6. PICK f \in [0 .. N -> A] : f[0] = base /\ \A k \in 1 .. N : f[k] = F[<<f[k - 1], k>>]
  <2> HIDE DEF F
  <2>1. LoopBody(A, N, base, F)
    BY <1>1, <1>4, <1>5 DEF LoopBody
  <2> QED
    BY <2>1, LoopExists
<1> HIDE DEF F
<1>7. \A k \in 1 .. N : f[k] = Below(f[k - 1], seen)
  <2>1. \A k \in 1 .. N : k - 1 \in 0 .. N
    BY <1>1
  <2> QED
    BY <1>5, <1>6, <2>1
<1>8. f = L(f)
  <2>1. \A k \in 0 .. N : k = 0 \/ k \in 1 .. N
    BY <1>1
  <2> QED
    BY <1>6, <1>7, <2>1
<1>9. g = L(g)
  <2> HIDE DEF L
  <2> QED
    BY <1>8
<1> HIDE DEF g
<1>10. ASSUME NEW d \in 0 .. N PROVE g[d] = f[d]
  <2> DEFINE S == {n \in Nat : n <= N => g[n] = f[n]}
  <2>1. 0 \in S
    <3>1. 0 \in 0 .. N
      BY <1>1
    <3> QED
      BY <1>6, <1>9, <3>1
  <2>2. ASSUME NEW n \in Nat, n \in S PROVE n + 1 \in S
    <3> SUFFICES ASSUME n + 1 <= N PROVE g[n + 1] = f[n + 1]
      OBVIOUS
    <3>1. n + 1 \in 1 .. N /\ n + 1 \in 0 .. N /\ n + 1 # 0 /\ (n + 1) - 1 = n /\ n <= N
      BY <1>1
    <3>2. g[n] = f[n]
      BY <2>2, <3>1
    <3>3. g[n + 1] = Below(g[n], seen)
      BY <1>9, <3>1
    <3>4. f[n + 1] = Below(f[n], seen)
      BY <1>7, <3>1
    <3> QED
      BY <3>2, <3>3, <3>4
  <2>3. Nat \subseteq S
    <3> HIDE DEF S
    <3> QED
      BY <2>1, <2>2, Induction
  <2> QED
    BY <1>1, <2>3
<1>11. {g[d] : d \in 0 .. N} = {f[d] : d \in 0 .. N}
  BY <1>10
<1>12. Levels(f, seen)
  BY <1>6, <1>7 DEF Levels, N, base
<1> QED
  BY <1>2, <1>6, <1>11, <1>12 DEF N, A

\* The root bucket is good, and so are the sub-buckets of good buckets, in the
\* file.
LEMMA FileLevels ==
  ASSUME TreeInv, NEW seen \in BOOLEAN, ~seen
  PROVE  \E f \in [0 .. MaxDepth -> SUBSET GoodBuckets(seen)] :
           Levels(f, seen) /\ Buckets(seen) = UNION {f[d] : d \in 0 .. MaxDepth}
<1> DEFINE G == GoodBuckets(seen)
<1>0. PagesHoldLists /\ PagesFormTree
  BY DEF TreeInv
<1>1. ASSUME NEW p \in Seq(Names), NEW v, RootOf(v.root, p), v.root = 0 => InlineList(v.page)
      PROVE  BucketAt(p, v, seen) \in G
  <2>1. \A i \in Stored(v) : i \in LeafInodes /\ Leads(p, i, seen)
    BY <1>1, StoredGood
  <2>2. BucketAt(p, v, seen) = [path |-> p, inodes |-> Stored(v)]
    BY ~seen DEF BucketAt
  <2>3. Stored(v) \in SUBSET (LeafInodes \cup BranchInodes)
    BY <2>1
  <2>4. BucketAt(p, v, seen) \in [path : Seq(Names), inodes : SUBSET (LeafInodes \cup BranchInodes)]
    BY <2>2, <2>3
  <2>5. BucketAt(p, v, seen).inodes = Stored(v) /\ BucketAt(p, v, seen).path = p
    BY <2>2
  <2> QED
    BY <2>1, <2>4, <2>5 DEF GoodBuckets
<1>2. BucketAt(<<>>, HeaderValue(rootPage), seen) \in G
  <2>1. rootPage \in PageIds /\ RootOf(rootPage, <<>>)
    BY <1>0 DEF PagesFormTree, PagesHoldLists
  <2>2. HeaderValue(rootPage).root = rootPage /\ rootPage # 0
    BY <2>1, HeaderValueFacts, BucketAssumption
  <2>3. <<>> \in Seq(Names)
    OBVIOUS
  <2> HIDE DEF G
  <2> QED
    BY <1>1, <2>1, <2>2, <2>3
<1>3. ASSUME NEW b \in G, NEW i \in BucketsIn(b.inodes)
      PROVE  BucketAt(Append(b.path, i.key), i.value, seen) \in G
  <2>1. /\ b.path \in Seq(Names) /\ i \in LeafInodes /\ IsBucketInode(i)
        /\ RootOf(i.value.root, Append(b.path, i.key))
    BY <1>3 DEF GoodBuckets, BucketsIn, Leads
  <2>2. i.key \in Names /\ InlineList(i.value.page)
    BY <2>1, LeafFacts
  <2>3. Append(b.path, i.key) \in Seq(Names)
    BY <2>1, <2>2, ChildPath
  <2> HIDE DEF G
  <2> QED
    BY <1>1, <2>1, <2>2, <2>3
<1> HIDE DEF G
<1>4. \E f \in [0 .. MaxDepth -> SUBSET G] :
        Levels(f, seen) /\ Buckets(seen) = UNION {f[d] : d \in 0 .. MaxDepth}
  <2>1. ClosedBelow(G, seen)
    BY <1>2, <1>3 DEF ClosedBelow
  <2> QED
    BY <2>1, BucketsLevels
<1> QED
  BY <1>4 DEF G

\* An inline bucket, as stored, has no sub-bucket and is small.
THEOREM InlineHolds == Spec => []InlineIsSmall
<1>1. TreeInv => InlineIsSmall
  <2> SUFFICES ASSUME TreeInv, NEW b \in Committed, NEW i \in b.inodes,
                      IsBucketInode(i), i.value.root = 0
               PROVE  /\ ~\E j \in ToSet(i.value.page) : IsBucketInode(j)
                      /\ i.value.len <= BUCKETHEADERSIZE + InlineMax
    BY DEF InlineIsSmall
  <2>0. PICK seen \in BOOLEAN : ~seen /\ Committed = Buckets(seen)
    BY Zenon DEF Committed
  <2>1. b \in GoodBuckets(seen)
    <3>1. PICK f \in [0 .. MaxDepth -> SUBSET GoodBuckets(seen)] :
            Buckets(seen) = UNION {f[d] : d \in 0 .. MaxDepth}
      BY <2>0, FileLevels
    <3> QED
      BY <2>0, <3>1
  <2>2. i \in LeafInodes
    BY <2>1 DEF GoodBuckets
  <2>3. InlineList(i.value.page) /\ i.value = InlineValue(i.value.page)
    BY <2>2, LeafFacts
  <2>4. i.value.len <= BUCKETHEADERSIZE + InlineMax
    BY <2>3, InlineValueFacts
  <2>5. BucketsIn(ToSet(i.value.page)) = {}
    BY <2>3, InlineFacts
  <2> QED
    BY <2>4, <2>5 DEF BucketsIn
<1> QED
  BY <1>1, TreeHolds, PTL
=============================================================================
