-------------------------------- MODULE Loops --------------------------------
(***************************************************************************)
(* Induction and recursion for the proofs about loops: sets and functions  *)
(* take the place of predicates and operators, so that the lemmas can be   *)
(* applied.                                                                *)
(***************************************************************************)
EXTENDS Integers, Sequences, WellFoundedInduction, TLAPS

\* The order of the natural numbers, as a relation, is well founded.
LEMMA LessThanWellFounded == IsWellFoundedOn({p \in Nat \X Nat : p[1] < p[2]}, Nat)
  BY NatLessThanWellFounded DEF OpToRel

\* A set of natural numbers has a least element.
LEMMA Least ==
  ASSUME NEW T \in SUBSET Nat, T # {}
  PROVE  \E x \in T : \A y \in T : x <= y
<1>1. PICK x \in T : \A y \in T : <<y, x>> \notin {p \in Nat \X Nat : p[1] < p[2]}
  BY LessThanWellFounded, WFMin
<1>2. ASSUME NEW y \in T PROVE x <= y
  <2>1. <<y, x>> \in Nat \X Nat
    OBVIOUS
  <2>2. ~(<<y, x>>[1] < <<y, x>>[2])
    BY <1>1, <2>1, Zenon
  <2> QED
    BY <2>2
<1> QED
  BY <1>2

\* Induction over the natural numbers, for a set in the place of a predicate.
LEMMA Induction ==
  ASSUME NEW S, 0 \in S, \A n \in Nat : n \in S => n + 1 \in S
  PROVE  Nat \subseteq S
<1> DEFINE T == Nat \ S
<1> SUFFICES ASSUME T # {} PROVE FALSE
  OBVIOUS
<1>1. PICK x \in T : \A y \in T : x <= y
  BY Least
<1>2. x \in Nat /\ x # 0 /\ x - 1 \in Nat /\ x - 1 \notin T
  BY <1>1
<1> QED
  BY <1>1, <1>2

\* Step[<<f, p>>], a value at p in terms of f, looks at f only where the rank
\* is smaller.
Recursive(D, A, N, rank, a0, Step) ==
  /\ N \in Nat /\ rank \in [D -> 0 .. N] /\ a0 \in A
  /\ Step \in [[D -> A] \X D -> A]
  /\ \A f, g \in [D -> A], p \in D :
       (\A q \in D : rank[q] < rank[p] => f[q] = g[q])
         => Step[<<f, p>>] = Step[<<g, p>>]

\* Then it defines a function on D.
LEMMA Recursion ==
  ASSUME NEW D, NEW A, NEW N, NEW rank, NEW a0, NEW Step,
         Recursive(D, A, N, rank, a0, Step)
  PROVE  \E f \in [D -> A] : \A p \in D : f[p] = Step[<<f, p>>]
<1> USE DEF Recursive
<1> DEFINE S == {n \in Nat : \E f \in [D -> A] :
                               \A p \in D : rank[p] < n => f[p] = Step[<<f, p>>]}
<1>1. 0 \in S
  <2> DEFINE f == [p \in D |-> a0]
  <2>1. f \in [D -> A] /\ \A p \in D : ~(rank[p] < 0)
    OBVIOUS
  <2> HIDE DEF f
  <2> QED
    BY <2>1
<1>2. ASSUME NEW n \in Nat, n \in S PROVE n + 1 \in S
  <2>1. PICK f \in [D -> A] : \A p \in D : rank[p] < n => f[p] = Step[<<f, p>>]
    BY <1>2
  <2> DEFINE g == [p \in D |-> IF rank[p] < n THEN f[p] ELSE Step[<<f, p>>]]
  <2>2. g \in [D -> A]
    OBVIOUS
  <2>3. ASSUME NEW p \in D, rank[p] < n + 1 PROVE g[p] = Step[<<g, p>>]
    <3>1. \A q \in D : rank[q] < rank[p] => f[q] = g[q]
      BY <2>3
    <3>2. g[p] = Step[<<f, p>>]
      BY <2>1
    <3> HIDE DEF g
    <3> QED
      BY <2>2, <3>1, <3>2
  <2> HIDE DEF g
  <2> QED
    BY <2>2, <2>3
<1>3. N + 1 \in S
  <2> HIDE DEF S
  <2> QED
    BY <1>1, <1>2, Induction
<1>4. PICK f \in [D -> A] : \A p \in D : rank[p] < N + 1 => f[p] = Step[<<f, p>>]
  BY <1>3
<1>5. \A p \in D : rank[p] < N + 1
  OBVIOUS
<1> QED
  BY <1>4, <1>5

\* What holds before a loop and is kept by every turn holds along it.
LEMMA Along ==
  ASSUME NEW N \in Nat, NEW J, NEW g, g[0] \in J[0],
         \A k \in 1 .. N : g[k - 1] \in J[k - 1] => g[k] \in J[k]
  PROVE  \A k \in 0 .. N : g[k] \in J[k]
<1> DEFINE S == {n \in Nat : n <= N => g[n] \in J[n]}
<1>1. 0 \in S
  OBVIOUS
<1>2. ASSUME NEW n \in Nat, n \in S PROVE n + 1 \in S
  BY <1>2
<1>3. Nat \subseteq S
  <2> HIDE DEF S
  <2> QED
    BY <1>1, <1>2, Induction
<1> QED
  BY <1>3

\* F[<<a, k>>] is the state after turn k that began in state a.
LoopBody(A, N, b, F) == N \in Nat /\ b \in A /\ F \in [A \X (1 .. N) -> A]

\* A loop that turns N times defines a sequence of states.
LEMMA LoopExists ==
  ASSUME NEW A, NEW N, NEW b, NEW F, LoopBody(A, N, b, F)
  PROVE  \E f \in [0 .. N -> A] : f[0] = b /\ \A k \in 1 .. N : f[k] = F[<<f[k - 1], k>>]
<1> USE DEF LoopBody
<1> DEFINE D == 0 .. N
           Step == [x \in [D -> A] \X D |-> IF x[2] = 0 THEN b ELSE F[<<x[1][x[2] - 1], x[2]>>]]
           rank == [k \in D |-> k]
<1>1. Step \in [[D -> A] \X D -> A]
  OBVIOUS
<1>2. ASSUME NEW f \in [D -> A], NEW k \in D
      PROVE  Step[<<f, k>>] = IF k = 0 THEN b ELSE F[<<f[k - 1], k>>]
  OBVIOUS
<1>3. rank \in [D -> 0 .. N] /\ \A k \in D : rank[k] = k
  OBVIOUS
<1> HIDE DEF Step, rank
<1>4. ASSUME NEW f \in [D -> A], NEW g \in [D -> A], NEW k \in D,
             \A q \in D : rank[q] < rank[k] => f[q] = g[q]
      PROVE  Step[<<f, k>>] = Step[<<g, k>>]
  <2>1. k # 0 => k - 1 \in D /\ f[k - 1] = g[k - 1]
    BY <1>3, <1>4
  <2> QED
    BY <1>2, <2>1
<1>5. PICK f \in [D -> A] : \A k \in D : f[k] = Step[<<f, k>>]
  <2>1. \A f, g \in [D -> A], p \in D :
          (\A q \in D : rank[q] < rank[p] => f[q] = g[q]) => Step[<<f, p>>] = Step[<<g, p>>]
    BY <1>4
  <2>2. rank \in [D -> 0 .. N]
    BY <1>3
  <2> HIDE DEF D
  <2>3. Recursive(D, A, N, rank, b, Step)
    BY <1>1, <2>1, <2>2 DEF Recursive
  <2> QED
    BY <2>3, Recursion
<1>6. 0 \in D /\ \A k \in 1 .. N : k \in D /\ k # 0
  OBVIOUS
<1> QED
  BY <1>2, <1>5, <1>6

\* Q holds at p once it holds wherever the rank is smaller.
Progress(D, rank, Q) ==
  /\ rank \in [D -> Nat]
  /\ \A p \in D : (\A q \in D : rank[q] < rank[p] => q \in Q) => p \in Q

\* Induction over any set whose members have a rank.
LEMMA RankInduction ==
  ASSUME NEW D, NEW rank, NEW Q, Progress(D, rank, Q)
  PROVE  D \subseteq Q
<1> DEFINE S == {n \in Nat : \A p \in D : rank[p] < n => p \in Q}
<1>1. rank \in [D -> Nat]
  BY DEF Progress
<1>2. 0 \in S
  BY <1>1
<1>3. ASSUME NEW n \in Nat, n \in S PROVE n + 1 \in S
  <2> SUFFICES ASSUME NEW p \in D, rank[p] < n + 1 PROVE p \in Q
    OBVIOUS
  <2>1. \A q \in D : rank[q] < rank[p] => rank[q] < n
    BY <1>1
  <2>2. \A q \in D : rank[q] < rank[p] => q \in Q
    BY <1>3, <2>1
  <2> QED
    BY <2>2 DEF Progress
<1>4. Nat \subseteq S
  <2> HIDE DEF S
  <2> QED
    BY <1>2, <1>3, Induction
<1>5. \A p \in D : rank[p] + 1 \in Nat /\ rank[p] < rank[p] + 1
  BY <1>1
<1> QED
  BY <1>4, <1>5
=============================================================================
