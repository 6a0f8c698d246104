---------------------------- MODULE BucketProofs ----------------------------
(***************************************************************************)
(* What buckets and cursors give their users, from the invariant proved in *)
(* TreeProofs.  All of it has hypotheses, the conditions of BucketInv.tla  *)
(* on what a transaction runs into.  While no node is split every page has *)
(* one owner, and reads find every key unless they go through a pointer to *)
(* freed memory; if the cursor also shows no bucket as plain, a commit     *)
(* stores all; if also freed memory keeps its bytes and calls are served,  *)
(* Bucket implements BucketMap.                                            *)
(***************************************************************************)
EXTENDS TreeProofs, BucketRefinement

---------------------------------------------------------------------------
(* As long as commits do not split.                                        *)

\* Node::spill of a node that fits writes a leaf.
LEMMA SpillLeaf ==
  ASSUME TreeInv, AllLeaf, NothingSplits, NEW p \in DOMAIN opened, SpillNode(p)
  PROVE  AllLeaf'
<1>0. ObjectsAreBuckets /\ Ready(p) /\ opened[p].hasNode
  BY DEF TreeInv, SpillNode
<1>1. opened[p].node \in Seq(LeafInodes) /\ Fits(opened[p].node)
  BY <1>0 DEF ObjectsAreBuckets, LeafList, NothingSplits
<1> DEFINE s == opened[p].node
<1>2. split(s) = <<s>> /\ Len(<<s>>) = 1 /\ PageCount(<<s>>) = 1
  <2>1. split(s) = <<s>>
    BY <1>1, SplitFacts
  <2>2. Len(<<s>>) = 1
    OBVIOUS
  <2> QED
    BY <2>1, <2>2 DEF PageCount
<1>3. PICK ids : pages' = [q \in PageIds |->
                   IF \E i \in 1 .. 1 : q = ids[i]
                   THEN SpilledPage(p, <<s>>, ids, CHOOSE i \in 1 .. 1 : q = ids[i])
                   ELSE pages[q]]
  BY <1>2 DEF SpillNode
<1>4. ASSUME NEW i \in 1 .. 1 PROVE SpilledPage(p, <<s>>, ids, i).leaf
  <2>1. i <= Len(<<s>>)
    BY <1>2
  <2> QED
    BY <2>1 DEF SpilledPage, Page
<1> HIDE DEF s
<1>5. ASSUME NEW q \in PageIds PROVE pages'[q].leaf
  <2>1. CASE \E i \in 1 .. 1 : q = ids[i]
    <3>1. (CHOOSE i \in 1 .. 1 : q = ids[i]) \in 1 .. 1
      BY <2>1
    <3> QED
      BY <1>3, <1>4, <2>1, <3>1
  <2>2. CASE ~\E i \in 1 .. 1 : q = ids[i]
    BY <1>3, <2>2 DEF AllLeaf
  <2> QED
    BY <2>1, <2>2
<1> QED
  BY <1>5 DEF AllLeaf

\* Only SpillNode writes pages and only Commit clears them.
LEMMA LeafStep ==
  ASSUME TreeInv, AllLeaf, NothingSplits, [Next]_vars
  PROVE  AllLeaf'
<1>1. CASE UNCHANGED pages
  BY <1>1 DEF AllLeaf
<1>2. ASSUME NEW p \in todo, SpillNode(p) PROVE AllLeaf'
  BY <1>2, SpillLeaf DEF TreeInv, CommitProceeds
<1>3. CASE Commit
  BY <1>3 DEF Commit, AllLeaf, Blank, Page
<1> QED
  BY <1>1, <1>2, <1>3
  DEF Next, vars, file, spill, Begin, OpenBucket, CreateBucket, DeleteBucket, Put,
      BucketRemove, Seek, Abort, SpillAborts, CursorFirst, CursorLast, CursorNext, CursorPrev, Move,
      CursorRemove, CursorRemoveNothing, StartCommit, SpillNothing, SpillInline, Rollback, Restart,
      InCall

\* Then the pages are leaves.
THEOREM LeavesHold == Spec /\ []NothingSplits => []AllLeaf
<1>1. Init => AllLeaf
  BY DEF Init, AllLeaf, Blank, Page
<1>2. AllLeaf /\ TreeInv /\ NothingSplits /\ [Next]_vars => AllLeaf'
  BY LeafStep
<1> QED
  BY <1>1, <1>2, TreeHolds, PTL DEF Spec

\* A page in use, and the bucket it holds.
LEMMA PageIsBucket ==
  ASSUME TreeInv, AllLeaf, NEW seen \in BOOLEAN, ~seen,
         NEW f, Levels(f, seen)
  PROVE  \A u \in used :
           /\ Len(pages[u].of) <= MaxDepth
           /\ [path |-> pages[u].of, inodes |-> ToSet(pages[u].inodes)] \in f[Len(pages[u].of)]
           /\ pages[u].of # <<>> =>
                \E w \in used : /\ pages[w].of = Front(pages[u].of)
                                /\ \E i \in BucketsIn(ToSet(pages[w].inodes)) :
                                     i.key = Last(pages[u].of) /\ i.value.root = u
<1>0. PagesHoldLists /\ PagesFormTree
  BY DEF TreeInv
<1>1. ASSUME NEW u \in used
      PROVE  u \in PageIds /\ u # 0 /\ pages[u].leaf /\ pages[u].of \in Seq(Names)
  BY <1>0, <1>1, BucketAssumption DEF PagesHoldLists, AllLeaf
<1>2. ASSUME NEW u \in used, NEW r \in PageIds \cup {0}, RootOf(r, pages[u].of)
      PROVE  u = r
  <2>1. r = 0 \/ pages[r].leaf
    BY DEF AllLeaf
  <2> QED
    BY <1>2, <2>1 DEF RootOf, Sole
<1>3. ASSUME NEW u \in used, NEW v, v.root = u
      PROVE  Stored(v) = ToSet(pages[u].inodes)
  BY <1>1, <1>3 DEF Stored
<1>4. ASSUME NEW u \in used, pages[u].of # <<>>
      PROVE  \E w \in used :
               /\ pages[w].of = Front(pages[u].of) /\ Len(pages[w].of) < MaxDepth
               /\ \E i \in BucketsIn(ToSet(pages[w].inodes)) :
                    i.key = Last(pages[u].of) /\ i.value.root = u
  <2>1. PICK w \in used :
          /\ pages[w].leaf /\ pages[w].of = Front(pages[u].of)
          /\ \E i \in BucketsIn(ToSet(pages[w].inodes)) : i.key = Last(pages[u].of)
    BY <1>0, <1>4 DEF PagesFormTree
  <2>2. PICK i \in BucketsIn(ToSet(pages[w].inodes)) : i.key = Last(pages[u].of)
    BY <2>1
  <2>3. Len(pages[w].of) < MaxDepth /\ RootOf(i.value.root, Append(pages[w].of, i.key))
    BY <1>0, <2>1, <2>2 DEF PagesFormTree
  <2>4. Append(pages[w].of, i.key) = pages[u].of
    BY <1>1, <1>4, <2>1, <2>2, ParentPath
  <2>5. i.value.root \in PageIds \cup {0}
    <3>1. LeafList(pages[w].inodes) /\ IsBucketInode(i) /\ i \in ToSet(pages[w].inodes)
      BY <1>0, <1>1, <2>2 DEF PagesHoldLists, BucketsIn
    <3> QED
      BY <3>1, ListFacts, LeafFacts
  <2>6. i.value.root = u
    BY <1>2, <2>3, <2>4, <2>5
  <2> QED
    BY <2>1, <2>2, <2>3, <2>6
<1> DEFINE D == used
           P(u) == /\ Len(pages[u].of) <= MaxDepth
                   /\ [path |-> pages[u].of, inodes |-> ToSet(pages[u].inodes)] \in f[Len(pages[u].of)]
           Q == {u \in used : P(u)}
           rank == [u \in used |-> Len(pages[u].of)]
<1>5. ASSUME NEW u \in used, \A w \in used : rank[w] < rank[u] => w \in Q
      PROVE  P(u)
  <2>1. CASE pages[u].of = <<>>
    <3>1. u = rootPage
      BY <1>0, <1>2, <2>1 DEF PagesFormTree, PagesHoldLists
    <3>2. f[0] = {BucketAt(<<>>, HeaderValue(rootPage), seen)}
      BY DEF Levels
    <3>3. HeaderValue(rootPage).root = u
      BY <1>1, <3>1, HeaderValueFacts
    <3>4. BucketAt(<<>>, HeaderValue(rootPage), seen) = [path |-> <<>>, inodes |-> ToSet(pages[u].inodes)]
      BY <1>3, <3>3, ~seen DEF BucketAt
    <3>5. Len(pages[u].of) = 0
      BY <2>1
    <3> QED
      BY <2>1, <3>2, <3>4, <3>5, BucketAssumption
  <2>2. CASE pages[u].of # <<>>
    <3>1. PICK w \in used :
               /\ pages[w].of = Front(pages[u].of) /\ Len(pages[w].of) < MaxDepth
               /\ \E i \in BucketsIn(ToSet(pages[w].inodes)) :
                    i.key = Last(pages[u].of) /\ i.value.root = u
      BY <1>4, <2>2
    <3>2. PICK i \in BucketsIn(ToSet(pages[w].inodes)) :
                 i.key = Last(pages[u].of) /\ i.value.root = u
      BY <3>1
    <3>3. /\ Append(pages[w].of, i.key) = pages[u].of
          /\ Len(pages[w].of) = Len(pages[u].of) - 1 /\ Len(pages[u].of) \in Nat
          /\ Len(pages[w].of) \in Nat
      BY <1>1, <2>2, <3>1, <3>2, ParentPath
    <3>4. w \in Q
      <4>1. rank[w] < rank[u]
        BY <3>3
      <4> HIDE DEF rank, Q
      <4> QED
        BY <1>5, <4>1
    <3> DEFINE b == [path |-> pages[w].of, inodes |-> ToSet(pages[w].inodes)]
               d == Len(pages[u].of)
    <3>5. b \in f[d - 1] /\ d \in 1 .. MaxDepth
      BY <3>1, <3>3, <3>4, BucketAssumption
    <3>6. f[d] = Below(f[d - 1], seen)
      BY <3>5 DEF Levels
    <3>7. BucketAt(Append(b.path, i.key), i.value, seen) \in Below(f[d - 1], seen)
      <4>1. b.inodes = ToSet(pages[w].inodes)
        OBVIOUS
      <4>2. i \in {j \in b.inodes : IsBucketInode(j)}
        BY <3>2, <4>1 DEF BucketsIn
      <4> HIDE DEF b, d
      <4> QED
        BY <3>5, <4>2 DEF Below
    <3>8. BucketAt(Append(b.path, i.key), i.value, seen)
            = [path |-> pages[u].of, inodes |-> ToSet(pages[u].inodes)]
      BY <1>3, <3>2, <3>3, ~seen DEF BucketAt
    <3> QED
      BY <3>5, <3>6, <3>7, <3>8
  <2> QED
    BY <2>1, <2>2
<1>6. Progress(D, rank, Q)
  <2>1. rank \in [D -> Nat]
    BY <1>1
  <2> HIDE DEF rank, P
  <2> QED
    BY <1>5, <2>1 DEF Progress
<1>7. D \subseteq Q
  <2> HIDE DEF D, rank, Q
  <2> QED
    BY <1>6, RankInduction
<1> HIDE DEF rank
<1> QED
  BY <1>4, <1>7

\* The owners PagesAccounted speaks of.
OwnersBelow(b) ==
  {[path |-> Append(b.path, i.key), root |-> i.value.root] :
     i \in {i \in b.inodes : IsBucketInode(i) /\ i.value.root # 0}}
Owners ==
  {[path |-> <<>>, root |-> rootPage]} \cup UNION {OwnersBelow(b) : b \in Committed}

\* Each of them is the bucket its page was written for.
LEMMA OwnerFacts ==
  ASSUME TreeInv
  PROVE  \A o \in Owners :
           o.root \in used /\ o = [path |-> pages[o.root].of, root |-> o.root]
<1>0. PagesHoldLists /\ PagesFormTree
  BY DEF TreeInv
<1>1. PICK seen \in BOOLEAN : ~seen /\ Committed = Buckets(seen)
  BY Zenon DEF Committed
<1>2. PICK f \in [0 .. MaxDepth -> SUBSET GoodBuckets(seen)] :
        Buckets(seen) = UNION {f[d] : d \in 0 .. MaxDepth}
  BY <1>1, FileLevels
<1>3. ASSUME NEW b \in Committed, NEW i \in b.inodes, IsBucketInode(i), i.value.root # 0
      PROVE  i.value.root \in used /\ pages[i.value.root].of = Append(b.path, i.key)
  <2>1. b \in GoodBuckets(seen)
    BY <1>1, <1>2
  <2>2. RootOf(i.value.root, Append(b.path, i.key))
    BY <1>1, <1>3, <2>1 DEF GoodBuckets, Leads
  <2> QED
    BY <1>3, <2>2 DEF RootOf
<1>4. rootPage \in used /\ pages[rootPage].of = <<>>
  <2>1. rootPage \in used /\ RootOf(rootPage, <<>>) /\ rootPage # 0
    BY <1>0, BucketAssumption DEF PagesFormTree, PagesHoldLists
  <2> QED
    BY <2>1 DEF RootOf
<1> SUFFICES ASSUME NEW o \in Owners
             PROVE  o.root \in used /\ o = [path |-> pages[o.root].of, root |-> o.root]
  OBVIOUS
<1>5. CASE o = [path |-> <<>>, root |-> rootPage]
  BY <1>4, <1>5
<1>6. CASE o # [path |-> <<>>, root |-> rootPage]
  <2>1. PICK b \in Committed : o \in OwnersBelow(b)
    BY <1>6 DEF Owners
  <2>2. PICK i \in b.inodes : /\ IsBucketInode(i) /\ i.value.root # 0
                             /\ o = [path |-> Append(b.path, i.key), root |-> i.value.root]
    BY <2>1 DEF OwnersBelow
  <2> QED
    BY <1>3, <2>2
<1> QED
  BY <1>5, <1>6

\* Every page in use is the root of one of them.
LEMMA PageHasOwner ==
  ASSUME TreeInv, AllLeaf, NEW u \in used
  PROVE  \E o \in Owners : o.root = u
<1>0. PagesHoldLists /\ PagesFormTree
  BY DEF TreeInv
<1>1. PICK seen \in BOOLEAN : ~seen /\ Committed = Buckets(seen)
  BY Zenon DEF Committed
<1>2. PICK f \in [0 .. MaxDepth -> SUBSET GoodBuckets(seen)] :
        Levels(f, seen) /\ Buckets(seen) = UNION {f[d] : d \in 0 .. MaxDepth}
  BY <1>1, FileLevels
<1>3. CASE pages[u].of = <<>>
  <2>1. RootOf(rootPage, <<>>) /\ pages[rootPage].leaf
    BY <1>0 DEF PagesFormTree, PagesHoldLists, AllLeaf
  <2>2. u = rootPage
    BY <1>3, <2>1 DEF RootOf, Sole
  <2>3. [path |-> <<>>, root |-> rootPage] \in Owners
    BY DEF Owners
  <2> QED
    BY <2>2, <2>3
<1>4. CASE pages[u].of # <<>>
  <2>1. PICK w \in used : /\ pages[w].of = Front(pages[u].of)
                          /\ \E i \in BucketsIn(ToSet(pages[w].inodes)) :
                               i.key = Last(pages[u].of) /\ i.value.root = u
    BY <1>1, <1>2, <1>4, PageIsBucket
  <2>2. PICK i \in BucketsIn(ToSet(pages[w].inodes)) :
               i.key = Last(pages[u].of) /\ i.value.root = u
    BY <2>1
  <2> DEFINE b == [path |-> pages[w].of, inodes |-> ToSet(pages[w].inodes)]
  <2>3. Len(pages[w].of) <= MaxDepth /\ b \in f[Len(pages[w].of)]
    BY <1>1, <1>2, PageIsBucket
  <2>4. Len(pages[w].of) \in 0 .. MaxDepth
    BY <1>0, <2>3, BucketAssumption DEF PagesHoldLists
  <2>5. b \in Committed
    <3> HIDE DEF b
    <3> QED
      BY <1>1, <1>2, <2>3, <2>4
  <2>6. i \in b.inodes /\ IsBucketInode(i) /\ i.value.root # 0
    BY <1>0, <2>2, BucketAssumption DEF BucketsIn, PagesHoldLists
  <2> DEFINE o == [path |-> Append(b.path, i.key), root |-> i.value.root]
  <2>7. o \in OwnersBelow(b) /\ o.root = u
    BY <2>2, <2>6 DEF OwnersBelow
  <2> HIDE DEF b, o
  <2> QED
    BY <2>5, <2>7 DEF Owners
<1> QED
  BY <1>3, <1>4

\* Every page in use is a bucket's, of exactly one bucket, unless commits split.
THEOREM AccountedHolds == Spec /\ []NothingSplits => []PagesAccounted
<1>1. TreeInv /\ AllLeaf => PagesAccounted
  <2> SUFFICES ASSUME TreeInv, AllLeaf PROVE PagesAccounted
    OBVIOUS
  <2> DEFINE roots == {o.root : o \in Owners}
             children(q) == IF pages[q].leaf THEN {} ELSE {i.pageId : i \in ToSet(pages[q].inodes)}
  <2>1. used = roots
    BY OwnerFacts, PageHasOwner
  <2>2. \A q \in roots : children(q) = {}
    BY <2>1 DEF AllLeaf, TreeInv, PagesHoldLists
  <2>3. used = roots \cup UNION {children(q) : q \in roots}
    <3> HIDE DEF roots, children
    <3> QED
      BY <2>1, <2>2
  <2>4. \A o, u \in Owners : o.root = u.root => o = u
    BY OwnerFacts
  <2>5. Owners = {[path |-> <<>>, root |-> rootPage]} \cup
                UNION {{[path |-> Append(b.path, i.key), root |-> i.value.root] :
                          i \in {i \in b.inodes : IsBucketInode(i) /\ i.value.root # 0}} :
                       b \in Committed}
    BY DEF Owners, OwnersBelow
  <2> QED
    BY <2>3, <2>4, <2>5, Zenon DEF PagesAccounted
<1> QED
  BY <1>1, TreeHolds, LeavesHold, PTL

---------------------------------------------------------------------------
(* Reading.                                                                *)

\* Good buckets that hold what the transaction's object, if there is one, holds.
TxBuckets(seen) ==
  {b \in GoodBuckets(seen) :
     b.path \in DOMAIN opened => \A v : b.inodes = Held(b.path, v)}

\* The buckets a transaction sees are such buckets.
LEMMA TxLevels ==
  ASSUME TreeInv, NEW seen \in BOOLEAN \ {FALSE}
  PROVE  \E f \in [0 .. MaxDepth -> SUBSET TxBuckets(seen)] :
           Levels(f, seen) /\ Buckets(seen) = UNION {f[d] : d \in 0 .. MaxDepth}
<1> DEFINE G == TxBuckets(seen)
<1>0. /\ PagesHoldLists /\ PagesFormTree
      /\ ObjectsAreBuckets /\ ObjectsHaveRoots /\ ElementsLead
  BY DEF TreeInv
<1>1. ASSUME NEW p \in Seq(Names), NEW v,
             p \notin DOMAIN opened => RootOf(v.root, p) /\ (v.root = 0 => InlineList(v.page))
      PROVE  BucketAt(p, v, seen) \in G
  <2>1. \A i \in Held(p, v) : i \in LeafInodes /\ Leads(p, i, seen)
    <3>1. CASE p \notin DOMAIN opened
      BY <1>1, <3>1, StoredGood DEF Held
    <3>2. CASE p \in DOMAIN opened /\ opened[p].hasNode
      <4>1. Held(p, v) = ToSet(opened[p].node) /\ LeafList(opened[p].node)
        BY <1>0, <3>2 DEF Held, ObjectsAreBuckets
      <4>2. ASSUME NEW i \in Held(p, v) PROVE i \in LeafInodes /\ Leads(p, i, seen)
        <5>1. i \in LeafInodes
          BY <4>1, <4>2, ListFacts
        <5>2. Leads(p, i, seen)
          BY <1>0, <3>2, <4>1, <4>2 DEF ElementsLead, Leads, BucketsIn
        <5> QED
          BY <5>1, <5>2
      <4> QED
        BY <4>2
    <3>3. CASE p \in DOMAIN opened /\ ~opened[p].hasNode
      <4>1. Held(p, v) = Stored(opened[p])
        BY <3>3 DEF Held
      <4>2. RootOf(opened[p].root, p) /\ InlineList(opened[p].page)
        BY <1>0, <3>3 DEF ObjectsAreBuckets, ObjectsHaveRoots, Done
      <4>3. PICK w : w = opened[p]
        OBVIOUS
      <4>4. \A i \in Stored(w) : i \in LeafInodes /\ Leads(p, i, seen)
        BY <4>2, <4>3, StoredGood
      <4> QED
        BY <4>1, <4>3, <4>4
    <3> QED
      BY <3>1, <3>2, <3>3
  <2>2. BucketAt(p, v, seen) = [path |-> p, inodes |-> Held(p, v)]
    BY DEF BucketAt
  <2>3. Held(p, v) \in SUBSET (LeafInodes \cup BranchInodes)
    BY <2>1
  <2>4. BucketAt(p, v, seen) \in [path : Seq(Names), inodes : SUBSET (LeafInodes \cup BranchInodes)]
    BY <2>2, <2>3
  <2>5. BucketAt(p, v, seen).inodes = Held(p, v) /\ BucketAt(p, v, seen).path = p
    BY <2>2
  <2>6. BucketAt(p, v, seen) \in GoodBuckets(seen)
    BY <2>1, <2>4, <2>5 DEF GoodBuckets
  <2>7. p \in DOMAIN opened => \A w : Held(p, v) = Held(p, w)
    BY DEF Held
  <2> QED
    BY <2>5, <2>6, <2>7 DEF TxBuckets
<1>2. BucketAt(<<>>, HeaderValue(rootPage), seen) \in G
  <2>1. rootPage \in PageIds /\ RootOf(rootPage, <<>>)
    BY <1>0 DEF PagesFormTree, PagesHoldLists
  <2>2. HeaderValue(rootPage).root = rootPage /\ rootPage # 0
    BY <2>1, HeaderValueFacts, BucketAssumption
  <2>3. <<>> \in Seq(Names)
    OBVIOUS
  <2> HIDE DEF G
  <2> QED
    BY <1>1, <2>1, <2>2, <2>3
<1>3. ASSUME NEW b \in G, NEW i \in BucketsIn(b.inodes)
      PROVE  BucketAt(Append(b.path, i.key), i.value, seen) \in G
  <2>1. /\ b.path \in Seq(Names) /\ i \in LeafInodes /\ IsBucketInode(i)
        /\ Append(b.path, i.key) \in DOMAIN opened \/ RootOf(i.value.root, Append(b.path, i.key))
    BY <1>3 DEF TxBuckets, GoodBuckets, BucketsIn, Leads
  <2>2. i.key \in Names /\ InlineList(i.value.page)
    BY <2>1, LeafFacts
  <2>3. Append(b.path, i.key) \in Seq(Names)
    BY <2>1, <2>2, ChildPath
  <2> HIDE DEF G
  <2> QED
    BY <1>1, <2>1, <2>2, <2>3
<1> HIDE DEF G
<1>4. \E f \in [0 .. MaxDepth -> SUBSET G] :
        Levels(f, seen) /\ Buckets(seen) = UNION {f[d] : d \in 0 .. MaxDepth}
  <2>1. ClosedBelow(G, seen)
    BY <1>2, <1>3 DEF ClosedBelow
  <2> QED
    BY <2>1, BucketsLevels
<1> QED
  BY <1>4 DEF G

\* Every object is a leaf.
LEMMA ObjectsAreLeaves ==
  ASSUME TreeInv, AllLeaf, NEW p \in DOMAIN opened
  PROVE  IsLeaf(p)
<1>1. opened[p].root \in PageIds \cup {0}
  BY DEF TreeInv, ObjectsAreBuckets, Objects
<1> QED
  BY <1>1 DEF IsLeaf, PageNode, Page, AllLeaf

\* Every object has its element while nothing is loose.
LEMMA ElementOf ==
  ASSUME TreeInv, AllLeaf, NothingLoose, NEW p \in DOMAIN opened \ {<<>>}
  PROVE  /\ Front(p) \in DOMAIN opened /\ IsLeaf(Front(p))
         /\ HasElement(p, ListOf(Front(p)))
<1>1. Front(p) \in DOMAIN opened
  BY DEF TreeInv, ObjectsAreElements
<1>2. IsLeaf(Front(p))
  BY <1>1, ObjectsAreLeaves
<1> QED
  BY <1>1, <1>2 DEF NothingLoose

\* Every object of the transaction is among them.
LEMMA ObjectIsBucket ==
  ASSUME TreeInv, AllLeaf, NothingLoose, NEW seen \in BOOLEAN \ {FALSE}, NEW f, Levels(f, seen)
  PROVE  \A p \in DOMAIN opened : \A v :
           [path |-> p, inodes |-> Held(p, v)] \in f[Len(p)]
<1>0. ObjectsAreBuckets
  BY DEF TreeInv
<1>1. ASSUME NEW p \in DOMAIN opened PROVE p \in Seq(Names) /\ Len(p) \in Nat /\ Len(p) <= MaxDepth
  BY <1>0, <1>1 DEF ObjectsAreBuckets
<1>2. ASSUME NEW p \in DOMAIN opened, NEW v, NEW w
      PROVE  BucketAt(p, v, seen) = [path |-> p, inodes |-> Held(p, w)]
  BY <1>2 DEF BucketAt, Held
<1> DEFINE D == DOMAIN opened
           P(p) == \A v : [path |-> p, inodes |-> Held(p, v)] \in f[Len(p)]
           Q == {p \in D : P(p)}
           rank == [p \in D |-> Len(p)]
<1>3. ASSUME NEW p \in DOMAIN opened, \A q \in DOMAIN opened : rank[q] < rank[p] => q \in Q
      PROVE  P(p)
  <2>1. CASE p = <<>>
    <3>1. f[0] = {BucketAt(<<>>, HeaderValue(rootPage), seen)}
      BY DEF Levels
    <3>2. Len(p) = 0
      BY <2>1
    <3> QED
      BY <1>2, <2>1, <3>1, <3>2
  <2>2. CASE p # <<>>
    <3> DEFINE q == Front(p)
               d == Len(p)
    <3>1. /\ q \in DOMAIN opened /\ IsLeaf(q)
          /\ \E i \in BucketsIn(ToSet(ListOf(q))) : i.key = Last(p)
      BY <2>2, ElementOf DEF HasElement
    <3>2. PICK i \in BucketsIn(ToSet(ListOf(q))) : i.key = Last(p)
      BY <3>1
    <3>3. Append(q, i.key) = p /\ Len(q) = d - 1 /\ d \in Nat /\ Len(q) \in Nat
      BY <1>1, <2>2, <3>2, ParentPath
    <3>4. q \in Q
      <4>1. rank[q] < rank[p]
        BY <3>1, <3>3
      <4> HIDE DEF rank, Q
      <4> QED
        BY <1>3, <3>1, <4>1
    <3> DEFINE b == [path |-> q, inodes |-> Held(q, 0)]
    <3>5. b \in f[d - 1] /\ d \in 1 .. MaxDepth
      BY <1>1, <3>3, <3>4
    <3>6. f[d] = Below(f[d - 1], seen)
      BY <3>5 DEF Levels
    <3>7. BucketAt(Append(b.path, i.key), i.value, seen) \in Below(f[d - 1], seen)
      <4>1. b.inodes = ToSet(ListOf(q))
        BY <3>1, HeldFacts
      <4>2. i \in {j \in b.inodes : IsBucketInode(j)}
        BY <3>2, <4>1 DEF BucketsIn
      <4> HIDE DEF b, d
      <4> QED
        BY <3>5, <4>2 DEF Below
    <3>8. b.path = q
      OBVIOUS
    <3>9. BucketAt(p, i.value, seen) \in f[d]
      <4> HIDE DEF b, d, q
      <4> QED
        BY <3>3, <3>6, <3>7, <3>8
    <3> QED
      BY <1>2, <3>9
  <2> QED
    BY <2>1, <2>2
<1>4. Progress(D, rank, Q)
  <2>1. rank \in [D -> Nat]
    BY <1>1
  <2> HIDE DEF rank, P
  <2> QED
    BY <1>3, <2>1 DEF Progress
<1>5. D \subseteq Q
  <2> HIDE DEF D, rank, Q
  <2> QED
    BY <1>4, RankInduction
<1> QED
  BY <1>5

\* The entries of a bucket a transaction has opened.
LEMMA EntriesOf ==
  ASSUME TreeInv, mode \in {"ro", "rw", "spill"}, NEW p \in DOMAIN opened, IsLeaf(p),
         p \in {b.path : b \in Working}
  PROVE  {e \in Entries(Working) : e.path = p} = {EntryOf(p, i) : i \in ToSet(ListOf(p))}
<1>1. PICK seen \in BOOLEAN \ {FALSE} : Working = Buckets(seen)
  BY Zenon DEF Working
<1>2. PICK f \in [0 .. MaxDepth -> SUBSET TxBuckets(seen)] :
        Levels(f, seen) /\ Buckets(seen) = UNION {f[d] : d \in 0 .. MaxDepth}
  BY <1>1, TxLevels
<1>3. PICK b \in Working : b.path = p
  OBVIOUS
<1>4. ASSUME NEW c \in Working, c.path = p PROVE c.inodes = ToSet(ListOf(p))
  <2>1. c \in TxBuckets(seen)
    BY <1>1, <1>2
  <2>2. c.inodes = Held(p, 0)
    BY <1>4, <2>1 DEF TxBuckets
  <2> QED
    BY <2>2, HeldFacts
<1>5. ASSUME NEW e \in Entries(Working), e.path = p
      PROVE  e \in {EntryOf(p, i) : i \in ToSet(ListOf(p))}
  <2>1. PICK c \in Working : e \in {EntryOf(c.path, i) : i \in c.inodes}
    BY <1>5 DEF Entries
  <2>2. PICK i \in c.inodes : e = EntryOf(c.path, i)
    BY <2>1
  <2>3. c.path = p
    BY <1>5, <2>2 DEF EntryOf
  <2> QED
    BY <1>4, <2>2, <2>3
<1>6. ASSUME NEW i \in ToSet(ListOf(p))
      PROVE  EntryOf(p, i) \in Entries(Working) /\ EntryOf(p, i).path = p
  <2>1. EntryOf(p, i) \in {EntryOf(b.path, j) : j \in b.inodes}
    BY <1>3, <1>4
  <2>2. EntryOf(p, i).path = p
    BY DEF EntryOf
  <2> QED
    BY <1>3, <2>1, <2>2 DEF Entries
<1> QED
  BY <1>5, <1>6

\* A stack of one element that is at index n of ref.
At(ref, n) == [ref EXCEPT !.index = n]

\* Moving the index changes nothing else.
LEMMA AtFacts ==
  ASSUME NEW p, NEW ref \in Refs, NEW n, NEW m
  PROVE  /\ At(ref, n).index = n /\ At(ref, n).leaf = ref.leaf
         /\ ElementsAt(p, At(ref, n)) = ElementsAt(p, ref)
         /\ At(At(ref, n), m) = At(ref, m)
         /\ ref.index = n => At(ref, n) = ref
<1>1. /\ ref = [live |-> ref.live, leaf |-> ref.leaf, inodes |-> ref.inodes, index |-> ref.index]
      /\ At(ref, n) = [live |-> ref.live, leaf |-> ref.leaf, inodes |-> ref.inodes, index |-> n]
      /\ At(ref, m) = [live |-> ref.live, leaf |-> ref.leaf, inodes |-> ref.inodes, index |-> m]
  BY DEF Refs, At
<1>2. At(At(ref, n), m) = [live |-> ref.live, leaf |-> ref.leaf, inodes |-> ref.inodes, index |-> m]
  BY <1>1 DEF At
<1>3. At(ref, n).live = ref.live /\ At(ref, n).inodes = ref.inodes
  BY <1>1
<1> QED
  BY <1>1, <1>2, <1>3 DEF ElementsAt

\* A stack of one leaf.
LEMMA OneLeaf ==
  ASSUME NEW ref, ref.leaf
  PROVE  /\ Last(<<ref>>) = ref /\ <<ref>> # <<>> /\ DOMAIN <<ref>> = {1} /\ <<ref>>[1] = ref
         /\ \A last : Down(<<ref>>, last) = <<ref>>
         /\ \A x : Append(SubSeq(<<ref>>, 1, 0), x) = <<x>>
<1>1. Len(<<ref>>) = 1 /\ <<ref>>[1] = ref /\ <<ref>> # <<>> /\ DOMAIN <<ref>> = {1}
  OBVIOUS
<1>2. Last(<<ref>>) = ref
  BY <1>1 DEF Last
<1>3. ASSUME NEW x PROVE Append(SubSeq(<<ref>>, 1, 0), x) = <<x>>
  <2> DEFINE t == SubSeq(<<ref>>, 1, 0)
  <2>1. t \in Seq({ref}) /\ Len(t) = 0
    BY <1>1
  <2>2. t = <<>>
    <3> HIDE DEF t
    <3> QED
      BY <2>1, EmptySeq
  <2>3. Append(<<>>, x) = <<x>>
    OBVIOUS
  <2> QED
    BY <2>2, <2>3
<1> QED
  BY <1>1, <1>2, <1>3 DEF Down

\* What a search, a seek or a walk of a leaf bucket begins with.
LEMMA LeafNode ==
  ASSUME TreeInv, mode \in {"ro", "rw"}, NEW p \in DOMAIN opened, IsLeaf(p), NEW bytes \in Bytes(p),
         NEW ref, ref = PageNode(p, bytes)
  PROVE  /\ ref \in Refs /\ ref.leaf /\ ref.index = 0
         /\ ElementsAt(p, ref) = Inodes(p, bytes) /\ LeafList(Inodes(p, bytes))
<1>1. ref \in Refs /\ ref.index = 0
  BY PageNodeOK
<1>2. ref.leaf
  BY DEF IsLeaf, PageNode, Page
<1>3. ElementsAt(p, ref) = Inodes(p, bytes)
  BY DEF ElementsAt, Inodes, PageNode
<1> QED
  BY <1>1, <1>2, <1>3, ObjectList

\* Cursor::seek in a leaf bucket.
LEMMA SeekLeaf ==
  ASSUME TreeInv, mode \in {"ro", "rw"}, NEW p \in DOMAIN opened, IsLeaf(p), NEW bytes \in Bytes(p),
         NEW ref, ref = PageNode(p, bytes), NEW k, NEW i
  PROVE  SeekStack(p, k, bytes, i) = <<At(ref, binarySearch(Inodes(p, bytes), k).index)>>
<1>1. ref \in Refs /\ ref.leaf /\ ElementsAt(p, ref) = Inodes(p, bytes)
  BY LeafNode
<1> QED
  BY <1>1 DEF SeekStack, At

\* Bucket::get finds the plain element with the key, if there is one.
LEMMA GetFinds ==
  ASSUME TreeInv, mode \in {"ro", "rw"}, NEW p \in DOMAIN opened, IsLeaf(p), NEW bytes \in Bytes(p),
         NEW k \in Keys, NEW i, NEW s, s = Inodes(p, bytes)
  PROVE  ToSet(get(p, k, bytes, i)) =
           {x.value.len : x \in {x \in ToSet(s) : x.key = k /\ ~IsBucketInode(x)}}
<1>1. PICK ref : ref = PageNode(p, bytes)
  OBVIOUS
<1>2. ref \in Refs /\ ref.leaf /\ ElementsAt(p, ref) = s /\ LeafList(s)
  BY <1>1, LeafNode
<1> DEFINE n == binarySearch(s, k).index
           r == At(ref, n)
<1>3. Last(SeekStack(p, k, bytes, i)) = r
  <2>1. SeekStack(p, k, bytes, i) = <<r>>
    BY <1>1, SeekLeaf
  <2>2. r.leaf
    BY <1>2, AtFacts
  <2> QED
    BY <2>1, <2>2, OneLeaf
<1>4. r.index = n /\ ElementsAt(p, r) = s
  BY <1>2, AtFacts
<1>5. /\ s \in Seq(LeafInodes) /\ k \in Int
      /\ \A x, y \in ToSet(s) : x.key = y.key => x = y
  BY <1>2, ListFacts, KeyFacts
<1>6. /\ n \in 0 .. Len(s)
      /\ binarySearch(s, k).found => n < Len(s)
  BY <1>5, LeafFacts, SearchFacts
<1>7. /\ binarySearch(s, k).found <=> \E x \in ToSet(s) : x.key = k
      /\ binarySearch(s, k).found => s[n + 1] \in ToSet(s) /\ s[n + 1].key = k
  BY <1>2, <1>5, SearchList
<1> HIDE DEF r, n
<1>8. InRange(p, r) <=> n < Len(s)
  BY <1>4 DEF InRange, RefCount
<1>9. Current(p, r) = s[n + 1]
  BY <1>4 DEF Current
<1> DEFINE found == n < Len(s) /\ s[n + 1].key = k /\ ~IsBucketInode(s[n + 1])
<1>10. get(p, k, bytes, i) = IF found THEN <<s[n + 1].value.len>> ELSE <<>>
  BY <1>3, <1>8, <1>9 DEF get, IsBucketInode
<1>11. n < Len(s) => s[n + 1] \in ToSet(s)
  <2>1. ToSet(s) = {s[j] : j \in 1 .. Len(s)} /\ Len(s) \in Nat
    BY <1>5, ToSetFacts
  <2> QED
    BY <1>6, <2>1
<1>12. CASE found
  <2>1. {x \in ToSet(s) : x.key = k /\ ~IsBucketInode(x)} = {s[n + 1]}
    BY <1>5, <1>11, <1>12
  <2>2. ToSet(<<s[n + 1].value.len>>) = {s[n + 1].value.len}
    BY DEF ToSet
  <2> QED
    BY <1>10, <1>12, <2>1, <2>2
<1>13. CASE ~found
  <2>1. {x \in ToSet(s) : x.key = k /\ ~IsBucketInode(x)} = {}
    BY <1>5, <1>6, <1>7, <1>13
  <2>2. ToSet(<<>>) = {}
    BY DEF ToSet
  <2> QED
    BY <1>10, <1>13, <2>1, <2>2
<1> QED
  BY <1>12, <1>13

---------------------------------------------------------------------------
(* Moving over a leaf.                                                     *)

\* Cursor::first in a leaf bucket.
LEMMA FirstLeaf ==
  ASSUME TreeInv, mode \in {"ro", "rw"}, NEW p \in DOMAIN opened, IsLeaf(p), NEW bytes \in Bytes(p),
         NEW ref, ref = PageNode(p, bytes), NEW s, s = Inodes(p, bytes)
  PROVE  FirstStack(p, bytes) = IF 0 < Len(s) THEN <<At(ref, 0)>> ELSE <<>>
<1>1. ref \in Refs /\ ref.leaf /\ ref.index = 0 /\ ElementsAt(p, ref) = s /\ LeafList(s)
  BY LeafNode
<1>2. Len(s) \in Nat
  BY <1>1, ListFacts
<1>3. Last(<<ref>>) = ref /\ At(ref, 0) = ref
  BY <1>1, OneLeaf, AtFacts
<1>4. RefCount(p, ref) = Len(s)
  BY <1>1 DEF RefCount
<1>5. FirstStack(p, bytes) = IF RefCount(p, Last(<<ref>>)) = 0 THEN <<>> ELSE <<ref>>
  BY <1>1, <1>3 DEF FirstStack, Down
<1> QED
  BY <1>2, <1>3, <1>4, <1>5

\* Cursor::do_next at index n of a leaf.
LEMMA NextLeaf ==
  ASSUME NEW p, NEW ref \in Refs, ref.leaf, NEW s, s = ElementsAt(p, ref), LeafList(s),
         NEW n \in 0 .. Len(s)
  PROVE  NextStack(p, <<At(ref, n)>>) = IF n + 1 < Len(s) THEN <<At(ref, n + 1)>> ELSE <<>>
<1>1. Len(s) \in Nat /\ Len(s) < IndexMod - 1 /\ IndexMod \in Nat
  BY ListFacts, KeyFacts
<1> DEFINE r == At(ref, n)
           S == {i \in DOMAIN <<r>> : (<<r>>[i].index + 1) % IndexMod < RefCount(p, <<r>>[i])}
<1>2. /\ r.index = n /\ r.leaf /\ RefCount(p, r) = Len(s)
      /\ At(r, n + 1) = At(ref, n + 1) /\ At(ref, n + 1).leaf
  BY AtFacts DEF RefCount
<1>3. (n + 1) % IndexMod = n + 1 /\ (n + 1 + IndexMod) % IndexMod = n + 1
  <2>1. n + 1 \in 0 .. IndexMod - 1
    BY <1>1
  <2> QED
    BY <2>1, ModFacts
<1>4. NextStack(p, <<r>>) = StepStack(<<r>>, S, 1, FALSE)
  BY DEF NextStack
<1> HIDE DEF r
<1>5. DOMAIN <<r>> = {1} /\ <<r>>[1] = r
  OBVIOUS
<1>6. S = IF n + 1 < Len(s) THEN {1} ELSE {}
  BY <1>2, <1>3, <1>5
<1>7. CASE n + 1 < Len(s)
  <2>1. S = {1} /\ Max(S) = 1
    BY <1>6, <1>7 DEF Max
  <2>2. [<<r>>[1] EXCEPT !.index = (@ + 1 + IndexMod) % IndexMod] = At(ref, n + 1)
    BY <1>2, <1>3, <1>5 DEF At
  <2>3. Append(SubSeq(<<r>>, 1, 1 - 1), At(ref, n + 1)) = <<At(ref, n + 1)>>
    BY <1>2, OneLeaf
  <2> HIDE DEF S
  <2>4. StepStack(<<r>>, S, 1, FALSE) = Down(<<At(ref, n + 1)>>, FALSE)
    BY <2>1, <2>2, <2>3 DEF StepStack
  <2> QED
    BY <1>2, <1>4, <1>7, <2>4, OneLeaf DEF r
<1>8. CASE ~(n + 1 < Len(s))
  BY <1>4, <1>6, <1>8 DEF StepStack, r
<1> QED
  BY <1>7, <1>8

\* Bucket::for_each visits the elements of a leaf bucket one after the other.
LEMMA ForEachVisits ==
  ASSUME TreeInv, mode \in {"ro", "rw"}, NEW p \in DOMAIN opened, IsLeaf(p), NEW bytes \in Bytes(p),
         NEW s, s = Inodes(p, bytes)
  PROVE  forEach(p, bytes) = [m \in 1 .. Len(s) |-> s[m].key]
<1>1. PICK ref : ref = PageNode(p, bytes)
  OBVIOUS
<1>2. ref \in Refs /\ ref.leaf /\ ElementsAt(p, ref) = s /\ LeafList(s)
  BY <1>1, LeafNode
<1>3. Len(s) \in Nat /\ Len(s) < IndexMod - 1 /\ IndexMod \in Nat
  BY <1>2, ListFacts, KeyFacts
<1> DEFINE W(n) == IF n < Len(s) THEN <<At(ref, n)>> ELSE <<>>
           w == [n \in Nat |-> W(n)]
           G(h) == [n \in Nat |-> IF n = 0 THEN FirstStack(p, bytes)
                                  ELSE IF h[n - 1] = <<>> THEN <<>> ELSE NextStack(p, h[n - 1])]
           g == CHOOSE h : h = G(h)
           Ends(n) == g[n] = <<>> /\ \A m \in 0 .. n - 1 : g[m] # <<>>
           N == CHOOSE n \in 0 .. IndexMod : Ends(n)
<1>4. forEach(p, bytes) = [m \in 1 .. N |-> Current(p, Last(g[m - 1])).key]
  BY DEF forEach
<1>5. W(0) = FirstStack(p, bytes)
  BY <1>1, <1>2, FirstLeaf
<1>6. ASSUME NEW n \in Nat
      PROVE  W(n + 1) = IF W(n) = <<>> THEN <<>> ELSE NextStack(p, W(n))
  <2>1. CASE n < Len(s)
    <3>1. n \in 0 .. Len(s) /\ <<At(ref, n)>> # <<>>
      BY <1>3, <2>1
    <3>2. NextStack(p, <<At(ref, n)>>) = IF n + 1 < Len(s) THEN <<At(ref, n + 1)>> ELSE <<>>
      BY <1>2, <3>1, NextLeaf
    <3> QED
      BY <2>1, <3>1, <3>2
  <2>2. CASE ~(n < Len(s))
    BY <1>3, <2>2
  <2> QED
    BY <2>1, <2>2
<1> HIDE DEF W
<1>7. ASSUME NEW n \in Nat, n # 0 PROVE n - 1 \in Nat /\ (n - 1) + 1 = n
  BY <1>7
<1>8. w = G(w)
  <2>1. ASSUME NEW n \in Nat
        PROVE  w[n] = IF n = 0 THEN FirstStack(p, bytes)
                      ELSE IF w[n - 1] = <<>> THEN <<>> ELSE NextStack(p, w[n - 1])
    <3>1. CASE n = 0
      BY <1>5, <3>1
    <3>2. CASE n # 0
      <4>1. w[n] = W(n) /\ w[n - 1] = W(n - 1)
        BY <1>7, <3>2
      <4>2. W(n) = IF W(n - 1) = <<>> THEN <<>> ELSE NextStack(p, W(n - 1))
        BY <1>6, <1>7, <3>2
      <4> QED
        BY <3>2, <4>1, <4>2
    <3> QED
      BY <3>1, <3>2
  <2>2. w = [n \in Nat |-> w[n]]
    OBVIOUS
  <2> HIDE DEF w
  <2> QED
    BY <2>1, <2>2
<1>9. g = G(g)
  <2> HIDE DEF G, w
  <2> QED
    BY <1>8
<1> HIDE DEF g
<1>10. \A n \in Nat : g[n] = W(n)
  <2> DEFINE S == {n \in Nat : g[n] = W(n)}
  <2>1. 0 \in S
    BY <1>5, <1>9
  <2>2. ASSUME NEW n \in Nat, n \in S PROVE n + 1 \in S
    <3>1. n + 1 \in Nat /\ n + 1 # 0 /\ (n + 1) - 1 = n
      OBVIOUS
    <3>2. g[n + 1] = IF g[n] = <<>> THEN <<>> ELSE NextStack(p, g[n])
      BY <1>9, <3>1
    <3> QED
      BY <1>6, <2>2, <3>2
  <2>3. Nat \subseteq S
    <3> HIDE DEF S
    <3> QED
      BY <2>1, <2>2, Induction
  <2> QED
    BY <2>3
<1> HIDE DEF w
<1>11. \A n \in Nat : g[n] = <<>> <=> ~(n < Len(s))
  <2>1. \A n : <<At(ref, n)>> # <<>>
    OBVIOUS
  <2> QED
    BY <1>10, <2>1 DEF W
<1>12. N = Len(s)
  <2>1. Len(s) \in 0 .. IndexMod /\ Ends(Len(s))
    BY <1>3, <1>11
  <2>2. ASSUME NEW n \in 0 .. IndexMod, Ends(n) PROVE n = Len(s)
    <3>1. n \in Nat /\ ~(n < Len(s))
      BY <1>11, <2>2
    <3>2. ~(Len(s) < n)
      <4> SUFFICES ASSUME Len(s) < n PROVE FALSE
        OBVIOUS
      <4>1. Len(s) \in 0 .. n - 1
        BY <1>3, <3>1
      <4> QED
        BY <1>3, <1>11, <2>2, <4>1
    <3> QED
      BY <1>3, <3>1, <3>2
  <2> HIDE DEF Ends
  <2> QED
    BY <2>1, <2>2
<1> HIDE DEF N
<1>13. ASSUME NEW m \in 1 .. Len(s) PROVE Current(p, Last(g[m - 1])).key = s[m].key
  <2>1. m - 1 \in Nat /\ m - 1 < Len(s) /\ (m - 1) + 1 = m
    BY <1>3
  <2>2. g[m - 1] = <<At(ref, m - 1)>>
    BY <1>10, <2>1 DEF W
  <2>3. /\ At(ref, m - 1).leaf /\ At(ref, m - 1).index = m - 1
        /\ ElementsAt(p, At(ref, m - 1)) = s
    BY <1>2, AtFacts
  <2>4. Last(g[m - 1]) = At(ref, m - 1)
    BY <2>2, <2>3, OneLeaf
  <2> QED
    BY <2>1, <2>3, <2>4 DEF Current
<1> QED
  BY <1>4, <1>12, <1>13

\* Whatever is put, removed, created and spilled: Bucket::get finds every key of
\* every bucket and nothing else, Bucket::for_each visits every key once, in order,
\* unless the bucket's page_ points to freed memory.  This needs that commits do
\* not split: what Node::spill makes of the pieces cannot be searched.
THEOREM ReadsHold == Spec /\ []NothingSplits => []ReadsAgree
<1>1. TreeInv /\ AllLeaf => ReadsAgree
  <2> SUFFICES ASSUME TreeInv, AllLeaf, mode \in {"ro", "rw"}, NEW p \in DOMAIN opened,
                      p \in {b.path : b \in Working}, ~Dangles(p), NEW bytes \in Bytes(p)
               PROVE  LET E == {e \in Entries(Working) : e.path = p}
                          plain == {e \in E : e.len # SubBucket}
                          visited == forEach(p, bytes)
                      IN  /\ \A k \in Keys, i \in Routes(p) :
                               ToSet(get(p, k, bytes, i)) = {e.len : e \in {e \in plain : e.key = k}}
                          /\ ToSet(visited) = {e.key : e \in E}
                          /\ \A i, j \in DOMAIN visited : i < j => visited[i] < visited[j]
    BY Zenon DEF ReadsAgree, ReadsRight, OpenBuckets
  <2>0. ObjectsAreBuckets /\ ObjectsHaveRoots /\ PagesHoldLists
    BY DEF TreeInv
  <2>1. IsLeaf(p)
    <3>1. opened[p].root \in PageIds \cup {0}
      BY <2>0 DEF ObjectsAreBuckets, Objects
    <3>2. opened[p].root # 0 => pages[opened[p].root].leaf = TRUE
      BY <2>0, <3>1 DEF AllLeaf, PagesHoldLists
    <3> QED
      BY <3>2 DEF IsLeaf, PageNode, Page
  <2>2. PICK s : s = ListOf(p)
    OBVIOUS
  <2>3. Inodes(p, bytes) = s /\ LeafList(s)
    <3>1. opened[p].hasNode \/ bytes = opened[p].page
      BY DEF Bytes, Dangles
    <3>2. Inodes(p, bytes) = ListOf(p)
      BY <3>1 DEF Inodes, ListOf
    <3> QED
      BY <2>1, <2>2, <3>2, ListOfFacts
  <2> DEFINE E == {e \in Entries(Working) : e.path = p}
             plain == {e \in E : e.len # SubBucket}
             visited == forEach(p, bytes)
  <2>4. E = {EntryOf(p, i) : i \in ToSet(s)}
    BY <2>1, <2>2, EntriesOf
  <2>5. ASSUME NEW x \in ToSet(s)
        PROVE  /\ EntryOf(p, x).key = x.key /\ x.key \in Int
               /\ EntryOf(p, x).len # SubBucket <=> ~IsBucketInode(x)
               /\ ~IsBucketInode(x) => EntryOf(p, x).len = x.value.len
    <3>1. x \in LeafInodes
      BY <2>3, ListFacts
    <3>2. x.key \in Int /\ (~IsBucketInode(x) => x.value.len \in Nat)
      BY <3>1, LeafFacts, KeyFacts DEF Sized
    <3> QED
      BY <3>2 DEF EntryOf, SubBucket
  <2> HIDE DEF E
  <2>6. ASSUME NEW k \in Keys, NEW i \in Routes(p)
        PROVE  ToSet(get(p, k, bytes, i)) = {e.len : e \in {e \in plain : e.key = k}}
    <3>1. ToSet(get(p, k, bytes, i)) =
            {x.value.len : x \in {x \in ToSet(s) : x.key = k /\ ~IsBucketInode(x)}}
      BY <2>1, <2>3, GetFinds
    <3>2. ASSUME NEW y \in {x.value.len : x \in {x \in ToSet(s) : x.key = k /\ ~IsBucketInode(x)}}
          PROVE  y \in {e.len : e \in {e \in plain : e.key = k}}
      <4>1. PICK x \in ToSet(s) : x.key = k /\ ~IsBucketInode(x) /\ y = x.value.len
        BY <3>2
      <4>2. EntryOf(p, x) \in plain /\ EntryOf(p, x).key = k /\ EntryOf(p, x).len = y
        BY <2>4, <2>5, <4>1
      <4> QED
        BY <4>2
    <3>3. ASSUME NEW y \in {e.len : e \in {e \in plain : e.key = k}}
          PROVE  y \in {x.value.len : x \in {x \in ToSet(s) : x.key = k /\ ~IsBucketInode(x)}}
      <4>1. PICK e \in plain : e.key = k /\ y = e.len
        BY <3>3
      <4>2. PICK x \in ToSet(s) : e = EntryOf(p, x)
        BY <2>4, <4>1
      <4>3. x.key = k /\ ~IsBucketInode(x) /\ y = x.value.len
        BY <2>5, <4>1, <4>2
      <4> QED
        BY <4>3
    <3> QED
      BY <3>1, <3>2, <3>3
  <2>7. visited = [m \in 1 .. Len(s) |-> s[m].key]
    BY <2>1, <2>3, ForEachVisits
  <2>8. ToSet(s) = {s[m] : m \in 1 .. Len(s)} /\ Ordered(s)
    BY <2>3, ListFacts, ToSetFacts
  <2> HIDE DEF visited
  <2>9. ToSet(visited) = {e.key : e \in E}
    <3>1. ToSet(visited) = {s[m].key : m \in 1 .. Len(s)}
      BY <2>7 DEF ToSet
    <3>2. ASSUME NEW m \in 1 .. Len(s) PROVE s[m].key \in {e.key : e \in E}
      <4>1. s[m] \in ToSet(s)
        BY <2>8
      <4>2. EntryOf(p, s[m]) \in E /\ EntryOf(p, s[m]).key = s[m].key
        BY <2>4, <2>5, <4>1
      <4> QED
        BY <4>2
    <3>3. ASSUME NEW e \in E PROVE e.key \in {s[m].key : m \in 1 .. Len(s)}
      <4>1. PICK x \in ToSet(s) : e = EntryOf(p, x)
        BY <2>4
      <4>2. PICK m \in 1 .. Len(s) : x = s[m]
        BY <2>8
      <4> QED
        BY <2>5, <4>1, <4>2
    <3> QED
      BY <3>1, <3>2, <3>3
  <2>10. \A i, j \in DOMAIN visited : i < j => visited[i] < visited[j]
    BY <2>7, <2>8 DEF Ordered
  <2> QED
    BY <2>6, <2>9, <2>10, Zenon DEF E, visited
<1> QED
  BY <1>1, TreeHolds, LeavesHold, PTL

---------------------------------------------------------------------------
(* All entries at once.  Without branch pages the tree can be read without *)
(* following it: every page in use, every object and every inline bucket   *)
(* in one of them is a bucket, and there are no others.                    *)

\* Element i is in the list of bucket p: the object's, if p is in D, or that of
\* its page.
InList(D, p, i) ==
  \/ p \in D /\ i \in ToSet(ListOf(p))
  \/ p \notin D /\ \E u \in used : pages[u].of = p /\ i \in ToSet(pages[u].inodes)

\* Element j is in the inline bucket named k in bucket p.
InInline(D, p, k, j) ==
  /\ Append(p, k) \notin D
  /\ \E i \in LeafInodes :
       /\ InList(D, p, i) /\ IsBucketInode(i) /\ i.key = k
       /\ i.value.root = 0 /\ j \in ToSet(i.value.page)

\* Entry e is one of these.
Reaches(D, e) ==
  \E p \in Seq(Names) :
    \/ \E i \in LeafInodes : InList(D, p, i) /\ e = EntryOf(p, i)
    \/ \E k \in Names : \E j \in LeafInodes : InInline(D, p, k, j) /\ e = EntryOf(Append(p, k), j)

\* The objects that count: a transaction's, or none.
Counted(D, seen) ==
  \/ ~seen /\ D = {}
  \/ seen /\ D = DOMAIN opened /\ DOMAIN opened # {}

\* Elements of these lists, and where they lead.
LEMMA InListFacts ==
  ASSUME TreeInv, AllLeaf, NothingLoose, NEW seen \in BOOLEAN, NEW D, Counted(D, seen),
         NEW p, NEW i, InList(D, p, i)
  PROVE  /\ i \in LeafInodes /\ p \in Seq(Names)
         /\ IsBucketInode(i) =>
              /\ Len(p) < MaxDepth /\ i.key \in Names
              /\ Append(p, i.key) \in D \/ RootOf(i.value.root, Append(p, i.key))
<1>0. PagesHoldLists /\ PagesFormTree /\ ObjectsAreBuckets
  BY DEF TreeInv
<1>1. CASE p \in D
  <2>1. p \in DOMAIN opened /\ D = DOMAIN opened /\ i \in ToSet(ListOf(p))
    BY <1>1 DEF Counted, InList
  <2>2. LeafList(ListOf(p)) /\ IsLeaf(p)
    BY <2>1, ObjectsAreLeaves, ListOfFacts
  <2>3. i \in LeafInodes
    BY <2>1, <2>2, ListFacts
  <2>4. p \in Seq(Names)
    BY <1>0, <2>1 DEF ObjectsAreBuckets
  <2>5. IsBucketInode(i) => i \in BucketsIn(ToSet(ListOf(p)))
    BY <2>1 DEF BucketsIn
  <2> QED
    BY <2>1, <2>2, <2>3, <2>4, <2>5, ElementsAreRoots
<1>2. CASE p \notin D
  <2>1. PICK u \in used : pages[u].of = p /\ i \in ToSet(pages[u].inodes)
    BY <1>2 DEF InList
  <2>2. pages[u].leaf /\ u \in PageIds /\ LeafList(pages[u].inodes) /\ p \in Seq(Names)
    BY <1>0, <2>1 DEF PagesHoldLists, AllLeaf
  <2>3. i \in LeafInodes
    BY <2>1, <2>2, ListFacts
  <2>4. IsBucketInode(i) => i \in BucketsIn(ToSet(pages[u].inodes))
    BY <2>1 DEF BucketsIn
  <2>5. IsBucketInode(i) => Len(p) < MaxDepth /\ RootOf(i.value.root, Append(p, i.key))
    BY <1>0, <2>1, <2>2, <2>4 DEF PagesFormTree
  <2> QED
    BY <2>2, <2>3, <2>5, LeafFacts
<1> QED
  BY <1>1, <1>2

\* A bucket, as Buckets(seen) has it.
LEMMA BucketAtFacts ==
  ASSUME TreeInv, AllLeaf, NothingLoose, NEW seen \in BOOLEAN, NEW D, Counted(D, seen), NEW p, NEW v
  PROVE  /\ p \in D => BucketAt(p, v, seen) = [path |-> p, inodes |-> ToSet(ListOf(p))]
         /\ p \notin D => BucketAt(p, v, seen) = [path |-> p, inodes |-> Stored(v)]
<1>1. CASE ~seen
  BY <1>1 DEF Counted, BucketAt
<1>2. CASE seen
  <2>1. D = DOMAIN opened
    BY <1>2 DEF Counted
  <2>2. p \in D => Held(p, v) = ToSet(ListOf(p))
    BY <2>1, ObjectsAreLeaves, HeldFacts
  <2>3. p \notin D => Held(p, v) = Stored(v)
    BY <2>1 DEF Held
  <2> QED
    BY <1>2, <2>2, <2>3 DEF BucketAt
<1> QED
  BY <1>1, <1>2

\* Buckets whose elements are of these lists.
FlatBuckets(D) ==
  {b \in [path : Seq(Names), inodes : SUBSET LeafInodes] :
     \/ \A i \in b.inodes : InList(D, b.path, i)
     \/ \E p \in Seq(Names), k \in Names :
          b.path = Append(p, k) /\ \A j \in b.inodes : InInline(D, p, k, j)}

\* An element of an inline bucket is plain.
LEMMA InInlineFacts ==
  ASSUME NEW D, NEW p, NEW k, NEW j, InInline(D, p, k, j)
  PROVE  j \in PlainInodes /\ j \in LeafInodes /\ ~IsBucketInode(j)
<1>1. PICK i \in LeafInodes : IsBucketInode(i) /\ j \in ToSet(i.value.page)
  BY DEF InInline
<1>2. InlineList(i.value.page)
  BY <1>1, LeafFacts
<1> QED
  BY <1>1, <1>2, InlineFacts, PlainFacts DEF LeafInodes

\* A bucket with a page or an object is one of them, and one that is inline.
LEMMA FlatBucket ==
  ASSUME TreeInv, AllLeaf, NothingLoose, NEW seen \in BOOLEAN, NEW D, Counted(D, seen),
         NEW p \in Seq(Names), NEW v, p \in D \/ (v.root # 0 /\ RootOf(v.root, p))
  PROVE  BucketAt(p, v, seen) \in FlatBuckets(D)
<1> DEFINE b == BucketAt(p, v, seen)
<1>0. PagesHoldLists
  BY DEF TreeInv
<1>1. CASE p \in D
  <2>1. b = [path |-> p, inodes |-> ToSet(ListOf(p))]
    BY <1>1, BucketAtFacts
  <2>2. \A i \in ToSet(ListOf(p)) : InList(D, p, i)
    BY <1>1 DEF InList
  <2>3. \A i \in ToSet(ListOf(p)) : i \in LeafInodes
    BY <2>2, InListFacts
  <2> QED
    BY <2>1, <2>2, <2>3 DEF FlatBuckets
<1>2. CASE p \notin D
  <2>0. v.root \in used /\ pages[v.root].of = p /\ pages[v.root].leaf /\ v.root # 0
    BY <1>0, <1>2 DEF RootOf, PagesHoldLists, AllLeaf
  <2> DEFINE S == ToSet(pages[v.root].inodes)
  <2>1. b = [path |-> p, inodes |-> S]
    <3>1. Stored(v) = S
      BY <2>0 DEF Stored
    <3> QED
      BY <1>2, <3>1, BucketAtFacts
  <2>2. \A i \in S : InList(D, p, i)
    BY <1>2, <2>0 DEF InList
  <2>3. \A i \in S : i \in LeafInodes
    BY <2>2, InListFacts
  <2> QED
    BY <2>1, <2>2, <2>3 DEF FlatBuckets
<1> QED
  BY <1>1, <1>2

\* They are closed.
LEMMA FlatIsClosed ==
  ASSUME TreeInv, AllLeaf, NothingLoose, NEW seen \in BOOLEAN, NEW D, Counted(D, seen)
  PROVE  ClosedBelow(FlatBuckets(D), seen)
<1>0. PagesHoldLists /\ PagesFormTree /\ ObjectsAreBuckets
  BY DEF TreeInv
<1>1. BucketAt(<<>>, HeaderValue(rootPage), seen) \in FlatBuckets(D)
  <2>1. rootPage \in PageIds /\ RootOf(rootPage, <<>>)
    BY <1>0 DEF PagesFormTree, PagesHoldLists
  <2>2. HeaderValue(rootPage).root = rootPage /\ rootPage # 0
    BY <2>1, HeaderValueFacts, BucketAssumption
  <2>3. <<>> \in Seq(Names)
    OBVIOUS
  <2> QED
    BY <2>1, <2>2, <2>3, FlatBucket
<1>2. ASSUME NEW b \in FlatBuckets(D), NEW i \in BucketsIn(b.inodes)
      PROVE  BucketAt(Append(b.path, i.key), i.value, seen) \in FlatBuckets(D)
  <2>1. b.path \in Seq(Names) /\ i \in b.inodes /\ IsBucketInode(i)
    BY <1>2 DEF FlatBuckets, BucketsIn
  <2>2. InList(D, b.path, i)
    <3>1. ASSUME NEW p, NEW k PROVE ~InInline(D, p, k, i)
      BY <2>1, InInlineFacts
    <3> QED
      BY <2>1, <3>1 DEF FlatBuckets
  <2> DEFINE q == Append(b.path, i.key)
  <2>3. /\ i \in LeafInodes /\ i.key \in Names
        /\ q \in D \/ RootOf(i.value.root, q)
    BY <2>1, <2>2, InListFacts
  <2>4. q \in Seq(Names)
    BY <2>1, <2>3, ChildPath
  <2>5. CASE q \in D \/ i.value.root # 0
    <3> HIDE DEF q
    <3>1. BucketAt(q, i.value, seen) \in FlatBuckets(D)
      BY <2>3, <2>4, <2>5, FlatBucket
    <3> QED
      BY <3>1 DEF q
  <2>6. CASE q \notin D /\ i.value.root = 0
    <3> DEFINE S == ToSet(i.value.page)
    <3>1. Stored(i.value) = S
      BY <2>6 DEF Stored
    <3>2. BucketAt(q, i.value, seen) = [path |-> q, inodes |-> S]
      <4> HIDE DEF q, S
      <4> QED
        BY <2>6, <3>1, BucketAtFacts
    <3>3. \A j \in S : InInline(D, b.path, i.key, j)
      BY <2>1, <2>2, <2>3, <2>6 DEF InInline
    <3>4. \A j \in S : j \in LeafInodes
      BY <3>3, InInlineFacts
    <3>5. BucketAt(q, i.value, seen) \in FlatBuckets(D)
      <4> DEFINE c == [path |-> q, inodes |-> S]
      <4> HIDE DEF S
      <4>1. c \in [path : Seq(Names), inodes : SUBSET LeafInodes] /\ c.path = q /\ c.inodes = S
        BY <2>4, <3>4
      <4> HIDE DEF c
      <4> QED
        BY <2>1, <2>3, <3>2, <3>3, <4>1 DEF FlatBuckets, c
    <3> QED
      BY <3>5
  <2> QED
    BY <2>5, <2>6
<1> QED
  BY <1>1, <1>2 DEF ClosedBelow

\* A page in use of a bucket that is not open, and what its element says.
LEMMA PageHasElement ==
  ASSUME TreeInv, AllLeaf, NothingLoose, NEW seen \in BOOLEAN, NEW D, Counted(D, seen),
         NEW u \in used, pages[u].of \notin D, pages[u].of # <<>>
  PROVE  \E i : /\ InList(D, Front(pages[u].of), i) /\ IsBucketInode(i)
                /\ i.key = Last(pages[u].of) /\ i.value.root = u
<1> DEFINE p == Front(pages[u].of)
<1>0. PagesHoldLists /\ PagesFormTree /\ ElementsLead
  BY DEF TreeInv
<1>1. u \in PageIds /\ u # 0 /\ pages[u].of \in Seq(Names)
  BY <1>0, BucketAssumption DEF PagesHoldLists
<1>2. \E i : InList(D, p, i) /\ IsBucketInode(i) /\ i.key = Last(pages[u].of)
  <2>1. CASE p \in D
    <3>1. p \in DOMAIN opened
      BY <2>1 DEF Counted
    <3>2. PICK i \in BucketsIn(ToSet(ListOf(p))) : i.key = Last(pages[u].of)
      BY <1>0, <3>1, ObjectsAreLeaves DEF ElementsLead
    <3> QED
      BY <2>1, <3>2 DEF InList, BucketsIn
  <2>2. CASE p \notin D
    <3>1. PICK w \in used :
            /\ pages[w].of = p
            /\ \E i \in BucketsIn(ToSet(pages[w].inodes)) : i.key = Last(pages[u].of)
      BY <1>0 DEF PagesFormTree
    <3> QED
      BY <2>2, <3>1 DEF InList, BucketsIn
  <2> QED
    BY <2>1, <2>2
<1>3. PICK i : InList(D, p, i) /\ IsBucketInode(i) /\ i.key = Last(pages[u].of)
  BY <1>2
<1>4. i \in LeafInodes /\ (Append(p, i.key) \in D \/ RootOf(i.value.root, Append(p, i.key)))
  BY <1>3, InListFacts
<1>5. Append(p, i.key) = pages[u].of
  BY <1>1, <1>3, ParentPath
<1>6. RootOf(i.value.root, pages[u].of) /\ i.value.root \in PageIds \cup {0}
  BY <1>3, <1>4, <1>5, LeafFacts
<1>7. i.value.root = u
  <2>1. i.value.root = 0 \/ pages[i.value.root].leaf
    BY <1>6 DEF AllLeaf
  <2> QED
    BY <1>6, <2>1 DEF RootOf, Sole
<1> QED
  BY <1>3, <1>7

\* Such a page is among the levels of the transaction's buckets.
LEMMA TxPageIsBucket ==
  ASSUME TreeInv, AllLeaf, NothingLoose, NEW seen \in BOOLEAN \ {FALSE}, NEW D, Counted(D, seen),
         NEW f, Levels(f, seen)
  PROVE  \A u \in used : pages[u].of \notin D =>
           /\ Len(pages[u].of) <= MaxDepth
           /\ [path |-> pages[u].of, inodes |-> ToSet(pages[u].inodes)] \in f[Len(pages[u].of)]
<1>0. PagesHoldLists /\ ObjectsAreBuckets /\ D = DOMAIN opened /\ <<>> \in D
  BY DEF TreeInv, ObjectsAreBuckets, Counted
<1>1. ASSUME NEW u \in used
      PROVE  u \in PageIds /\ u # 0 /\ pages[u].leaf /\ pages[u].of \in Seq(Names)
  BY <1>0, <1>1, BucketAssumption DEF PagesHoldLists, AllLeaf
<1> DEFINE U == {u \in used : pages[u].of \notin D}
           P(u) == /\ Len(pages[u].of) <= MaxDepth
                   /\ [path |-> pages[u].of, inodes |-> ToSet(pages[u].inodes)] \in f[Len(pages[u].of)]
           Q == {u \in U : P(u)}
           rank == [u \in U |-> Len(pages[u].of)]
<1>2. ASSUME NEW u \in U, \A w \in U : rank[w] < rank[u] => w \in Q
      PROVE  P(u)
  <2> DEFINE q == Front(pages[u].of)
             d == Len(pages[u].of)
  <2>1. pages[u].of # <<>> /\ pages[u].of \notin D /\ u \in used
    BY <1>0
  <2>2. PICK i : /\ InList(D, q, i) /\ IsBucketInode(i)
                 /\ i.key = Last(pages[u].of) /\ i.value.root = u
    BY <2>1, PageHasElement
  <2>3. /\ Append(q, i.key) = pages[u].of /\ Len(q) = d - 1 /\ d \in Nat
        /\ Len(q) \in Nat /\ q \in Seq(Names)
    BY <1>1, <2>1, <2>2, ParentPath
  <2>4. Len(q) < MaxDepth
    BY <2>2, InListFacts
  <2>5. \E b : b \in f[Len(q)] /\ b.path = q /\ i \in b.inodes
    <3>1. CASE q \in D
      <4>1. Held(q, 0) = ToSet(ListOf(q))
        BY <1>0, <3>1, ObjectsAreLeaves, HeldFacts
      <4>2. [path |-> q, inodes |-> Held(q, 0)] \in f[Len(q)]
        BY <1>0, <3>1, ObjectIsBucket
      <4>3. i \in ToSet(ListOf(q))
        BY <2>2, <3>1 DEF InList
      <4> DEFINE b == [path |-> q, inodes |-> Held(q, 0)]
      <4>4. b.path = q /\ i \in b.inodes
        BY <4>1, <4>3
      <4> QED
        BY <4>2, <4>4
    <3>2. CASE q \notin D
      <4>1. PICK w \in used : pages[w].of = q /\ i \in ToSet(pages[w].inodes)
        BY <2>2, <3>2 DEF InList
      <4>2. w \in U /\ rank[w] < rank[u]
        BY <2>1, <2>3, <3>2, <4>1
      <4>3. w \in Q
        <5> HIDE DEF rank, Q, U
        <5> QED
          BY <1>2, <4>2
      <4> DEFINE b == [path |-> pages[w].of, inodes |-> ToSet(pages[w].inodes)]
      <4>4. b \in f[Len(q)] /\ b.path = q /\ i \in b.inodes
        BY <4>1, <4>3
      <4> QED
        BY <4>4
    <3> QED
      BY <3>1, <3>2
  <2>6. PICK b : b \in f[d - 1] /\ b.path = q /\ i \in b.inodes
    BY <2>3, <2>5
  <2>7. d \in 1 .. MaxDepth
    BY <2>3, <2>4, BucketAssumption
  <2>8. f[d] = Below(f[d - 1], seen)
    BY <2>7 DEF Levels
  <2>9. BucketAt(Append(b.path, i.key), i.value, seen) \in Below(f[d - 1], seen)
    <3> HIDE DEF d
    <3> QED
      BY <2>2, <2>6 DEF Below
  <2>10. BucketAt(pages[u].of, i.value, seen) = [path |-> pages[u].of, inodes |-> ToSet(pages[u].inodes)]
    <3>1. Stored(i.value) = ToSet(pages[u].inodes)
      BY <1>1, <2>1, <2>2 DEF Stored
    <3> QED
      BY <2>1, <3>1, BucketAtFacts
  <2>11. BucketAt(pages[u].of, i.value, seen) \in f[d]
    <3> HIDE DEF d, q
    <3> QED
      BY <2>3, <2>6, <2>8, <2>9
  <2>12. d <= MaxDepth
    BY <2>7
  <2> QED
    BY <2>10, <2>11, <2>12
<1>3. Progress(U, rank, Q)
  <2>1. rank \in [U -> Nat]
    BY <1>1
  <2> HIDE DEF rank, P
  <2> QED
    BY <1>2, <2>1 DEF Progress
<1>4. U \subseteq Q
  <2> HIDE DEF U, rank, Q
  <2> QED
    BY <1>3, RankInduction
<1> QED
  BY <1>4

\* Element i is in bucket p, at the level of p.
AtLevel(f, p, i) ==
  Len(p) \in 0 .. MaxDepth /\ \E b : b \in f[Len(p)] /\ b.path = p /\ i \in b.inodes

\* So is every list.
LEMMA ListIsBucket ==
  ASSUME TreeInv, AllLeaf, NothingLoose, NEW seen \in BOOLEAN, NEW D, Counted(D, seen),
         NEW f, Levels(f, seen), NEW p, NEW i, InList(D, p, i)
  PROVE  AtLevel(f, p, i)
<1>0. PagesHoldLists /\ ObjectsAreBuckets
  BY DEF TreeInv
<1>1. CASE p \in D
  <2>1. p \in DOMAIN opened /\ seen \in BOOLEAN \ {FALSE} /\ i \in ToSet(ListOf(p))
    BY <1>1 DEF Counted, InList
  <2>2. Held(p, 0) = ToSet(ListOf(p))
    BY <2>1, ObjectsAreLeaves, HeldFacts
  <2> DEFINE b == [path |-> p, inodes |-> Held(p, 0)]
  <2>3. b \in f[Len(p)]
    BY <2>1, ObjectIsBucket
  <2>4. b.path = p /\ i \in b.inodes
    BY <2>1, <2>2
  <2>5. Len(p) \in 0 .. MaxDepth
    BY <1>0, <2>1, BucketAssumption DEF ObjectsAreBuckets
  <2> QED
    BY <2>3, <2>4, <2>5 DEF AtLevel
<1>2. CASE p \notin D
  <2>1. PICK u \in used : pages[u].of = p /\ i \in ToSet(pages[u].inodes)
    BY <1>2 DEF InList
  <2> DEFINE b == [path |-> p, inodes |-> ToSet(pages[u].inodes)]
  <2>2. b \in f[Len(p)] /\ Len(p) <= MaxDepth
    <3>1. CASE ~seen
      BY <2>1, <3>1, PageIsBucket
    <3>2. CASE seen
      <4>1. seen \in BOOLEAN \ {FALSE}
        BY <3>2
      <4> QED
        BY <1>2, <2>1, <4>1, TxPageIsBucket
    <3> QED
      BY <3>1, <3>2
  <2>3. b.path = p /\ i \in b.inodes
    BY <2>1
  <2>4. Len(p) \in 0 .. MaxDepth
    <3>1. p \in Seq(Names)
      BY <1>0, <2>1 DEF PagesHoldLists
    <3> QED
      BY <2>2, <3>1, BucketAssumption
  <2> QED
    BY <2>2, <2>3, <2>4 DEF AtLevel
<1> QED
  BY <1>1, <1>2

\* The entries of all buckets, without following the tree.
LEMMA FlatEntries ==
  ASSUME TreeInv, AllLeaf, NothingLoose, NEW seen \in BOOLEAN, NEW D, Counted(D, seen), NEW e
  PROVE  e \in Entries(Buckets(seen)) <=> Reaches(D, e)
<1>0. ASSUME NEW q, NEW v, q \notin D
      PROVE  BucketAt(q, v, seen) = [path |-> q, inodes |-> Stored(v)]
  BY <1>0, BucketAtFacts
<1>1. PICK f \in [0 .. MaxDepth -> SUBSET FlatBuckets(D)] :
        Levels(f, seen) /\ Buckets(seen) = UNION {f[d] : d \in 0 .. MaxDepth}
  BY FlatIsClosed, BucketsLevels
<1>2. ASSUME e \in Entries(Buckets(seen)) PROVE Reaches(D, e)
  <2>1. PICK b \in Buckets(seen) : \E i \in b.inodes : e = EntryOf(b.path, i)
    BY <1>2 DEF Entries
  <2>2. PICK i \in b.inodes : e = EntryOf(b.path, i)
    BY <2>1
  <2>3. b \in FlatBuckets(D)
    BY <1>1
  <2>4. b.path \in Seq(Names) /\ i \in LeafInodes
    BY <2>3 DEF FlatBuckets
  <2>5. CASE InList(D, b.path, i)
    BY <2>2, <2>4, <2>5 DEF Reaches
  <2>6. ASSUME NEW p \in Seq(Names), NEW k \in Names, b.path = Append(p, k), InInline(D, p, k, i)
        PROVE  Reaches(D, e)
    BY <2>2, <2>4, <2>6 DEF Reaches
  <2> QED
    BY <2>3, <2>5, <2>6 DEF FlatBuckets
<1>3. ASSUME NEW b \in Buckets(seen), NEW i \in b.inodes, e = EntryOf(b.path, i)
      PROVE  e \in Entries(Buckets(seen))
  BY <1>3 DEF Entries
<1>4. ASSUME NEW p \in Seq(Names), NEW i \in LeafInodes, InList(D, p, i), e = EntryOf(p, i)
      PROVE  e \in Entries(Buckets(seen))
  <2>0. AtLevel(f, p, i)
    BY <1>1, <1>4, ListIsBucket
  <2>1. PICK b : b \in f[Len(p)] /\ b.path = p /\ i \in b.inodes
    BY <2>0 DEF AtLevel
  <2>2. Len(p) \in 0 .. MaxDepth
    BY <2>0 DEF AtLevel
  <2>3. b \in Buckets(seen)
    BY <1>1, <2>1, <2>2
  <2> QED
    BY <1>3, <1>4, <2>1, <2>3
<1>5. ASSUME NEW p \in Seq(Names), NEW k \in Names, NEW j \in LeafInodes,
             InInline(D, p, k, j), e = EntryOf(Append(p, k), j)
      PROVE  e \in Entries(Buckets(seen))
  <2>1. PICK i \in LeafInodes :
          /\ InList(D, p, i) /\ IsBucketInode(i) /\ i.key = k
          /\ i.value.root = 0 /\ j \in ToSet(i.value.page)
    BY <1>5 DEF InInline
  <2>0. AtLevel(f, p, i)
    BY <1>1, <2>1, ListIsBucket
  <2>2. PICK b : b \in f[Len(p)] /\ b.path = p /\ i \in b.inodes
    BY <2>0 DEF AtLevel
  <2>3. Len(p) \in 0 .. MaxDepth /\ Len(p) < MaxDepth
    BY <2>0, <2>1, InListFacts DEF AtLevel
  <2> DEFINE d == Len(p) + 1
  <2>4. d \in 1 .. MaxDepth /\ d \in 0 .. MaxDepth /\ d - 1 = Len(p)
    BY <2>3, BucketAssumption
  <2>5. f[d] = Below(f[d - 1], seen)
    BY <1>1, <2>4 DEF Levels
  <2>6. b \in f[d - 1]
    BY <2>2, <2>4
  <2> DEFINE c == BucketAt(Append(p, k), i.value, seen)
  <2> HIDE DEF d
  <2>7. c \in Below(f[d - 1], seen)
    BY <2>1, <2>2, <2>6 DEF Below
  <2>8. c \in Buckets(seen)
    BY <1>1, <2>4, <2>5, <2>7
  <2>9. c = [path |-> Append(p, k), inodes |-> ToSet(i.value.page)]
    <3>1. Stored(i.value) = ToSet(i.value.page)
      BY <2>1 DEF Stored
    <3>2. Append(p, k) \notin D
      BY <1>5 DEF InInline
    <3>3. PICK q, v : q = Append(p, k) /\ q \notin D /\ v = i.value
      BY <3>2
    <3>4. BucketAt(q, v, seen) = [path |-> q, inodes |-> Stored(v)]
      BY <1>0, <3>3
    <3> QED
      BY <3>1, <3>3, <3>4
  <2>10. c.path = Append(p, k) /\ j \in c.inodes
    BY <2>1, <2>9
  <2> HIDE DEF c
  <2> QED
    BY <1>3, <1>5, <2>8, <2>10
<1> QED
  BY <1>2, <1>4, <1>5 DEF Reaches

\* What is reached is what Entries finds, in the file and in the transaction.
Views ==
  /\ \A e : e \in Entries(Committed) <=> Reaches({}, e)
  /\ DOMAIN opened # {} =>
       /\ \A e : e \in Entries(Working) <=> Reaches(DOMAIN opened, e)
       /\ \A p \in DOMAIN opened :
            {e \in Entries(Working) : e.path = p} = {EntryOf(p, i) : i \in ToSet(ListOf(p))}
  /\ DOMAIN opened = {} => Entries(Working) = Entries(Committed)

\* This follows from the invariant.
LEMMA ViewsHold == TreeInv /\ AllLeaf /\ NothingLoose => Views
<1> SUFFICES ASSUME TreeInv, AllLeaf, NothingLoose PROVE Views
  OBVIOUS
<1>0. DOMAIN opened # {} <=> mode \in {"ro", "rw", "spill"}
  BY DEF TreeInv, ObjectsAreBuckets
<1>1. \A e : e \in Entries(Committed) <=> Reaches({}, e)
  <2>1. PICK seen \in BOOLEAN : ~seen /\ Committed = Buckets(seen)
    BY Zenon DEF Committed
  <2>2. Counted({}, seen)
    BY <2>1 DEF Counted
  <2> QED
    BY <2>1, <2>2, FlatEntries
<1>2. ASSUME DOMAIN opened # {}
      PROVE  \A e : e \in Entries(Working) <=> Reaches(DOMAIN opened, e)
  <2>1. PICK seen \in BOOLEAN : seen /\ Working = Buckets(seen)
    BY <1>0, <1>2, Zenon DEF Working
  <2>2. Counted(DOMAIN opened, seen)
    BY <1>2, <2>1 DEF Counted
  <2> QED
    BY <2>1, <2>2, FlatEntries
<1>3. ASSUME DOMAIN opened # {}, NEW p \in DOMAIN opened
      PROVE  {e \in Entries(Working) : e.path = p} = {EntryOf(p, i) : i \in ToSet(ListOf(p))}
  <2>1. IsLeaf(p)
    BY <1>3, ObjectsAreLeaves
  <2>2. PICK seen \in BOOLEAN \ {FALSE} : Working = Buckets(seen)
    BY <1>0, <1>3, Zenon DEF Working
  <2>3. PICK f \in [0 .. MaxDepth -> SUBSET TxBuckets(seen)] :
          Levels(f, seen) /\ Buckets(seen) = UNION {f[d] : d \in 0 .. MaxDepth}
    BY TxLevels
  <2>4. [path |-> p, inodes |-> Held(p, 0)] \in f[Len(p)]
    BY <1>3, <2>3, ObjectIsBucket
  <2>5. Len(p) \in 0 .. MaxDepth
    BY <1>3, BucketAssumption DEF TreeInv, ObjectsAreBuckets
  <2>6. [path |-> p, inodes |-> Held(p, 0)] \in Working
    BY <2>2, <2>3, <2>4, <2>5
  <2>7. p \in {b.path : b \in Working}
    BY <2>6
  <2> QED
    BY <1>0, <1>3, <2>1, <2>7, EntriesOf
<1>4. ASSUME DOMAIN opened = {} PROVE Working = Committed
  <2>1. (mode \in {"ro", "rw", "spill"}) = FALSE
    BY <1>0, <1>4
  <2> QED
    BY <2>1, Zenon DEF Working, Committed
<1> QED
  BY <1>1, <1>2, <1>3, <1>4 DEF Views

\* An entry, and the element it is made from.
LEMMA EntryFacts ==
  ASSUME NEW p, NEW i
  PROVE  /\ EntryOf(p, i).path = p /\ EntryOf(p, i).key = i.key
         /\ IsBucketInode(i) => EntryOf(p, i).len = SubBucket
         /\ ~IsBucketInode(i) => EntryOf(p, i).len = i.value.len
         /\ i \in LeafInodes => (EntryOf(p, i).len = SubBucket <=> IsBucketInode(i))
<1>1. i \in LeafInodes /\ ~IsBucketInode(i) => i.value.len \in Nat
  BY LeafFacts DEF Sized
<1> QED
  BY <1>1 DEF EntryOf, SubBucket

\* The file, as it was committed, while its pages in use stay.
LEMMA FileStays ==
  ASSUME Views, Views', used' = used, \A q \in used : pages'[q] = pages[q]
  PROVE  Entries(Committed)' = Entries(Committed)
<1>1. ASSUME NEW p, NEW i PROVE InList({}, p, i)' <=> InList({}, p, i)
  BY <1>1 DEF InList
<1>2. ASSUME NEW p, NEW k, NEW j PROVE InInline({}, p, k, j)' <=> InInline({}, p, k, j)
  BY <1>1 DEF InInline
<1>3. ASSUME NEW e PROVE Reaches({}, e)' <=> Reaches({}, e)
  BY <1>1, <1>2 DEF Reaches
<1>4. ASSUME NEW e PROVE e \in Entries(Committed)' <=> e \in Entries(Committed)
  BY <1>3 DEF Views
<1> QED
  BY <1>4

\* The list of one object changes.
LEMMA OneListChanges ==
  ASSUME Views, Views', used' = used, \A q \in used : pages'[q] = pages[q],
         NEW p \in DOMAIN opened, DOMAIN opened' = DOMAIN opened,
         \A q \in DOMAIN opened \ {p} : ListOf(q)' = ListOf(q),
         \A i : IsBucketInode(i) /\ Append(p, i.key) \notin DOMAIN opened =>
                  (i \in ToSet(ListOf(p))' <=> i \in ToSet(ListOf(p))),
         NEW e, e.path # p
  PROVE  e \in Entries(Working)' <=> e \in Entries(Working)
<1>0. PICK D : D = DOMAIN opened
  OBVIOUS
<1>1. ASSUME NEW q, NEW i, q # p PROVE InList(D, q, i)' <=> InList(D, q, i)
  BY <1>0, <1>1 DEF InList
<1>2. ASSUME NEW i, IsBucketInode(i), Append(p, i.key) \notin D
      PROVE  InList(D, p, i)' <=> InList(D, p, i)
  BY <1>0, <1>2 DEF InList
<1>3. ASSUME NEW q, NEW k, NEW j PROVE InInline(D, q, k, j)' <=> InInline(D, q, k, j)
  <2>1. ASSUME NEW i, IsBucketInode(i), i.key = k, Append(q, k) \notin D
        PROVE  InList(D, q, i)' <=> InList(D, q, i)
    BY <1>1, <1>2, <2>1
  <2> QED
    BY <2>1 DEF InInline
<1>4. Reaches(D, e)' <=> Reaches(D, e)
  <2>1. ASSUME NEW q, NEW i, e = EntryOf(q, i) PROVE q # p
    BY <2>1, EntryFacts
  <2> QED
    BY <1>1, <1>3, <2>1 DEF Reaches
<1> QED
  BY <1>0, <1>4 DEF Views

\* Different buckets have different paths.
LEMMA PathsDiffer ==
  ASSUME NEW p \in Seq(Names), NEW q \in Seq(Names), NEW k \in Names, NEW l \in Names,
         Append(p, k) = Append(q, l)
  PROVE  p = q /\ k = l
  BY ChildPath

\* A transaction begins with what was committed.
LEMMA BeginView ==
  ASSUME TreeInv, AllLeaf, NothingLoose, Views, Views', NEW m \in {"ro", "rw"}, Begin(m)
  PROVE  Entries(Working)' = Entries(Committed)
<1>0. /\ PagesHoldLists /\ PagesFormTree /\ UNCHANGED <<pages, used, rootPage>>
  BY DEF TreeInv, file, Begin
<1> DEFINE b == NewBucket(rootPage, <<>>, FALSE)
<1>1. rootPage \in used /\ rootPage \in PageIds /\ rootPage # 0 /\ RootOf(rootPage, <<>>)
  BY <1>0, BucketAssumption DEF PagesFormTree, PagesHoldLists
<1>2. b.root = rootPage /\ b.hasNode = FALSE
  BY DEF NewBucket
<1> HIDE DEF b
<1>3. DOMAIN opened' = {<<>>} /\ opened'[<<>>] = b
  <2>1. DOMAIN <<>> = {}
    OBVIOUS
  <2> QED
    BY <2>1 DEF Begin, With, b
<1>4. ListOf(<<>>)' = pages[rootPage].inodes
  BY <1>0, <1>1, <1>2, <1>3 DEF ListOf, Inodes, PageNode
<1>5. PICK D : D = {<<>>}
  OBVIOUS
<1>6. \A u \in used : pages[u].of = <<>> <=> u = rootPage
  BY <1>1 DEF RootOf, Sole, AllLeaf
<1>7. ASSUME NEW p, NEW i PROVE InList(D, p, i)' <=> InList({}, p, i)
  <2>1. CASE p = <<>>
    BY <1>0, <1>1, <1>4, <1>5, <1>6, <2>1 DEF InList
  <2>2. CASE p # <<>>
    BY <1>0, <1>5, <2>2 DEF InList
  <2> QED
    BY <2>1, <2>2
<1>8. ASSUME NEW p \in Seq(Names), NEW k \in Names, NEW j
      PROVE  InInline(D, p, k, j)' <=> InInline({}, p, k, j)
  <2>1. Append(p, k) # <<>>
    BY ChildPath
  <2> QED
    BY <1>5, <1>7, <2>1 DEF InInline
<1>9. ASSUME NEW e PROVE Reaches(D, e)' <=> Reaches({}, e)
  BY <1>7, <1>8 DEF Reaches
<1>10. ASSUME NEW e PROVE e \in Entries(Working)' <=> e \in Entries(Committed)
  BY <1>3, <1>5, <1>9 DEF Views
<1> QED
  BY <1>10

\* Opening a bucket is not seen.
LEMMA OpenView ==
  ASSUME TreeInv, AllLeaf, NothingLoose, Views, Views', NEW p \in DOMAIN opened,
         NEW k \in Names, OpenBucket(p, k)
  PROVE  Entries(Working)' = Entries(Working)
<1>0. /\ PagesHoldLists /\ ObjectsAreBuckets /\ UNCHANGED <<pages, used, rootPage>> /\ IsLeaf(p)
  BY ObjectsAreLeaves DEF TreeInv, file, OpenBucket
<1> DEFINE c == Append(p, k)
<1>c. c \notin DOMAIN opened
  BY DEF OpenBucket
<1>b. PICK bytes \in Bytes(p) : \E inode \in Found(p, k, bytes) :
        /\ IsBucketInode(inode)
        /\ opened' = With(opened, c, openBucket(inode.value, opened[p].hasNode))
  BY <1>0 DEF OpenBucket, LeafAt, Found
<1>1. PICK x \in Found(p, k, bytes) :
        /\ IsBucketInode(x)
        /\ opened' = With(opened, c, openBucket(x.value, opened[p].hasNode))
  BY <1>b
<1> DEFINE b == openBucket(x.value, opened[p].hasNode)
<1>2. x \in BucketsIn(ToSet(ListOf(p))) /\ x.key = k
  <2>1. k \in Int
    BY KeyFacts
  <2>2. x \in ToSet(Inodes(p, bytes)) /\ x.key = k
    BY <1>0, <2>1, FoundFacts
  <2>3. BucketsIn(ToSet(Inodes(p, bytes))) = BucketsIn(ToSet(ListOf(p)))
    BY <1>0, ObjectList
  <2> QED
    BY <1>1, <2>2, <2>3 DEF BucketsIn
<1>3. x \in LeafInodes /\ RootOf(x.value.root, c)
  BY <1>0, <1>2, <1>c, ElementsAreRoots
<1>4. x.value.root \in PageIds \cup {0} /\ InlineList(x.value.page)
  BY <1>1, <1>3, LeafFacts
<1>5. p \in Seq(Names) /\ c \in Seq(Names) /\ c # p
  <2>1. p \in Seq(Names)
    BY <1>0 DEF ObjectsAreBuckets
  <2> QED
    BY <1>c, <2>1, ChildPath
<1>6. b.root = x.value.root /\ b.page = x.value.page /\ b.hasNode = FALSE
  BY DEF openBucket, NewBucket
<1> HIDE DEF b, c
<1>7. /\ DOMAIN opened' = DOMAIN opened \cup {c} /\ opened'[c] = b
      /\ \A y \in DOMAIN opened : y # c /\ opened'[y] = opened[y]
  BY <1>1, <1>c DEF With, b
<1>8. ASSUME NEW y \in DOMAIN opened PROVE ListOf(y)' = ListOf(y)
  BY <1>0, <1>7, SameList
<1>9. /\ x.value.root = 0 => ListOf(c)' = x.value.page
      /\ x.value.root # 0 => ListOf(c)' = pages[x.value.root].inodes
  BY <1>0, <1>6, <1>7 DEF ListOf, Inodes, PageNode, Page
<1>10. \A u \in used : pages[u].of = c <=> u = x.value.root
  <2>1. x.value.root = 0 \/ pages[x.value.root].leaf
    BY <1>4 DEF AllLeaf
  <2>2. \A u \in used : u # 0
    BY <1>0, BucketAssumption DEF PagesHoldLists
  <2> QED
    BY <1>3, <2>1, <2>2 DEF RootOf, Sole
<1>11. PICK D, F : D = DOMAIN opened /\ F = DOMAIN opened'
  OBVIOUS
<1>12. ASSUME NEW y, y # c, NEW i PROVE InList(F, y, i)' <=> InList(D, y, i)
  BY <1>0, <1>7, <1>8, <1>11, <1>12 DEF InList
<1>13. ASSUME NEW i PROVE InList(F, c, i)' <=> i \in ToSet(ListOf(c))'
  BY <1>7, <1>11 DEF InList
<1>14. x.value.root # 0 => \A i : InList(F, c, i)' <=> InList(D, c, i)
  <2>1. x.value.root # 0 => x.value.root \in used
    BY <1>3 DEF RootOf
  <2>2. x.value.root # 0 => \A i : InList(D, c, i) <=> i \in ToSet(pages[x.value.root].inodes)
    BY <1>c, <1>10, <1>11, <2>1 DEF InList
  <2> QED
    BY <1>9, <1>13, <2>2
<1>15. x.value.root = 0 =>
         /\ \A i : InList(F, c, i)' <=> i \in ToSet(x.value.page)
         /\ \A i : ~InList(D, c, i)
         /\ \A i \in ToSet(x.value.page) : i \in LeafInodes /\ ~IsBucketInode(i)
  <2>1. \A i \in ToSet(x.value.page) : i \in LeafInodes /\ ~IsBucketInode(i)
    BY <1>4, InlineFacts, PlainFacts DEF LeafInodes
  <2>2. x.value.root = 0 => \A i : ~InList(D, c, i)
    <3>1. \A u \in used : u # 0
      BY <1>0, BucketAssumption DEF PagesHoldLists
    <3> QED
      BY <1>c, <1>10, <1>11, <3>1 DEF InList
  <2> QED
    BY <1>9, <1>13, <2>1, <2>2
<1>16. \A j : InInline(D, p, k, j) <=> x.value.root = 0 /\ j \in ToSet(x.value.page)
  <2>1. \A i : InList(D, p, i) <=> i \in ToSet(ListOf(p))
    BY <1>11 DEF InList
  <2>2. LeafList(ListOf(p))
    BY <1>0, ListOfFacts
  <2>3. \A i \in ToSet(ListOf(p)) : i.key = k => i = x
    BY <1>2, <2>2, ListFacts DEF BucketsIn
  <2>4. InList(D, p, x)
    BY <1>2, <2>1 DEF BucketsIn
  <2>5. Append(p, k) \notin D
    BY <1>c, <1>11 DEF c
  <2>6. ASSUME NEW j, InInline(D, p, k, j) PROVE x.value.root = 0 /\ j \in ToSet(x.value.page)
    <3>1. PICK i \in LeafInodes : /\ InList(D, p, i) /\ i.key = k
                                  /\ i.value.root = 0 /\ j \in ToSet(i.value.page)
      BY <2>6 DEF InInline
    <3> QED
      BY <2>1, <2>3, <3>1
  <2>7. ASSUME NEW j, x.value.root = 0, j \in ToSet(x.value.page) PROVE InInline(D, p, k, j)
    BY <1>1, <1>2, <1>3, <2>4, <2>5, <2>7 DEF InInline
  <2> QED
    BY <2>6, <2>7
<1>17. ASSUME NEW q \in Seq(Names), NEW l \in Names, NEW j, Append(q, l) # c
       PROVE  InInline(F, q, l, j)' <=> InInline(D, q, l, j)
  <2>1. ASSUME NEW i, IsBucketInode(i) PROVE InList(F, q, i)' <=> InList(D, q, i)
    BY <1>12, <1>14, <1>15, <2>1
  <2>2. Append(q, l) \in F <=> Append(q, l) \in D
    BY <1>7, <1>11, <1>17
  <2> QED
    BY <2>1, <2>2 DEF InInline
<1>18. ASSUME NEW e, Reaches(F, e)' PROVE Reaches(D, e)
  <2>1. ASSUME NEW q \in Seq(Names), NEW i \in LeafInodes, InList(F, q, i)', e = EntryOf(q, i)
        PROVE  Reaches(D, e)
    <3>1. CASE InList(D, q, i)
      BY <2>1, <3>1 DEF Reaches
    <3>2. CASE ~InList(D, q, i)
      <4>1. q = c /\ x.value.root = 0 /\ i \in ToSet(x.value.page)
        BY <1>12, <1>14, <1>15, <2>1, <3>2
      <4>2. InInline(D, p, k, i)
        BY <1>16, <4>1
      <4>3. e = EntryOf(Append(p, k), i)
        BY <2>1, <4>1 DEF c
      <4> QED
        BY <1>5, <2>1, <4>2, <4>3 DEF Reaches
    <3> QED
      BY <3>1, <3>2
  <2>2. ASSUME NEW q \in Seq(Names), NEW l \in Names, NEW j \in LeafInodes,
               InInline(F, q, l, j)', e = EntryOf(Append(q, l), j)
        PROVE  Reaches(D, e)
    <3>1. Append(q, l) # c
      BY <1>7, <1>11, <2>2 DEF InInline
    <3>2. InInline(D, q, l, j)
      BY <1>17, <2>2, <3>1
    <3> QED
      BY <2>2, <3>2 DEF Reaches
  <2> QED
    BY <1>18, <2>1, <2>2 DEF Reaches
<1>19. ASSUME NEW e, Reaches(D, e) PROVE Reaches(F, e)'
  <2>1. ASSUME NEW q \in Seq(Names), NEW i \in LeafInodes, InList(D, q, i), e = EntryOf(q, i)
        PROVE  Reaches(F, e)'
    <3>1. InList(F, q, i)'
      BY <1>12, <1>14, <1>15, <2>1
    <3> QED
      BY <2>1, <3>1 DEF Reaches
  <2>2. ASSUME NEW q \in Seq(Names), NEW l \in Names, NEW j \in LeafInodes,
               InInline(D, q, l, j), e = EntryOf(Append(q, l), j)
        PROVE  Reaches(F, e)'
    <3>1. CASE Append(q, l) = c
      <4>1. q = p /\ l = k
        BY <1>5, <3>1, PathsDiffer DEF c
      <4>2. x.value.root = 0 /\ j \in ToSet(x.value.page)
        BY <1>16, <2>2, <4>1
      <4>3. InList(F, c, j)'
        BY <1>15, <4>2
      <4> QED
        BY <1>5, <2>2, <3>1, <4>3 DEF Reaches
    <3>2. CASE Append(q, l) # c
      <4>1. InInline(F, q, l, j)'
        BY <1>17, <2>2, <3>2
      <4> QED
        BY <2>2, <4>1 DEF Reaches
    <3> QED
      BY <3>1, <3>2
  <2> QED
    BY <1>19, <2>1, <2>2 DEF Reaches
<1>20. ASSUME NEW e PROVE e \in Entries(Working)' <=> e \in Entries(Working)
  BY <1>7, <1>11, <1>18, <1>19 DEF Views
<1> QED
  BY <1>20

\* What creating a bucket does to the objects.
Created(p, k, old, x) ==
  opened' = With([opened EXCEPT ![p] = WithNode(@, old, put(old, k, x))],
                 Append(p, k),
                 IF Append(p, k) \in DOMAIN opened THEN opened[Append(p, k)]
                 ELSE openBucket(InlineValue(<<>>), TRUE))

\* What it does to the entries, and to the list of its parent.
CreatedView(p, k, old, x) ==
  /\ \A e : e.path # p => (e \in Entries(Working)' <=> e \in Entries(Working))
  /\ DOMAIN opened' = DOMAIN opened \cup {Append(p, k)} /\ Append(p, k) \notin DOMAIN opened
  /\ \A q \in DOMAIN opened : q # p => opened'[q] = opened[q]
  /\ ToSet(ListOf(p))' = ToSet(old) \cup {x} /\ x.key = k /\ IsBucketInode(x)
  /\ \A i \in ToSet(old) : i.key # k
  /\ opened'[p].hasNode /\ opened'[p].node = put(old, k, x)

\* A bucket is created: an element more in its parent, and nothing in it.
LEMMA CreateView ==
  ASSUME TreeInv, AllLeaf, NothingLoose, Views, Views', NEW p \in DOMAIN opened, NEW k \in Names,
         NEW bytes \in Bytes(p), NEW old, old = Inodes(p, bytes),
         NEW x, x = Leaf(k, bucketLeafFlag, InlineValue(<<>>)),
         Found(p, k, bytes) = {}, UNCHANGED <<pages, used, rootPage>>,
         Created(p, k, old, x)
  PROVE  CreatedView(p, k, old, x)
<1>0. /\ ObjectsAreBuckets /\ ElementsLead /\ PagesHoldLists
  BY DEF TreeInv
<1> DEFINE c == Append(p, k)
           value == InlineValue(<<>>)
           o == openBucket(value, TRUE)
           new == put(old, k, x)
           b == WithNode(opened[p], old, new)
<1>v. /\ value.root = 0 /\ value.page = <<>> /\ BucketValue(value)
      /\ value \in [len : Nat, root : PageIds \cup {0}, page : Seq(PlainInodes)]
  BY EmptyInline, InlineValueFacts
<1>10. o.root = 0 /\ o.page = <<>> /\ o.hasNode = FALSE
  BY <1>v DEF openBucket, NewBucket
<1> HIDE DEF value, o
<1>2. LeafList(old) /\ BucketsIn(ToSet(old)) = BucketsIn(ToSet(ListOf(p)))
  BY ObjectList, ObjectsAreLeaves
<1>3. \A i \in ToSet(old) : i.key # k
  <2>1. k \in Int
    BY KeyFacts
  <2> QED
    BY <2>1, FoundFacts, ObjectsAreLeaves
<1>4. /\ LeafList(new) /\ x.key = k /\ x.value = value /\ IsBucketInode(x)
      /\ ToSet(new) = {y \in ToSet(old) : y.key # k} \cup {x}
  BY <1>2, <1>v, PutBucket DEF value
<1>5. ToSet(new) = ToSet(old) \cup {x}
  BY <1>3, <1>4
<1> HIDE DEF new
<1>6. opened[p] \in Objects /\ p \in Seq(Names)
  BY <1>0 DEF ObjectsAreBuckets
<1>7. Noded(b, opened[p], new)
  BY <1>6, WithNodeFacts
<1>8. b.hasNode = TRUE /\ b.node = new
  BY <1>7 DEF Noded
<1>9. c \in Seq(Names) /\ c # <<>> /\ Front(c) = p /\ Last(c) = k
  BY <1>6, ChildPath
<1>k. \A i \in BucketsIn(ToSet(ListOf(p))) : i.key # k
  BY <1>2, <1>3 DEF BucketsIn
<1>c. c \notin DOMAIN opened
  <2> SUFFICES ASSUME c \in DOMAIN opened PROVE FALSE
    OBVIOUS
  <2>1. \E i \in BucketsIn(ToSet(ListOf(p))) : i.key = k
    BY <1>9, ElementOf DEF HasElement
  <2> QED
    BY <1>k, <2>1
<1>u. \A u \in used : pages[u].of # c
  BY <1>0, <1>9, <1>k, ObjectsAreLeaves DEF ElementsLead
<1> HIDE DEF b, c
<1>11. /\ DOMAIN opened' = DOMAIN opened \cup {c} /\ opened'[c] = o /\ opened'[p] = b /\ p # c
       /\ \A y \in DOMAIN opened : y # p => y # c /\ opened'[y] = opened[y]
  <2> DEFINE f == [opened EXCEPT ![p] = b]
  <2>1. DOMAIN f = DOMAIN opened /\ f[p] = b /\ \A y \in DOMAIN opened : y # p => f[y] = opened[y]
    OBVIOUS
  <2>2. opened' = With(f, c, o)
    BY <1>c DEF b, c, o, value, new, Created
  <2> HIDE DEF f
  <2> QED
    BY <1>c, <2>1, <2>2 DEF With
<1>12. ListOf(p)' = new /\ ListOf(c)' = <<>>
  BY <1>8, <1>10, <1>11 DEF ListOf, Inodes, PageNode, Page
<1>13. ASSUME NEW y \in DOMAIN opened, y # p PROVE ListOf(y)' = ListOf(y)
  BY <1>11, <1>13, SameList
<1>14. PICK D, F : D = DOMAIN opened /\ F = DOMAIN opened'
  OBVIOUS
<1>15. ASSUME NEW y, y # p, NEW i PROVE InList(F, y, i)' <=> InList(D, y, i)
  <2>1. CASE y = c
    <3>1. ToSet(<<>>) = {}
      BY DEF ToSet
    <3> QED
      BY <1>c, <1>u, <1>11, <1>12, <1>14, <2>1, <3>1 DEF InList
  <2>2. CASE y # c
    BY <1>11, <1>13, <1>14, <1>15, <2>2 DEF InList
  <2> QED
    BY <2>1, <2>2
<1>16. ASSUME NEW i, IsBucketInode(i), i.key # k PROVE InList(F, p, i)' <=> InList(D, p, i)
  <2>1. InList(F, p, i)' <=> i \in ToSet(new)
    BY <1>11, <1>12, <1>14 DEF InList
  <2>2. InList(D, p, i) <=> i \in ToSet(ListOf(p))
    BY <1>14 DEF InList
  <2> QED
    BY <1>2, <1>4, <1>5, <1>16, <2>1, <2>2 DEF BucketsIn
<1>17. ASSUME NEW i, IsBucketInode(i), i.key = k PROVE ~InList(D, p, i)
  BY <1>k, <1>14, <1>17 DEF InList, BucketsIn
<1>18. ASSUME NEW q \in Seq(Names), NEW l \in Names, NEW j
       PROVE  InInline(F, q, l, j)' <=> InInline(D, q, l, j)
  <2>1. CASE Append(q, l) = c
    <3>1. q = p /\ l = k
      BY <1>6, <2>1, PathsDiffer DEF c
    <3>2. ~InInline(D, q, l, j)
      BY <1>17, <3>1 DEF InInline
    <3>3. ~InInline(F, q, l, j)'
      BY <1>11, <1>14, <2>1 DEF InInline
    <3> QED
      BY <3>2, <3>3
  <2>2. CASE Append(q, l) # c
    <3>1. Append(q, l) \in F <=> Append(q, l) \in D
      BY <1>11, <1>14, <2>2
    <3>2. ASSUME NEW i, IsBucketInode(i), i.key = l PROVE InList(F, q, i)' <=> InList(D, q, i)
      <4>1. q = p => i.key # k
        BY <2>2, <3>2 DEF c
      <4> QED
        BY <1>15, <1>16, <3>2, <4>1
    <3> QED
      BY <3>1, <3>2 DEF InInline
  <2> QED
    BY <2>1, <2>2
<1>19. ASSUME NEW e, e.path # p PROVE e \in Entries(Working)' <=> e \in Entries(Working)
  <2>1. ASSUME NEW q, NEW i, e = EntryOf(q, i) PROVE q # p
    BY <1>19, <2>1, EntryFacts
  <2>2. Reaches(F, e)' <=> Reaches(D, e)
    BY <1>15, <1>18, <2>1 DEF Reaches
  <2> QED
    BY <1>11, <1>14, <2>2 DEF Views
<1> QED
  BY <1>3, <1>4, <1>5, <1>8, <1>11, <1>12, <1>19, <1>c DEF c, new, CreatedView

\* A commit stores what the transaction held, if it does not split.
LEMMA CommitView ==
  ASSUME TreeInv, AllLeaf, NothingLoose, Views, Views', Commit
  PROVE  Entries(Committed)' = Entries(Working)
<1>0. /\ ObjectsAreBuckets /\ ObjectsHaveRoots /\ ElementsLead
      /\ PagesHoldLists /\ PagesFormTree /\ CommitProceeds /\ WrittenHoldNodes
      /\ mode = "spill" /\ todo = {} /\ rootPage' = opened[<<>>].root
      /\ used' = (used \ freed) \cup written
      /\ pages' = [q \in PageIds |-> IF q \in freed THEN Blank ELSE pages[q]]
      /\ DOMAIN opened # {}
  BY DEF TreeInv, Commit, Over, ObjectsAreBuckets
<1>z. /\ 0 \notin PageIds /\ used \subseteq PageIds /\ written \subseteq PageIds
      /\ freed \subseteq used /\ \A q \in written : q \notin used
  BY <1>0, BucketAssumption DEF PagesHoldLists, CommitProceeds
<1>1. \A q \in used' : q \in PageIds /\ q \notin freed /\ pages'[q] = pages[q]
  BY <1>0, <1>z
<1>2. \A y \in DOMAIN opened : Done(y) <=> opened[y].hasNode
  BY <1>0 DEF Done
<1>3. /\ \A q \in freed : pages[q].of \in DOMAIN opened /\ Done(pages[q].of)
      /\ \A y \in DOMAIN opened : Done(y) => \A q \in used : pages[q].of = y => q \in freed
  BY <1>0 DEF CommitProceeds
<1>4. ASSUME NEW q \in written
      PROVE  /\ pages[q].of \in DOMAIN opened /\ Done(pages[q].of)
             /\ q = opened[pages[q].of].root
             /\ ToSet(pages[q].inodes) = ToSet(opened[pages[q].of].node)
  <2> DEFINE y == pages[q].of
  <2>1. /\ y \in DOMAIN opened /\ Done(y) /\ opened[y].root # 0
        /\ ToSet(pages[q].inodes) \subseteq ToSet(opened[y].node)
        /\ q # opened[y].root => ~pages[opened[y].root].leaf
    BY <1>0, <1>z DEF WrittenHoldNodes, AllLeaf
  <2>2. opened[y].root \in written
    BY <1>0, <2>1 DEF ObjectsHaveRoots
  <2>3. q = opened[y].root
    BY <1>z, <2>1, <2>2 DEF AllLeaf
  <2>4. ASSUME NEW i \in ToSet(opened[y].node) PROVE i \in ToSet(pages[q].inodes)
    <3>1. PICK w \in written : pages[w].of = y /\ i \in ToSet(pages[w].inodes)
      BY <1>0, <2>1 DEF CommitProceeds
    <3>2. w # opened[y].root => ~pages[opened[y].root].leaf
      BY <1>0, <1>z, <3>1 DEF WrittenHoldNodes, AllLeaf
    <3>3. w = q
      BY <1>z, <2>2, <2>3, <3>2 DEF AllLeaf
    <3> QED
      BY <3>1, <3>3
  <2> QED
    BY <2>1, <2>3, <2>4
\* The page of an object holds its list.
<1>5. ASSUME NEW q \in used', pages[q].of \in DOMAIN opened
      PROVE  ToSet(pages[q].inodes) = ToSet(ListOf(pages[q].of)) /\ opened[pages[q].of].root # 0
  <2> DEFINE y == pages[q].of
  <2>1. CASE q \in written
    BY <1>2, <1>4, <1>z, <2>1 DEF ListOf, Inodes
  <2>2. CASE q \in used \ freed
    <3>1. ~Done(y)
      BY <1>3, <1>5, <2>2
    <3>2. RootOf(opened[y].root, y) /\ ~opened[y].hasNode
      BY <1>0, <1>2, <1>5, <3>1 DEF ObjectsHaveRoots
    <3>3. opened[y].root \in PageIds \cup {0}
      BY <1>0, <1>5 DEF ObjectsAreBuckets, Objects
    <3>4. q = opened[y].root /\ q # 0
      BY <1>z, <2>2, <3>2, <3>3 DEF RootOf, Sole, AllLeaf
    <3> QED
      BY <3>2, <3>4, ReadList
  <2> QED
    BY <1>0, <2>1, <2>2
\* An object with a page has one in the new file.
<1>6. ASSUME NEW y \in DOMAIN opened, opened[y].root # 0
      PROVE  opened[y].root \in used' /\ pages[opened[y].root].of = y
  <2>1. CASE Done(y)
    BY <1>0, <1>6, <2>1 DEF ObjectsHaveRoots
  <2>2. CASE ~Done(y)
    BY <1>0, <1>6, <2>2 DEF ObjectsHaveRoots, RootOf
  <2> QED
    BY <2>1, <2>2
<1>7. <<>> \in DOMAIN opened /\ opened[<<>>].root # 0
  <2>1. <<>> \in DOMAIN opened
    BY <1>0 DEF ObjectsAreBuckets
  <2>2. Done(<<>>) => opened[<<>>].root \in written
    BY <1>0, <2>1 DEF ObjectsHaveRoots
  <2>3. ~Done(<<>>) => opened[<<>>].root = rootPage /\ rootPage \in used
    BY <1>0, <2>1 DEF ObjectsHaveRoots, PagesFormTree
  <2> QED
    BY <1>z, <2>1, <2>2, <2>3
\* An object without is an inline bucket of one with.
<1>8. ASSUME NEW y \in DOMAIN opened, opened[y].root = 0
      PROVE  /\ y # <<>> /\ y \in Seq(Names) /\ Front(y) \in DOMAIN opened
             /\ opened[Front(y)].root # 0
             /\ BucketsIn(ToSet(ListOf(y))) = {}
             /\ \E i \in BucketsIn(ToSet(ListOf(Front(y)))) :
                  i.key = Last(y) /\ i.value.root = 0 /\ i.value.page = ListOf(y)
  <2>1. y # <<>> /\ y \in Seq(Names)
    BY <1>0, <1>7, <1>8 DEF ObjectsAreBuckets
  <2>2. /\ Front(y) \in DOMAIN opened
        /\ \E i \in BucketsIn(ToSet(ListOf(Front(y)))) :
             /\ i.key = Last(y) /\ i.value.root = 0
             /\ i.value.page = IF Done(y) THEN opened[y].node ELSE opened[y].page
    BY <1>8, <2>1, ElementOf DEF HasElement
  <2>3. (IF Done(y) THEN opened[y].node ELSE opened[y].page) = ListOf(y)
    <3>1. CASE opened[y].hasNode
      BY <1>2, <3>1 DEF ListOf, Inodes
    <3>2. CASE ~opened[y].hasNode
      BY <1>2, <1>8, <3>2, ReadList
    <3> QED
      BY <3>1, <3>2
  <2>4. ASSUME NEW w \in DOMAIN opened, opened[w].root = 0 PROVE BucketsIn(ToSet(ListOf(w))) = {}
    <3>1. CASE opened[w].hasNode
      <4>1. isinlineable(opened[w].node) /\ LeafList(opened[w].node)
        BY <1>0, <1>2, <2>4, <3>1 DEF CommitProceeds, ObjectsAreBuckets
      <4>2. ListOf(w) = opened[w].node
        BY <3>1 DEF ListOf, Inodes
      <4> QED
        BY <4>1, <4>2, SmallIsInline, InlineFacts
    <3>2. CASE ~opened[w].hasNode
      <4>1. ListOf(w) = opened[w].page /\ InlineList(opened[w].page)
        BY <1>0, <2>4, <3>2, ReadList DEF ObjectsAreBuckets
      <4> QED
        BY <4>1, InlineFacts
    <3> QED
      BY <3>1, <3>2
  <2>5. opened[Front(y)].root # 0
    BY <2>2, <2>4
  <2> QED
    BY <1>8, <2>1, <2>2, <2>3, <2>4, <2>5
<1>9. PICK D : D = DOMAIN opened
  OBVIOUS
<1>10. ASSUME NEW p, NEW i
       PROVE  InList({}, p, i)' <=> InList(D, p, i) /\ (p \in D => opened[p].root # 0)
  <2>0. InList({}, p, i)' <=> \E u \in used' : pages[u].of = p /\ i \in ToSet(pages[u].inodes)
    BY <1>1 DEF InList
  <2>1. CASE p \in D
    <3>1. InList(D, p, i) <=> i \in ToSet(ListOf(p))
      BY <2>1 DEF InList
    <3> QED
      BY <1>5, <1>6, <1>9, <2>0, <2>1, <3>1
  <2>2. CASE p \notin D
    <3>1. \A u : pages[u].of = p => (u \in used' <=> u \in used)
      BY <1>0, <1>3, <1>4, <1>9, <2>2
    <3> QED
      BY <2>0, <2>2, <3>1 DEF InList
  <2> QED
    BY <2>1, <2>2
<1>11. ASSUME NEW p \in Seq(Names), NEW k \in Names, NEW j
       PROVE  InInline({}, p, k, j)' <=>
                \/ InInline(D, p, k, j)
                \/ /\ Append(p, k) \in D /\ opened[Append(p, k)].root = 0
                   /\ j \in ToSet(ListOf(Append(p, k)))
  <2> DEFINE c == Append(p, k)
  <2>0. c # <<>> /\ Front(c) = p /\ Last(c) = k
    BY ChildPath
  <2>1. InInline({}, p, k, j)' <=>
          \E i \in LeafInodes : /\ InList({}, p, i)' /\ IsBucketInode(i) /\ i.key = k
                                /\ i.value.root = 0 /\ j \in ToSet(i.value.page)
    BY DEF InInline
  <2>2. CASE c \notin D
    <3>1. ASSUME NEW i, IsBucketInode(i) PROVE InList({}, p, i)' <=> InList(D, p, i)
      <4>1. ASSUME p \in D, opened[p].root = 0 PROVE ~InList(D, p, i)
        BY <1>8, <1>9, <3>1, <4>1 DEF InList, BucketsIn
      <4> QED
        BY <1>10, <4>1
    <3> QED
      BY <2>1, <2>2, <3>1 DEF InInline
  <2>3. CASE c \in D
    <3>1. ~InInline(D, p, k, j)
      BY <2>3 DEF InInline
    <3>2. p \in D /\ IsLeaf(p) /\ LeafList(ListOf(p))
      <4>1. p \in DOMAIN opened
        BY <1>9, <2>0, <2>3, ElementOf
      <4> QED
        BY <1>9, <4>1, ObjectsAreLeaves, ListOfFacts
    <3>3. PICK x \in BucketsIn(ToSet(ListOf(p))) : x.key = k /\ x.value.root = opened[c].root
      BY <1>9, <2>0, <2>3, ElementOf DEF HasElement
    <3>4. /\ x \in ToSet(ListOf(p)) /\ x \in LeafInodes /\ IsBucketInode(x)
          /\ \A i \in ToSet(ListOf(p)) : i.key = k => i = x
      BY <3>2, <3>3, ListFacts DEF BucketsIn
    <3>5. \A i : InList(D, p, i) <=> i \in ToSet(ListOf(p))
      BY <3>2 DEF InList
    <3>6. opened[c].root = 0 => opened[p].root # 0 /\ x.value.page = ListOf(c)
      BY <1>8, <1>9, <2>0, <2>3, <3>3, <3>4 DEF BucketsIn
    <3>7. CASE opened[c].root = 0
      <4>1. \A i : InList({}, p, i)' <=> i \in ToSet(ListOf(p))
        BY <1>10, <3>5, <3>6, <3>7
      <4> QED
        BY <2>1, <2>3, <3>1, <3>3, <3>4, <3>6, <3>7, <4>1
    <3>8. CASE opened[c].root # 0
      <4>1. \A i : InList({}, p, i)' => i \in ToSet(ListOf(p))
        BY <1>10, <3>5
      <4> QED
        BY <2>1, <2>3, <3>1, <3>3, <3>4, <3>8, <4>1
    <3> QED
      BY <3>7, <3>8
  <2> QED
    BY <2>2, <2>3
<1>12. ASSUME NEW e, Reaches({}, e)' PROVE Reaches(D, e)
  <2>1. ASSUME NEW p \in Seq(Names), NEW i \in LeafInodes, InList({}, p, i)', e = EntryOf(p, i)
        PROVE  Reaches(D, e)
    BY <1>10, <2>1 DEF Reaches
  <2>2. ASSUME NEW p \in Seq(Names), NEW k \in Names, NEW j \in LeafInodes,
               InInline({}, p, k, j)', e = EntryOf(Append(p, k), j)
        PROVE  Reaches(D, e)
    <3>1. CASE InInline(D, p, k, j)
      BY <2>2, <3>1 DEF Reaches
    <3>2. CASE Append(p, k) \in D /\ j \in ToSet(ListOf(Append(p, k)))
      <4>1. Append(p, k) \in Seq(Names) /\ InList(D, Append(p, k), j)
        BY <3>2, ChildPath DEF InList
      <4> QED
        BY <2>2, <4>1 DEF Reaches
    <3> QED
      BY <1>11, <2>2, <3>1, <3>2
  <2> QED
    BY <1>12, <2>1, <2>2 DEF Reaches
<1>13. ASSUME NEW e, Reaches(D, e) PROVE Reaches({}, e)'
  <2>1. ASSUME NEW p \in Seq(Names), NEW i \in LeafInodes, InList(D, p, i), e = EntryOf(p, i)
        PROVE  Reaches({}, e)'
    <3>1. CASE p \in D => opened[p].root # 0
      <4>1. InList({}, p, i)'
        BY <1>10, <2>1, <3>1
      <4> QED
        BY <2>1, <4>1 DEF Reaches
    <3>2. CASE p \in D /\ opened[p].root = 0
      <4>1. p # <<>> /\ i \in ToSet(ListOf(p))
        BY <1>8, <1>9, <2>1, <3>2 DEF InList
      <4>2. PICK q \in Seq(Names), k \in Names : p = Append(q, k)
        BY <4>1, ParentPath
      <4>3. InInline({}, q, k, i)'
        BY <1>11, <3>2, <4>1, <4>2
      <4> QED
        BY <2>1, <4>2, <4>3 DEF Reaches
    <3> QED
      BY <3>1, <3>2
  <2>2. ASSUME NEW p \in Seq(Names), NEW k \in Names, NEW j \in LeafInodes,
               InInline(D, p, k, j), e = EntryOf(Append(p, k), j)
        PROVE  Reaches({}, e)'
    <3>1. InInline({}, p, k, j)'
      BY <1>11, <2>2
    <3> QED
      BY <2>2, <3>1 DEF Reaches
  <2> QED
    BY <1>13, <2>1, <2>2 DEF Reaches
<1>14. ASSUME NEW e PROVE e \in Entries(Committed)' <=> e \in Entries(Working)
  BY <1>0, <1>9, <1>12, <1>13 DEF Views
<1> QED
  BY <1>14

---------------------------------------------------------------------------
(* Lists by position.                                                      *)

\* Where a search stops: after the smaller keys.
LEMMA SearchStops ==
  ASSUME NEW s, LeafList(s), NEW k \in Int, NEW n, n = binarySearch(s, k).index
  PROVE  /\ n \in 0 .. Len(s)
         /\ \A j \in 1 .. n : s[j].key < k
         /\ \A j \in n + 1 .. Len(s) : s[j].key >= k
<1>1. s \in Seq(LeafInodes) /\ Ordered(s) /\ Elements(LeafInodes)
  BY LeafFacts DEF LeafList
<1>2. /\ binarySearch(s, k).index \in 0 .. Len(s) /\ binarySearch(s, k).found \in BOOLEAN
      /\ binarySearch(s, k).found =>
           binarySearch(s, k).index < Len(s) /\ s[binarySearch(s, k).index + 1].key = k
      /\ Ordered(s) /\ ~binarySearch(s, k).found =>
                  /\ \A i \in 1 .. binarySearch(s, k).index : s[i].key < k
                  /\ \A i \in binarySearch(s, k).index + 1 .. Len(s) : s[i].key > k
  BY <1>1, SearchFacts
<1>3. PICK f : f = binarySearch(s, k).found
  OBVIOUS
<1>4. /\ n \in 0 .. Len(s) /\ f \in BOOLEAN
      /\ f => n < Len(s) /\ s[n + 1].key = k
      /\ ~f => (\A i \in 1 .. n : s[i].key < k) /\ (\A i \in n + 1 .. Len(s) : s[i].key > k)
  BY <1>1, <1>2, <1>3
<1>5. Len(s) \in Nat /\ \A j \in 1 .. Len(s) : s[j].key \in Int
  BY <1>1 DEF Elements
<1>6. \A i, j \in 1 .. Len(s) : i < j => s[i].key < s[j].key
  BY <1>1 DEF Ordered
<1>7. CASE f
  <2>1. n + 1 \in 1 .. Len(s) /\ s[n + 1].key = k
    BY <1>4, <1>5, <1>7
  <2>0. \A j \in 1 .. n : j \in 1 .. Len(s) /\ j < n + 1
    BY <1>4, <1>5
  <2>2. \A j \in 1 .. n : s[j].key < k
    BY <1>6, <2>0, <2>1
  <2>3. \A j \in n + 1 .. Len(s) : j = n + 1 \/ (j \in 1 .. Len(s) /\ n + 1 < j)
    BY <1>4, <1>5
  <2>4. \A j \in n + 1 .. Len(s) : s[j].key >= k
    BY <1>5, <1>6, <2>1, <2>3
  <2> QED
    BY <1>4, <2>2, <2>4
<1>8. CASE ~f
  <2>1. \A j \in n + 1 .. Len(s) : j \in 1 .. Len(s)
    BY <1>4, <1>5
  <2> QED
    BY <1>4, <1>5, <1>8, <2>1
<1> QED
  BY <1>4, <1>7, <1>8

\* A put to a key that is there keeps the places of all keys, and the list if the
\* element is the same.
LEMMA PutInPlace ==
  ASSUME NEW s, LeafList(s), NEW k, NEW x \in LeafInodes, x.key = k,
         NEW y \in ToSet(s), y.key = k
  PROVE  /\ Len(put(s, k, x)) = Len(s)
         /\ \A j \in 1 .. Len(s) : put(s, k, x)[j].key = s[j].key
         /\ x = y => put(s, k, x) = s
<1> DEFINE at == binarySearch(s, k)
           c == at.index + 1
           t == put(s, k, x)
<1>1. s \in Seq(LeafInodes) /\ Ordered(s) /\ Elements(LeafInodes) /\ Len(s) \in Nat
  BY LeafFacts DEF LeafList
<1>2. k \in Int
  BY <1>1 DEF Elements
<1>3. at.found /\ s[c] \in ToSet(s) /\ s[c].key = k
  BY <1>2, SearchList
<1>4. s[c] = y
  BY <1>3, ListFacts
<1>5. c \in 1 .. Len(s)
  <2>1. /\ binarySearch(s, k).index \in 0 .. Len(s)
        /\ binarySearch(s, k).found => binarySearch(s, k).index < Len(s)
    BY <1>1, <1>2, SearchFacts
  <2>2. at.index \in 0 .. Len(s) /\ at.index < Len(s)
    BY <1>3, <2>1
  <2> QED
    BY <1>1, <2>2
<1>6. t = [s EXCEPT ![c] = x]
  BY <1>3 DEF put, ReplaceAt
<1> HIDE DEF at, c, t
<1>7. Len(t) = Len(s) /\ \A j \in 1 .. Len(s) : t[j] = IF j = c THEN x ELSE s[j]
  BY <1>1, <1>5, <1>6, ExceptSeq
<1>8. x = y => t = s
  BY <1>1, <1>4, <1>5, <1>6
<1> QED
  BY <1>3, <1>4, <1>7, <1>8 DEF t

\* When a put or a removal leaves the list as it is.
LEMMA PutChanges ==
  ASSUME NEW s, LeafList(s), NEW k, NEW x \in LeafInodes, x.key = k
  PROVE  put(s, k, x) = s <=> x \in ToSet(s)
<1>1. x \in ToSet(put(s, k, x))
  BY PutList
<1>2. x \in ToSet(s) => put(s, k, x) = s
  BY PutInPlace
<1> QED
  BY <1>1, <1>2

\* A removal changes a list exactly when it finds the key.
LEMMA DelChanges ==
  ASSUME NEW s, LeafList(s), NEW k \in Int
  PROVE  del(s, k) = s <=> ~\E y \in ToSet(s) : y.key = k
<1>1. ToSet(del(s, k)) = {y \in ToSet(s) : y.key # k}
  BY DelList
<1>2. binarySearch(s, k).found <=> \E y \in ToSet(s) : y.key = k
  BY SearchList
<1>3. ~(\E y \in ToSet(s) : y.key = k) => del(s, k) = s
  BY <1>2 DEF del
<1> QED
  BY <1>1, <1>3

---------------------------------------------------------------------------
(* What the cursor shows.                                                  *)

Where(p, at, k) == [path |-> p, at |-> at, key |-> k]

\* A cursor at index n of list s.
Shown(p, n, s) ==
  IF n < Len(s) THEN Where(p, "at", s[n + 1].key)
  ELSE Where(p, IF Len(s) = 0 THEN "gone" ELSE "end", 0)

\* Where the cursor is, case by case.
CursorShows ==
  /\ ~cursor.on => CursorAt = Where(cursor.path, "none", 0)
  /\ cursor.on /\ ~cursor.fresh => CursorAt = Where(cursor.path, "stale", 0)
  /\ cursor.on /\ cursor.fresh /\ cursor.stack = <<>> => CursorAt = Where(cursor.path, "gone", 0)
  /\ cursor.on /\ cursor.fresh /\ cursor.stack # <<>> =>
       CursorAt = Shown(cursor.path, Last(cursor.stack).index,
                        ElementsAt(cursor.path, Last(cursor.stack)))

\* This is how CursorAt is defined.
LEMMA CursorShown == CursorOK => CursorShows
<1> SUFFICES ASSUME CursorOK PROVE CursorShows
  OBVIOUS
<1>1. cursor.on \in BOOLEAN /\ cursor.fresh \in BOOLEAN
  BY DEF CursorOK
<1>2. ~cursor.on => CursorAt = Where(cursor.path, "none", 0)
  BY <1>1 DEF CursorAt, Where
<1>3. cursor.on /\ ~cursor.fresh => CursorAt = Where(cursor.path, "stale", 0)
  BY <1>1 DEF CursorAt, Where
<1>4. cursor.on /\ cursor.fresh /\ cursor.stack = <<>> => CursorAt = Where(cursor.path, "gone", 0)
  BY <1>1 DEF CursorAt, Where
<1>5. cursor.on /\ cursor.fresh /\ cursor.stack # <<>> =>
        CursorAt = Shown(cursor.path, Last(cursor.stack).index,
                         ElementsAt(cursor.path, Last(cursor.stack)))
  BY <1>1 DEF CursorAt, Where, Shown, InRange, RefCount, Current
<1> QED
  BY <1>2, <1>3, <1>4, <1>5 DEF CursorShows

\* Two lists with the same keys in the same places.
SameKeys(s, t) == Len(s) = Len(t) /\ \A j \in 1 .. Len(s) : t[j].key = s[j].key

\* They look the same to a cursor.
LEMMA SameShown ==
  ASSUME NEW p, NEW n \in Nat, NEW s, NEW t, Len(s) \in Nat, SameKeys(s, t)
  PROVE  Shown(p, n, s) = Shown(p, n, t)
<1>1. CASE n < Len(s)
  <2>1. n + 1 \in 1 .. Len(s)
    BY <1>1
  <2> QED
    BY <1>1, <2>1 DEF SameKeys, Shown
<1>2. CASE ~(n < Len(s))
  BY <1>2 DEF SameKeys, Shown
<1> QED
  BY <1>1, <1>2

\* The top of a cursor's stack.
LEMMA CursorTop ==
  ASSUME TreeInv, CursorOK, cursor.on, cursor.stack # <<>>
  PROVE  /\ Last(cursor.stack) \in Refs /\ Last(cursor.stack).leaf
         /\ RefOK(cursor.path, Last(cursor.stack)) /\ Last(cursor.stack).index \in Nat
         /\ cursor.path \in DOMAIN opened
         /\ LeafList(ElementsAt(cursor.path, Last(cursor.stack)))
         /\ Len(cursor.stack) \in Nat /\ Len(cursor.stack) > 0
         /\ Last(cursor.stack) = cursor.stack[Len(cursor.stack)]
<1> DEFINE p == cursor.path
           s == cursor.stack
<1>1. p \in DOMAIN opened /\ StackOK(p, s)
  BY DEF CursorOK
<1> HIDE DEF p, s
<1>2. s # <<>>
  BY DEF s
<1>3. s \in Seq(Refs) /\ Len(s) \in Nat /\ Len(s) > 0 /\ Len(s) \in 1 .. Len(s)
  BY <1>1, <1>2 DEF StackOK
<1>4. Last(s) = s[Len(s)]
  BY DEF Last
<1>5. Last(s) \in Refs /\ Last(s).leaf /\ RefOK(p, Last(s))
  BY <1>1, <1>3, <1>4 DEF StackOK
<1>6. Last(s).index \in 0 .. IndexMod - 1
  BY <1>5 DEF Refs
<1>7. Last(s).index \in Nat
  BY <1>6, KeyFacts
<1>8. LeafList(ElementsAt(p, Last(s)))
  BY <1>1, <1>5, ElementsOK
<1> QED
  BY <1>1, <1>3, <1>4, <1>5, <1>7, <1>8 DEF p, s

\* A cursor whose list keeps its keys shows the same.
LEMMA CursorStaysThere ==
  ASSUME TreeInv, CursorOK, CursorShows, CursorShows', cursor' = cursor,
         cursor.on /\ cursor.stack # <<>> =>
           SameKeys(ElementsAt(cursor.path, Last(cursor.stack)),
                    ElementsAt(cursor.path, Last(cursor.stack))')
  PROVE  CursorAt' = CursorAt
<1>1. cursor.on \in BOOLEAN /\ cursor.fresh \in BOOLEAN
  BY DEF CursorOK
<1>2. CASE ~cursor.on
  BY <1>2 DEF CursorShows
<1>3. CASE cursor.on /\ ~cursor.fresh
  BY <1>3 DEF CursorShows
<1>4. CASE cursor.on /\ cursor.fresh /\ cursor.stack = <<>>
  BY <1>4 DEF CursorShows
<1>5. CASE cursor.on /\ cursor.fresh /\ cursor.stack # <<>>
  <2> DEFINE s == ElementsAt(cursor.path, Last(cursor.stack))
             t == ElementsAt(cursor.path, Last(cursor.stack))'
             n == Last(cursor.stack).index
  <2>1. n \in Nat /\ LeafList(s)
    BY <1>5, CursorTop
  <2>2. CursorAt = Shown(cursor.path, n, s) /\ CursorAt' = Shown(cursor.path, n, t)
    BY <1>5 DEF CursorShows
  <2>3. SameKeys(s, t)
    BY <1>5
  <2> HIDE DEF s, t, n
  <2>4. Len(s) \in Nat
    BY <2>1, ListFacts
  <2> QED
    BY <2>1, <2>2, <2>3, <2>4, SameShown
<1> QED
  BY <1>1, <1>2, <1>3, <1>4, <1>5

---------------------------------------------------------------------------
(* A commit's steps are not seen.                                          *)

\* The entries stay.
LEMMA SpillView ==
  ASSUME TreeInv, AllLeaf, NothingLoose, Views, Views', NEW p, p \in DOMAIN opened, NEW x, Reput(p, x)
  PROVE  Entries(Working)' = Entries(Working)
<1> DEFINE q == IF p = <<>> THEN <<>> ELSE Front(p)
<1>0. /\ used' = used /\ \A u \in used : pages'[u] = pages[u]
      /\ DOMAIN opened' = DOMAIN opened
  BY DEF Reput
<1>1. q \in DOMAIN opened
  BY DEF Reput, TreeInv, ObjectsAreBuckets
<1>2. \A y \in DOMAIN opened \ {q} : ListOf(y)' = ListOf(y)
  BY DEF Reput
<1>3. p = <<>> => ListOf(q)' = ListOf(q)
  BY <1>1 DEF Reput
<1>4. ASSUME p # <<>>
      PROVE  /\ ToSet(ListOf(q))' = {y \in ToSet(ListOf(q)) : y.key # Last(p)} \cup {x}
             /\ x.key = Last(p) /\ IsBucketInode(x) /\ Append(q, Last(p)) \in DOMAIN opened
             /\ \E y \in ToSet(ListOf(q)) : y.key = Last(p) /\ IsBucketInode(y)
             /\ LeafList(ListOf(q))
  <2>1. q = Front(p)
    BY <1>4
  <2> HIDE DEF q
  <2>2. /\ opened'[q].hasNode /\ opened'[q].node = put(ListOf(q), Last(p), x)
        /\ LeafList(ListOf(q)) /\ x \in LeafInodes /\ x.key = Last(p) /\ IsBucketInode(x)
        /\ Append(q, Last(p)) \in DOMAIN opened
        /\ \E y \in ToSet(ListOf(q)) : y.key = Last(p) /\ IsBucketInode(y)
    BY <1>4, <2>1 DEF Reput
  <2>3. ListOf(q)' = put(ListOf(q), Last(p), x)
    BY <2>2 DEF ListOf, Inodes
  <2>4. ToSet(put(ListOf(q), Last(p), x)) = {y \in ToSet(ListOf(q)) : y.key # Last(p)} \cup {x}
    BY <2>2, PutList
  <2> QED
    BY <2>2, <2>3, <2>4
<1> HIDE DEF q
<1>5. \A i : IsBucketInode(i) /\ Append(q, i.key) \notin DOMAIN opened =>
               (i \in ToSet(ListOf(q))' <=> i \in ToSet(ListOf(q)))
  <2>1. CASE p = <<>>
    BY <1>3, <2>1
  <2>2. CASE p # <<>>
    BY <1>4, <2>2
  <2> QED
    BY <2>1, <2>2
<1>6. {EntryOf(q, i) : i \in ToSet(ListOf(q))'} = {EntryOf(q, i) : i \in ToSet(ListOf(q))}
  <2>1. CASE p = <<>>
    BY <1>3, <2>1
  <2>2. CASE p # <<>>
    <3>1. PICK y \in ToSet(ListOf(q)) : y.key = Last(p) /\ IsBucketInode(y)
      BY <1>4, <2>2
    <3>2. EntryOf(q, y) = EntryOf(q, x)
      BY <1>4, <2>2, <3>1 DEF EntryOf
    <3>3. \A z \in ToSet(ListOf(q)) : z.key = Last(p) => z = y
      BY <1>4, <2>2, <3>1, ListFacts
    <3> QED
      BY <1>4, <2>2, <3>1, <3>2, <3>3
  <2> QED
    BY <2>1, <2>2
<1>7. ASSUME NEW e, e.path # q PROVE e \in Entries(Working)' <=> e \in Entries(Working)
  BY <1>0, <1>1, <1>2, <1>5, <1>7, OneListChanges
<1>8. ASSUME NEW e, e.path = q PROVE e \in Entries(Working)' <=> e \in Entries(Working)
  <2>1. /\ {f \in Entries(Working) : f.path = q} = {EntryOf(q, i) : i \in ToSet(ListOf(q))}
        /\ {f \in Entries(Working)' : f.path = q} = {EntryOf(q, i) : i \in ToSet(ListOf(q))'}
    BY <1>0, <1>1 DEF Views
  <2> QED
    BY <1>6, <1>8, <2>1
<1> QED
  BY <1>7, <1>8

\* So does the cursor.
LEMMA SpillShows ==
  ASSUME TreeInv, CursorOK, CursorShows, CursorShows', cursor' = cursor,
         NEW p, p \in DOMAIN opened, NEW x, Reput(p, x)
  PROVE  CursorAt' = CursorAt
<1> SUFFICES ASSUME cursor.on, cursor.stack # <<>>
             PROVE  SameKeys(ElementsAt(cursor.path, Last(cursor.stack)),
                             ElementsAt(cursor.path, Last(cursor.stack))')
  BY CursorStaysThere
<1>0. PICK y, ref : y = cursor.path /\ ref = Last(cursor.stack)
  OBVIOUS
<1>1. /\ y \in DOMAIN opened /\ RefOK(y, ref) /\ LeafList(ElementsAt(y, ref))
  BY <1>0, CursorTop
<1>2. SameKeys(ElementsAt(y, ref), ElementsAt(y, ref)')
  <2>1. CASE ~ref.live
    BY <2>1 DEF ElementsAt, SameKeys
  <2>2. CASE ref.live /\ (p = <<>> \/ y # Front(p))
    <3>1. opened'[y].node = opened[y].node
      BY <1>1, <2>2 DEF Reput
    <3> QED
      BY <2>2, <3>1 DEF ElementsAt, SameKeys
  <2>3. CASE ref.live /\ p # <<>> /\ y = Front(p)
    <3>1. opened[y].hasNode
      BY <1>1, <2>3 DEF RefOK
    <3>2. ListOf(y) = opened[y].node
      BY <3>1 DEF ListOf, Inodes
    <3>3. /\ opened'[y].node = put(ListOf(y), Last(p), x)
          /\ LeafList(ListOf(y)) /\ x \in LeafInodes /\ x.key = Last(p)
          /\ \E z \in ToSet(ListOf(y)) : z.key = Last(p)
      BY <2>3 DEF Reput
    <3>4. /\ Len(put(ListOf(y), Last(p), x)) = Len(ListOf(y))
          /\ \A j \in 1 .. Len(ListOf(y)) : put(ListOf(y), Last(p), x)[j].key = ListOf(y)[j].key
      BY <3>3, PutInPlace
    <3>5. ElementsAt(y, ref) = ListOf(y) /\ ElementsAt(y, ref)' = put(ListOf(y), Last(p), x)
      BY <2>3, <3>2, <3>3 DEF ElementsAt
    <3> QED
      BY <3>4, <3>5 DEF SameKeys
  <2> QED
    BY <2>1, <2>2, <2>3
<1>3. cursor.path' = y /\ Last(cursor.stack)' = ref
  BY <1>0
<1> QED
  BY <1>0, <1>2, <1>3 DEF ElementsAt

---------------------------------------------------------------------------
(* Changes of one bucket.                                                  *)

\* The cursor's place is a record, with the path of its bucket.
LEMMA PlaceFacts ==
  ASSUME CursorOK, CursorShows
  PROVE  /\ CursorAt.path = cursor.path
         /\ CursorAt.at # "none" <=> cursor.on
         /\ CursorAt.at = "stale" <=> cursor.on /\ ~cursor.fresh
         /\ [CursorAt EXCEPT !.at = "stale", !.key = 0] = Where(cursor.path, "stale", 0)
<1>1. cursor.on \in BOOLEAN /\ cursor.fresh \in BOOLEAN
  BY DEF CursorOK
<1>2. \E at, k : /\ CursorAt = Where(cursor.path, at, k)
                 /\ at # "none" <=> cursor.on
                 /\ at = "stale" <=> cursor.on /\ ~cursor.fresh
  <2>1. CASE ~cursor.on
    BY <2>1 DEF CursorShows
  <2>2. CASE cursor.on /\ ~cursor.fresh
    BY <2>2 DEF CursorShows
  <2>3. CASE cursor.on /\ cursor.fresh /\ cursor.stack = <<>>
    BY <2>3 DEF CursorShows
  <2>4. CASE cursor.on /\ cursor.fresh /\ cursor.stack # <<>>
    BY <2>4 DEF CursorShows, Shown
  <2> QED
    BY <1>1, <2>1, <2>2, <2>3, <2>4
<1>3. PICK at, k : /\ CursorAt = Where(cursor.path, at, k)
                   /\ at # "none" <=> cursor.on
                   /\ at = "stale" <=> cursor.on /\ ~cursor.fresh
  BY <1>2
<1>4. PICK c : c = CursorAt
  OBVIOUS
<1>5. c = [path |-> cursor.path, at |-> at, key |-> k]
  BY <1>3, <1>4 DEF Where
<1>6. c.path = cursor.path /\ c.at = at
  BY <1>5
<1>7. [c EXCEPT !.at = "stale", !.key = 0] = [path |-> cursor.path, at |-> "stale", key |-> 0]
  <2>1. PICK d, y : d = [c EXCEPT !.at = "stale", !.key = 0] /\ y = cursor.path
    OBVIOUS
  <2>2. c \in [path : {y}, at : {at, "stale"}, key : {k, 0}]
    BY <1>5, <2>1
  <2>3. d \in [path : {y}, at : {at, "stale"}, key : {k, 0}] /\ d.at = "stale" /\ d.key = 0
    BY <2>1, <2>2
  <2>4. d.path = y
    BY <2>3
  <2>5. d = [path |-> y, at |-> "stale", key |-> 0]
    BY <2>3, <2>4
  <2> QED
    BY <2>1, <2>5
<1> QED
  BY <1>3, <1>4, <1>6, <1>7, Zenon DEF Where

\* The cursor after a change of the list of bucket p.
Touched(p, changed) ==
  CursorAt' = IF CursorAt.at # "none" /\ CursorAt.path = p /\ changed
              THEN [CursorAt EXCEPT !.at = "stale", !.key = 0] ELSE CursorAt

\* A cursor is stale to its user exactly when the list of its bucket has changed.
LEMMA TouchShows ==
  ASSUME TreeInv, CursorOK, CursorShows, CursorShows', NEW p \in DOMAIN opened,
         NEW new, Touch(p, ListOf(p), new),
         \A y \in DOMAIN opened \ {p} : opened'[y] = opened[y], opened'[p].node = new
  PROVE  Touched(p, new # ListOf(p))
<1>1. cursor.on \in BOOLEAN /\ cursor.fresh \in BOOLEAN
  BY DEF CursorOK
<1>2. CASE cursor.on /\ cursor.path = p /\ new # ListOf(p)
  <2>1. cursor'.on = cursor.on /\ cursor'.path = cursor.path /\ ~cursor'.fresh
    BY <1>1, <1>2 DEF Touch, CursorOK
  <2>2. CursorAt' = Where(cursor.path, "stale", 0)
    BY <1>2, <2>1 DEF CursorShows
  <2>3. /\ CursorAt.at # "none" /\ CursorAt.path = p
        /\ [CursorAt EXCEPT !.at = "stale", !.key = 0] = Where(cursor.path, "stale", 0)
    BY <1>2, PlaceFacts
  <2> QED
    BY <1>2, <2>2, <2>3 DEF Touched
<1>3. CASE ~(cursor.on /\ cursor.path = p /\ new # ListOf(p))
  <2>1. cursor' = cursor
    <3>1. (cursor.fresh /\ (cursor.on /\ cursor.path = p => ListOf(p) = new)) = cursor.fresh
      BY <1>1, <1>3
    <3>2. cursor' = [cursor EXCEPT !.fresh = cursor.fresh]
      BY <3>1 DEF Touch
    <3> QED
      BY <3>2 DEF CursorOK
  <2>2. ~(CursorAt.at # "none" /\ CursorAt.path = p /\ new # ListOf(p))
    BY <1>3, PlaceFacts
  <2>3. CursorAt' = CursorAt
    <3> SUFFICES ASSUME cursor.on, cursor.stack # <<>>
                 PROVE  SameKeys(ElementsAt(cursor.path, Last(cursor.stack)),
                                 ElementsAt(cursor.path, Last(cursor.stack))')
      BY <2>1, CursorStaysThere
    <3>0. PICK y, ref : y = cursor.path /\ ref = Last(cursor.stack)
      OBVIOUS
    <3>1. y \in DOMAIN opened /\ RefOK(y, ref)
      BY <3>0, CursorTop
    <3>2. ASSUME ref.live PROVE opened'[y].node = opened[y].node
      <4>1. CASE y # p
        BY <3>1, <4>1
      <4>2. CASE y = p
        <5>1. new = ListOf(p)
          BY <1>3, <3>0, <4>2
        <5>2. opened[p].hasNode
          BY <3>1, <3>2, <4>2 DEF RefOK
        <5> QED
          BY <4>2, <5>1, <5>2 DEF ListOf, Inodes
      <4> QED
        BY <4>1, <4>2
    <3>3. ElementsAt(y, ref)' = ElementsAt(y, ref)
      BY <3>2 DEF ElementsAt
    <3>4. cursor.path' = y /\ Last(cursor.stack)' = ref
      BY <2>1, <3>0
    <3>5. ElementsAt(cursor.path, Last(cursor.stack))' = ElementsAt(cursor.path, Last(cursor.stack))
      BY <3>0, <3>3, <3>4 DEF ElementsAt
    <3> QED
      BY <3>5 DEF SameKeys
  <2> QED
    BY <2>2, <2>3 DEF Touched
<1> QED
  BY <1>2, <1>3

\* The entries after a change of the list of bucket p that leaves its buckets alone.
Rewritten(p, new) ==
  /\ \A e : e.path # p => (e \in Entries(Working)' <=> e \in Entries(Working))
  /\ {e \in Entries(Working)' : e.path = p} = {EntryOf(p, i) : i \in ToSet(new)}
  /\ \A y \in DOMAIN opened \ {p} : opened'[y] = opened[y]
  /\ opened'[p].node = new /\ opened'[p].hasNode /\ DOMAIN opened' = DOMAIN opened

\* What a change of the node of bucket p does to the entries.
LEMMA ModifyView ==
  ASSUME TreeInv, AllLeaf, NothingLoose, Views, Views', NEW p \in DOMAIN opened,
         NEW new, BucketsIn(ToSet(new)) = BucketsIn(ToSet(ListOf(p))), NEW old,
         UNCHANGED <<pages, used>>, opened' = [opened EXCEPT ![p] = WithNode(@, old, new)]
  PROVE  Rewritten(p, new)
<1> DEFINE b == WithNode(opened[p], old, new)
<1>1. opened[p] \in Objects
  BY DEF TreeInv, ObjectsAreBuckets
<1>2. Noded(b, opened[p], new)
  BY <1>1, WithNodeFacts
<1>3. b.hasNode = TRUE /\ b.node = new
  BY <1>2 DEF Noded
<1>4. /\ DOMAIN opened' = DOMAIN opened /\ opened'[p] = b
      /\ \A y \in DOMAIN opened \ {p} : opened'[y] = opened[y]
  OBVIOUS
<1> HIDE DEF b
<1>5. ListOf(p)' = new
  BY <1>3, <1>4 DEF ListOf, Inodes
<1>6. ASSUME NEW y \in DOMAIN opened \ {p} PROVE ListOf(y)' = ListOf(y)
  BY <1>4, SameList
<1>7. \A i : IsBucketInode(i) => (i \in ToSet(ListOf(p))' <=> i \in ToSet(ListOf(p)))
  BY <1>5 DEF BucketsIn
<1>8. ASSUME NEW e, e.path # p PROVE e \in Entries(Working)' <=> e \in Entries(Working)
  BY <1>4, <1>6, <1>7, <1>8, OneListChanges
<1>9. {e \in Entries(Working)' : e.path = p} = {EntryOf(p, i) : i \in ToSet(new)}
  <2>1. {e \in Entries(Working)' : e.path = p} = {EntryOf(p, i) : i \in ToSet(ListOf(p))'}
    BY <1>4 DEF Views
  <2> QED
    BY <1>5, <2>1
<1> QED
  BY <1>3, <1>4, <1>8, <1>9 DEF Rewritten

---------------------------------------------------------------------------
(* The map, read from the lists.                                           *)

\* The entries of a bucket are those of its list.
LEMMA InView ==
  ASSUME TreeInv, AllLeaf, NothingLoose, Views, NEW p \in DOMAIN opened
  PROVE  /\ LeafList(ListOf(p)) /\ IsLeaf(p) /\ p \in Seq(Names)
         /\ Map!In(p) = {EntryOf(p, i) : i \in ToSet(ListOf(p))}
         /\ \A e : e \in Entries(Working) <=>
              (e.path # p /\ e \in Entries(Working)) \/ \E i \in ToSet(ListOf(p)) : e = EntryOf(p, i)
<1>1. IsLeaf(p)
  BY ObjectsAreLeaves
<1>2. LeafList(ListOf(p))
  BY <1>1, ListOfFacts
<1>3. {e \in Entries(Working) : e.path = p} = {EntryOf(p, i) : i \in ToSet(ListOf(p))}
  BY DEF Views
<1>4. Map!In(p) = {EntryOf(p, i) : i \in ToSet(ListOf(p))}
  BY <1>3 DEF Map!In
<1>5. p \in Seq(Names)
  BY DEF TreeInv, ObjectsAreBuckets
<1> QED
  BY <1>1, <1>2, <1>3, <1>4, <1>5

\* The entries of a key.
LEMMA AtView ==
  ASSUME TreeInv, AllLeaf, NothingLoose, Views, NEW p \in DOMAIN opened, NEW k
  PROVE  /\ \A e : e \in Map!At(p, k) <=> \E i \in ToSet(ListOf(p)) : i.key = k /\ e = EntryOf(p, i)
         /\ Map!IsBucket(p, k) <=> \E i \in ToSet(ListOf(p)) : i.key = k /\ IsBucketInode(i)
         /\ Map!Plain(p, k) <=> \E i \in ToSet(ListOf(p)) : i.key = k /\ ~IsBucketInode(i)
<1>1. Map!In(p) = {EntryOf(p, i) : i \in ToSet(ListOf(p))}
  BY InView
<1>2. \A i \in ToSet(ListOf(p)) : i \in LeafInodes
  BY InView, ListFacts
<1>3. \A i \in ToSet(ListOf(p)) :
        EntryOf(p, i).key = i.key /\ (EntryOf(p, i).len = SubBucket <=> IsBucketInode(i))
  BY <1>2, EntryFacts
<1>4. \A e : e \in Map!At(p, k) <=> \E i \in ToSet(ListOf(p)) : i.key = k /\ e = EntryOf(p, i)
  BY <1>1, <1>3 DEF Map!At
<1>5. Map!IsBucket(p, k) <=> \E i \in ToSet(ListOf(p)) : i.key = k /\ IsBucketInode(i)
  BY <1>3, <1>4 DEF Map!IsBucket
<1>6. Map!Plain(p, k) <=> \E i \in ToSet(ListOf(p)) : i.key = k /\ ~IsBucketInode(i)
  BY <1>3, <1>4 DEF Map!Plain
<1> QED
  BY <1>4, <1>5, <1>6

\* A bucket a transaction has opened is one of the map's.
LEMMA PathView ==
  ASSUME TreeInv, AllLeaf, NothingLoose, Views, NEW p \in DOMAIN opened
  PROVE  p \in Map!Paths
<1>1. CASE p = <<>>
  BY <1>1 DEF Map!Paths
<1>2. CASE p # <<>>
  <2>1. p \in Seq(Names)
    BY DEF TreeInv, ObjectsAreBuckets
  <2>2. Append(Front(p), Last(p)) = p
    BY <1>2, <2>1, ParentPath
  <2>3. PICK q : q = Front(p)
    OBVIOUS
  <2>4. q \in DOMAIN opened /\ \E i \in BucketsIn(ToSet(ListOf(q))) : i.key = Last(p)
    BY <1>2, <2>3, ElementOf DEF HasElement
  <2>5. PICK i \in ToSet(ListOf(q)) : IsBucketInode(i) /\ i.key = Last(p)
    BY <2>4 DEF BucketsIn
  <2>6. EntryOf(q, i) \in Entries(Working)
    BY <2>4, <2>5, InView
  <2>7. EntryOf(q, i).path = q /\ EntryOf(q, i).key = Last(p) /\ EntryOf(q, i).len = SubBucket
    BY <2>5, EntryFacts
  <2>8. Append(EntryOf(q, i).path, EntryOf(q, i).key) = p
    BY <2>2, <2>3, <2>7
  <2> QED
    BY <2>6, <2>7, <2>8 DEF Map!Paths
<1> QED
  BY <1>1, <1>2

\* Memory that keeps its bytes reads as it was written.
LEMMA NoReuse ==
  ASSUME BytesKept, NEW p \in DOMAIN opened, NEW bytes \in Bytes(p)
  PROVE  Inodes(p, bytes) = ListOf(p)
<1>1. CASE opened[p].hasNode
  BY <1>1 DEF ListOf, Inodes
<1>2. CASE ~opened[p].hasNode
  <2>1. bytes = opened[p].page
    BY <1>2 DEF BytesKept, Dangles, Bytes
  <2> QED
    BY <2>1 DEF ListOf
<1> QED
  BY <1>1, <1>2

\* Bucket::put.
LEMMA PutView ==
  ASSUME TreeInv, AllLeaf, NothingLoose, Views,
         NEW p \in DOMAIN opened, NEW k \in Keys, NEW len \in Lens,
         NEW x, x = Leaf(k, valueLeafFlag, PlainValue(len)),
         Rewritten(p, put(ListOf(p), k, x)),
         ~\E i \in ToSet(ListOf(p)) : i.key = k /\ IsBucketInode(i)
  PROVE  /\ Entries(Working)' = (Entries(Working) \ Map!At(p, k)) \cup {Map!Entry(p, k, len)}
         /\ put(ListOf(p), k, x) # ListOf(p) <=> Entries(Working)' # Entries(Working)
<1> DEFINE s == ListOf(p)
           new == put(s, k, x)
           W == Entries(Working)
           V == Entries(Working)'
<1>1. x \in LeafInodes /\ ~IsBucketInode(x) /\ x.key = k
  BY MadeFacts
<1>2. x = [key |-> k, flag |-> valueLeafFlag, value |-> PlainValue(len), pageId |-> 0]
  BY DEF Leaf
<1>3. EntryOf(p, x) = Map!Entry(p, k, len)
  <2>1. x.value.len = len
    BY <1>2 DEF PlainValue
  <2> QED
    BY <1>1, <2>1 DEF EntryOf, Map!Entry
<1>4. LeafList(s)
  BY InView
<1>5. ToSet(new) = {y \in ToSet(s) : y.key # k} \cup {x}
  BY <1>1, <1>4, PutList
<1>6. new = s <=> x \in ToSet(s)
  BY <1>1, <1>4, PutChanges
<1>7. \A e : e \in W <=> (e.path # p /\ e \in W) \/ \E i \in ToSet(s) : e = EntryOf(p, i)
  BY InView
<1>8. \A e : e \in V <=> (e.path # p /\ e \in W) \/ \E i \in ToSet(new) : e = EntryOf(p, i)
  BY EntryFacts DEF Rewritten
<1>9. \A e : e \in Map!At(p, k) <=> \E i \in ToSet(s) : i.key = k /\ e = EntryOf(p, i)
  BY AtView
<1>10. \A y \in ToSet(s) : y.key = k => ~IsBucketInode(y) /\ y \in LeafInodes
  BY <1>4, ListFacts
<1> HIDE DEF s, new, W, V
<1>11. V = (W \ Map!At(p, k)) \cup {Map!Entry(p, k, len)}
  <2>1. \A i : EntryOf(p, i).path = p /\ EntryOf(p, i).key = i.key
    BY EntryFacts
  <2>2. ASSUME NEW e \in V PROVE e \in (W \ Map!At(p, k)) \cup {Map!Entry(p, k, len)}
    <3>1. CASE e.path # p /\ e \in W
      BY <1>9, <2>1, <3>1
    <3>2. CASE \E i \in ToSet(new) : e = EntryOf(p, i)
      <4>1. PICK i \in ToSet(new) : e = EntryOf(p, i)
        BY <3>2
      <4>2. CASE i = x
        BY <1>3, <4>1, <4>2
      <4>3. CASE i \in ToSet(s) /\ i.key # k
        BY <1>7, <1>9, <2>1, <4>1, <4>3
      <4> QED
        BY <1>5, <4>2, <4>3
    <3> QED
      BY <1>8, <3>1, <3>2
  <2>3. Map!Entry(p, k, len) \in V
    BY <1>3, <1>5, <1>8
  <2>4. ASSUME NEW e \in W, e \notin Map!At(p, k) PROVE e \in V
    <3>1. CASE e.path # p
      BY <1>8, <3>1
    <3>2. CASE e.path = p
      <4>1. PICK i \in ToSet(s) : e = EntryOf(p, i)
        BY <1>7, <3>2
      <4>2. i.key # k
        BY <1>9, <2>4, <4>1
      <4> QED
        BY <1>5, <1>8, <4>1, <4>2
    <3> QED
      BY <3>1, <3>2
  <2> QED
    BY <2>2, <2>3, <2>4
<1>12. ASSUME V = W PROVE new = s
  <2>1. PICK i \in ToSet(s) : EntryOf(p, x) = EntryOf(p, i)
    <3>1. EntryOf(p, x) \in W
      BY <1>12, <1>3, <1>11
    <3>2. EntryOf(p, x).path = p
      BY EntryFacts
    <3> QED
      BY <1>7, <3>1, <3>2
  <2>2. i.key = k
    BY <1>1, <2>1, EntryFacts
  <2>3. ~IsBucketInode(i) /\ i \in PlainInodes
    BY <1>10, <2>2, LeafFacts
  <2>4. i.value.len = x.value.len
    BY <1>1, <2>1, <2>3, EntryFacts
  <2>5. x.value.len = len
    BY <1>2 DEF PlainValue
  <2>6. PICK l \in Lens : i = [key |-> i.key, flag |-> valueLeafFlag, value |-> PlainValue(l), pageId |-> 0]
    BY <2>3 DEF PlainInodes
  <2>7. i.value.len = l
    <3>1. i.value = PlainValue(l)
      BY <2>6
    <3> QED
      BY <3>1 DEF PlainValue
  <2>8. i = x
    BY <1>2, <2>2, <2>4, <2>5, <2>6, <2>7
  <2> QED
    BY <1>6, <2>8
<1>13. ASSUME new = s PROVE V = W
  <2>1. \A e : e \in V <=> e \in W
    BY <1>7, <1>8, <1>13
  <2>2. V \subseteq W /\ W \subseteq V
    BY <2>1
  <2> QED
    BY <2>2
<1> QED
  BY <1>11, <1>12, <1>13 DEF s, new, W, V

\* Node::del, for Bucket::remove and Cursor::remove.
LEMMA DelView ==
  ASSUME TreeInv, AllLeaf, NothingLoose, Views, NEW p \in DOMAIN opened, NEW k \in Int,
         Rewritten(p, del(ListOf(p), k))
  PROVE  /\ Entries(Working)' = Entries(Working) \ Map!At(p, k)
         /\ del(ListOf(p), k) # ListOf(p) <=> Entries(Working)' # Entries(Working)
<1> DEFINE s == ListOf(p)
           new == del(s, k)
           W == Entries(Working)
           V == Entries(Working)'
<1>4. LeafList(s)
  BY InView
<1>5. ToSet(new) = {y \in ToSet(s) : y.key # k}
  BY <1>4, DelList
<1>6. new = s <=> ~\E y \in ToSet(s) : y.key = k
  BY <1>4, DelChanges
<1>7. \A e : e \in W <=> (e.path # p /\ e \in W) \/ \E i \in ToSet(s) : e = EntryOf(p, i)
  BY InView
<1>8. \A e : e \in V <=> (e.path # p /\ e \in W) \/ \E i \in ToSet(new) : e = EntryOf(p, i)
  BY EntryFacts DEF Rewritten
<1>9. \A e : e \in Map!At(p, k) <=> \E i \in ToSet(s) : i.key = k /\ e = EntryOf(p, i)
  BY AtView
<1> HIDE DEF s, new, W, V
<1>10. \A i : EntryOf(p, i).path = p /\ EntryOf(p, i).key = i.key
  BY EntryFacts
<1>11. V = W \ Map!At(p, k)
  <2>2. ASSUME NEW e \in V PROVE e \in W \ Map!At(p, k)
    <3>1. CASE e.path # p /\ e \in W
      BY <1>9, <1>10, <3>1
    <3>2. CASE \E i \in ToSet(new) : e = EntryOf(p, i)
      BY <1>5, <1>7, <1>9, <1>10, <3>2
    <3> QED
      BY <1>8, <2>2, <3>1, <3>2
  <2>3. ASSUME NEW e \in W, e \notin Map!At(p, k) PROVE e \in V
    <3>1. CASE e.path # p
      BY <1>8, <3>1
    <3>2. CASE e.path = p
      <4>1. PICK i \in ToSet(s) : e = EntryOf(p, i)
        BY <1>7, <3>2
      <4>2. i.key # k
        BY <1>9, <2>3, <4>1
      <4> QED
        BY <1>5, <1>8, <4>1, <4>2
    <3> QED
      BY <3>1, <3>2
  <2> QED
    BY <2>2, <2>3
<1>12. ASSUME NEW y \in ToSet(s), y.key = k PROVE V # W
  <2>1. EntryOf(p, y) \in Map!At(p, k) /\ EntryOf(p, y) \in W
    BY <1>7, <1>9, <1>12
  <2> QED
    BY <1>11, <2>1
<1>13. ASSUME new = s PROVE V = W
  BY <1>6, <1>9, <1>11, <1>13
<1> QED
  BY <1>6, <1>11, <1>12, <1>13 DEF s, new, W, V

---------------------------------------------------------------------------
(* Every step of a bucket is one of the map, or none.  First, the changes. *)

\* The states of this part: no page has been split.
Seen == TreeInv /\ AllLeaf /\ NothingLoose /\ CursorOK /\ Views /\ CursorShows

\* A change of bucket p.
LEMMA ChangeMaps ==
  ASSUME Seen, Seen', mode = "rw", mode' = mode, used' = used, pages' = pages, NEW p, NEW E,
         NEW changed \in BOOLEAN, Touched(p, changed), Entries(Working)' = E,
         changed <=> E # Entries(Working)
  PROVE  Map!Change(p, E)
<1>1. Entries(Committed)' = Entries(Committed)
  BY FileStays DEF Seen
<1>2. CursorAt' = IF CursorAt.at # "none" /\ CursorAt.path = p /\ E # Entries(Working)
                  THEN [CursorAt EXCEPT !.at = "stale", !.key = 0] ELSE CursorAt
  BY DEF Touched
<1> QED
  BY <1>1, <1>2 DEF Map!Change

\* What a call that changes the list of bucket p does to it and to the cursor.
LEMMA ModifyMaps ==
  ASSUME BytesKept, Seen, Seen', NEW p \in DOMAIN opened, InCall(p, {"rw"}),
         NEW bytes \in Bytes(p), NEW new, LeafList(new),
         BucketsIn(ToSet(new)) = BucketsIn(ToSet(ListOf(p))), Modify(p, bytes, new)
  PROVE  /\ Rewritten(p, new) /\ Touched(p, new # ListOf(p))
         /\ mode = "rw" /\ mode' = mode /\ used' = used /\ pages' = pages
<1>1. Inodes(p, bytes) = ListOf(p)
  BY NoReuse
<1>2. /\ mode = "rw" /\ mode' = mode /\ used' = used /\ pages' = pages
      /\ opened' = [opened EXCEPT ![p] = WithNode(@, ListOf(p), new)]
      /\ Touch(p, ListOf(p), new)
  BY <1>1 DEF InCall, Modify, file
<1>3. Rewritten(p, new)
  BY <1>2, ModifyView DEF Seen
<1>4. Touched(p, new # ListOf(p))
  <2>1. /\ \A y \in DOMAIN opened \ {p} : opened'[y] = opened[y]
        /\ opened'[p].node = new
    BY <1>3 DEF Rewritten
  <2> QED
    BY <1>2, <2>1, TouchShows DEF Seen
<1> QED
  BY <1>2, <1>3, <1>4

\* Bucket::put.
LEMMA PutMaps ==
  ASSUME BytesKept, Seen, Seen', NEW p \in DOMAIN opened, NEW k \in Keys, NEW len \in Lens,
         Put(p, k, len)
  PROVE  Map!Put(p, k, len)
<1>1. PICK bytes \in Bytes(p) :
        /\ ~\E inode \in Found(p, k, bytes) : IsBucketInode(inode)
        /\ Modify(p, bytes, put(Inodes(p, bytes), k, Leaf(k, valueLeafFlag, PlainValue(len))))
  BY DEF Put
<1>2. InCall(p, {"rw"}) /\ call' = [op |-> "Put", path |-> p, key |-> k, len |-> len]
  BY DEF Put, Called
<1>3. /\ Inodes(p, bytes) = ListOf(p) /\ LeafList(ListOf(p)) /\ IsLeaf(p)
  BY NoReuse, InView DEF Seen
<1>4. k \in Int
  BY KeyFacts
<1>5. ~\E i \in ToSet(ListOf(p)) : i.key = k /\ IsBucketInode(i)
  <2>1. Found(p, k, bytes) = {i \in ToSet(ListOf(p)) : i.key = k}
    BY <1>3, <1>4, FoundFacts DEF Seen
  <2> QED
    BY <1>1, <2>1
<1>x. PICK x : x = Leaf(k, valueLeafFlag, PlainValue(len))
  OBVIOUS
<1> DEFINE new == put(ListOf(p), k, x)
<1>6. LeafList(new) /\ BucketsIn(ToSet(new)) = BucketsIn(ToSet(ListOf(p)))
  BY <1>3, <1>5, <1>x, PlainChange DEF BucketsIn
<1>7. Modify(p, bytes, new)
  BY <1>1, <1>3, <1>x
<1>8. /\ Rewritten(p, new) /\ Touched(p, new # ListOf(p))
      /\ mode = "rw" /\ mode' = mode /\ used' = used /\ pages' = pages
  <2> HIDE DEF new
  <2> QED
    BY <1>2, <1>6, <1>7, ModifyMaps
<1>9. /\ Entries(Working)' = (Entries(Working) \ Map!At(p, k)) \cup {Map!Entry(p, k, len)}
      /\ new # ListOf(p) <=> Entries(Working)' # Entries(Working)
  BY <1>5, <1>8, <1>x, PutView DEF Seen
<1>10. Map!Change(p, (Entries(Working) \ Map!At(p, k)) \cup {Map!Entry(p, k, len)})
  <2> HIDE DEF new
  <2>1. PICK c \in BOOLEAN : c = (new # ListOf(p))
    OBVIOUS
  <2>2. Touched(p, c)
    BY <1>8, <2>1
  <2>3. PICK E : E = (Entries(Working) \ Map!At(p, k)) \cup {Map!Entry(p, k, len)}
    OBVIOUS
  <2>4. Map!Change(p, E)
    BY <1>8, <1>9, <2>1, <2>2, <2>3, ChangeMaps
  <2> QED
    BY <2>3, <2>4
<1>11. ~Map!IsBucket(p, k)
  BY <1>5, AtView DEF Seen
<1> QED
  BY <1>2, <1>10, <1>11 DEF Map!Put, Map!Called

\* A removal of a key that is no bucket's.
LEMMA DelMaps ==
  ASSUME BytesKept, Seen, Seen', NEW p \in DOMAIN opened, NEW k \in Int, InCall(p, {"rw"}),
         NEW bytes \in Bytes(p), Modify(p, bytes, del(Inodes(p, bytes), k)),
         ~\E i \in ToSet(ListOf(p)) : i.key = k /\ IsBucketInode(i)
  PROVE  /\ Map!Change(p, Entries(Working) \ Map!At(p, k))
         /\ ~Map!IsBucket(p, k)
<1>3. /\ Inodes(p, bytes) = ListOf(p) /\ LeafList(ListOf(p)) /\ IsLeaf(p)
  BY NoReuse, InView DEF Seen
<1> DEFINE new == del(ListOf(p), k)
<1>6. LeafList(new) /\ BucketsIn(ToSet(new)) = BucketsIn(ToSet(ListOf(p)))
  BY <1>3, PlainChange DEF BucketsIn
<1>7. Modify(p, bytes, new)
  BY <1>3
<1>8. /\ Rewritten(p, new) /\ Touched(p, new # ListOf(p))
      /\ mode = "rw" /\ mode' = mode /\ used' = used /\ pages' = pages
  <2> HIDE DEF new
  <2> QED
    BY <1>6, <1>7, ModifyMaps
<1>9. /\ Entries(Working)' = Entries(Working) \ Map!At(p, k)
      /\ new # ListOf(p) <=> Entries(Working)' # Entries(Working)
  BY <1>8, DelView DEF Seen
<1>10. Map!Change(p, Entries(Working) \ Map!At(p, k))
  <2> HIDE DEF new
  <2>1. PICK c \in BOOLEAN : c = (new # ListOf(p))
    OBVIOUS
  <2>2. Touched(p, c)
    BY <1>8, <2>1
  <2>3. PICK E : E = Entries(Working) \ Map!At(p, k)
    OBVIOUS
  <2>4. Map!Change(p, E)
    BY <1>8, <1>9, <2>1, <2>2, <2>3, ChangeMaps
  <2> QED
    BY <2>3, <2>4
<1>11. ~Map!IsBucket(p, k)
  BY AtView DEF Seen
<1> QED
  BY <1>10, <1>11

\* The element a search stops at.
LEMMA SoughtFacts ==
  ASSUME BytesKept, Seen, NEW p \in DOMAIN opened, NEW k \in Int, NEW bytes \in Bytes(p),
         NEW n, n = binarySearch(ListOf(p), k).index
  PROVE  Sought(p, k, bytes) = IF n < Len(ListOf(p)) THEN {ListOf(p)[n + 1]} ELSE {}
<1>1. Inodes(p, bytes) = ListOf(p) /\ LeafList(ListOf(p))
  BY NoReuse, InView DEF Seen
<1>2. PICK s : s = ListOf(p)
  OBVIOUS
<1>3. n \in 0 .. Len(s) /\ s \in Seq(LeafInodes)
  BY <1>1, <1>2, SearchStops DEF LeafList
<1>4. Len(s) \in Nat /\ DOMAIN s = 1 .. Len(s)
  BY <1>3
<1>5. Sought(p, k, bytes) = {s[j] : j \in {n + 1} \cap DOMAIN s}
  BY <1>1, <1>2 DEF Sought
<1>6. {n + 1} \cap DOMAIN s = IF n < Len(s) THEN {n + 1} ELSE {}
  BY <1>3, <1>4
<1>7. CASE n < Len(s)
  BY <1>2, <1>5, <1>6, <1>7
<1>8. CASE ~(n < Len(s))
  BY <1>2, <1>5, <1>6, <1>8
<1> QED
  BY <1>2, <1>7, <1>8

\* Bucket::remove.
LEMMA RemoveMaps ==
  ASSUME BytesKept, Seen, Seen', NEW p \in DOMAIN opened, NEW k \in Keys, BucketRemove(p, k)
  PROVE  Map!Remove(p, k)
<1>1. PICK bytes \in Bytes(p) :
        /\ ~\E inode \in Sought(p, k, bytes) : IsBucketInode(inode)
        /\ Modify(p, bytes, del(Inodes(p, bytes), k))
  BY DEF BucketRemove
<1>2. InCall(p, {"rw"}) /\ call' = [op |-> "Remove", path |-> p, key |-> k, len |-> 0]
  BY DEF BucketRemove, Called
<1>3. k \in Int
  BY KeyFacts
<1>4. PICK s : s = ListOf(p)
  OBVIOUS
<1>5. LeafList(s)
  BY <1>4, InView DEF Seen
<1>6. ~\E i \in ToSet(s) : i.key = k /\ IsBucketInode(i)
  <2> SUFFICES ASSUME NEW i \in ToSet(s), i.key = k, IsBucketInode(i) PROVE FALSE
    OBVIOUS
  <2> DEFINE n == binarySearch(s, k).index
  <2>1. /\ s[n + 1] \in ToSet(s) /\ s[n + 1].key = k
    BY <1>3, <1>5, SearchList
  <2>2. s[n + 1] = i
    BY <1>5, <2>1, ListFacts
  <2>3. /\ n \in 0 .. Len(s) /\ \A j \in 1 .. n : s[j].key < k
    BY <1>3, <1>5, SearchStops
  <2> HIDE DEF n
  <2>4. n < Len(s)
    <3>1. s \in Seq(LeafInodes) /\ Len(s) \in Nat
      BY <1>5, ListFacts
    <3>2. PICK j \in 1 .. Len(s) : s[j] = i
      BY <3>1, ToSetFacts
    <3>3. j \notin 1 .. n
      BY <1>3, <2>3, <3>2
    <3> QED
      BY <2>3, <3>1, <3>2, <3>3
  <2>5. i \in Sought(p, k, bytes)
    BY <1>3, <1>4, <2>2, <2>4, SoughtFacts DEF n
  <2> QED
    BY <1>1, <2>5
<1>7. Map!Change(p, Entries(Working) \ Map!At(p, k)) /\ ~Map!IsBucket(p, k)
  BY <1>1, <1>2, <1>3, <1>4, <1>6, DelMaps
<1> QED
  BY <1>2, <1>7 DEF Map!Remove, Map!Called

\* Bucket::createBucket.
LEMMA CreateMaps ==
  ASSUME BytesKept, Seen, Seen', NEW p \in DOMAIN opened, NEW k \in Names, CreateBucket(p, k)
  PROVE  Map!CreateBucket(p, k)
<1>x. PICK x : x = Leaf(k, bucketLeafFlag, InlineValue(<<>>))
  OBVIOUS
<1>1. PICK bytes \in Bytes(p) :
        /\ Found(p, k, bytes) = {}
        /\ Created(p, k, Inodes(p, bytes), x)
        /\ Touch(p, Inodes(p, bytes), put(Inodes(p, bytes), k, x))
  BY <1>x DEF CreateBucket, Created
<1>2. PICK s : s = ListOf(p)
  OBVIOUS
<1>3. Inodes(p, bytes) = s /\ LeafList(s)
  BY <1>2, NoReuse, InView DEF Seen
<1>4. /\ mode = "rw" /\ mode' = mode /\ UNCHANGED <<pages, used, rootPage>>
      /\ call' = [op |-> "CreateBucket", path |-> p, key |-> k, len |-> 0]
  BY DEF CreateBucket, InCall, Called, file
<1>5. /\ \A e : e.path # p => (e \in Entries(Working)' <=> e \in Entries(Working))
      /\ DOMAIN opened' = DOMAIN opened \cup {Append(p, k)} /\ Append(p, k) \notin DOMAIN opened
      /\ \A q \in DOMAIN opened : q # p => opened'[q] = opened[q]
      /\ ToSet(ListOf(p))' = ToSet(s) \cup {x} /\ x.key = k /\ IsBucketInode(x)
      /\ \A i \in ToSet(s) : i.key # k
      /\ opened'[p].hasNode /\ opened'[p].node = put(s, k, x)
  <2>1. Created(p, k, s, x)
    BY <1>1, <1>3
  <2>2. /\ Found(p, k, bytes) = {} /\ s = Inodes(p, bytes)
        /\ TreeInv /\ AllLeaf /\ NothingLoose /\ Views /\ Views'
    BY <1>1, <1>3 DEF Seen
  <2>3. CreatedView(p, k, s, x)
    BY <1>x, <1>4, <2>1, <2>2, CreateView
  <2> QED
    BY <2>3 DEF CreatedView
<1>6. EntryOf(p, x) = Map!Entry(p, k, SubBucket)
  BY <1>5 DEF EntryOf, Map!Entry
<1> DEFINE W == Entries(Working)
           V == Entries(Working)'
<1>7. \A e : e \in W <=> (e.path # p /\ e \in W) \/ \E i \in ToSet(s) : e = EntryOf(p, i)
  BY <1>2, InView DEF Seen
<1>8. \A e : e \in V <=> (e.path # p /\ e \in W) \/ \E i \in ToSet(s) \cup {x} : e = EntryOf(p, i)
  <2>1. {e \in V : e.path = p} = {EntryOf(p, i) : i \in ToSet(ListOf(p))'}
    BY <1>5 DEF Seen, Views
  <2> QED
    BY <1>5, <2>1, EntryFacts
<1> HIDE DEF W, V
<1>9. V = W \cup {Map!Entry(p, k, SubBucket)}
  <2>1. \A e : e \in V <=> e \in W \/ e = EntryOf(p, x)
    BY <1>7, <1>8
  <2> QED
    BY <1>6, <2>1
<1>10. Map!Entry(p, k, SubBucket) \notin W
  <2> SUFFICES ASSUME EntryOf(p, x) \in W PROVE FALSE
    BY <1>6
  <2>1. EntryOf(p, x).path = p /\ EntryOf(p, x).key = k
    BY <1>5, EntryFacts
  <2>2. PICK i \in ToSet(s) : EntryOf(p, x) = EntryOf(p, i)
    BY <1>7, <2>1
  <2>3. i.key = k
    BY <2>1, <2>2, EntryFacts
  <2> QED
    BY <1>5, <2>3
<1>11. Touched(p, TRUE)
  <2> DEFINE new == put(s, k, x)
  <2>1. opened'[p].node = new /\ Touch(p, s, new)
    BY <1>1, <1>3, <1>5
  <2>2. x \in ToSet(new)
    <3>1. ListOf(p)' = new
      BY <1>5 DEF ListOf, Inodes
    <3> QED
      BY <1>5, <3>1
  <2> HIDE DEF new
  <2>3. new # s
    BY <1>5, <2>2
  <2>4. Touched(p, new # s)
    BY <1>2, <1>5, <2>1, TouchShows DEF Seen
  <2> QED
    BY <2>3, <2>4 DEF Touched
<1>12. Map!Change(p, W \cup {Map!Entry(p, k, SubBucket)})
  <2>1. PICK c \in BOOLEAN : c
    OBVIOUS
  <2>2. Touched(p, c)
    BY <1>11, <2>1 DEF Touched
  <2>3. PICK E : E = W \cup {Map!Entry(p, k, SubBucket)}
    OBVIOUS
  <2>4. E # W
    BY <1>10, <2>3
  <2>5. Map!Change(p, E)
    BY <1>4, <1>9, <2>1, <2>2, <2>3, <2>4, ChangeMaps DEF W, V
  <2> QED
    BY <2>3, <2>5
<1>13. Map!At(p, k) = {}
  BY <1>2, <1>5, AtView DEF Seen
<1> QED
  BY <1>4, <1>12, <1>13 DEF Map!CreateBucket, Map!Called, W

\* Cursor::remove of the key the cursor shows.
LEMMA CursorRemoveMaps ==
  ASSUME BytesKept, ShowsNoBucket, Seen, Seen', CursorRemove
  PROVE  Map!CursorRemove
<1>0. PICK p, ref, k : p = cursor.path /\ ref = Last(cursor.stack) /\ k = Current(p, ref).key
  OBVIOUS
<1>1. /\ cursor.on /\ InCall(p, {"rw"}) /\ p \in DOMAIN opened /\ cursor.stack # <<>>
      /\ InRange(p, ref) /\ call' = [op |-> "CursorRemove", path |-> p, key |-> 0, len |-> 0]
      /\ mode = "rw" /\ ~IsBucketInode(Current(p, ref))
  BY <1>0 DEF CursorRemove, InCall, Called
<1>2. PICK bytes \in Bytes(p) : Modify(p, bytes, del(Inodes(p, bytes), k))
  BY <1>0 DEF CursorRemove
<1>3. LeafList(ElementsAt(p, ref)) /\ ref.index \in Nat
  BY <1>0, <1>1, CursorTop DEF Seen
<1>4. k \in Int
  <2>1. PICK s, n : s = ElementsAt(p, ref) /\ n = ref.index
    OBVIOUS
  <2>2. n < Len(s) /\ k = s[n + 1].key
    BY <1>0, <1>1, <2>1 DEF InRange, RefCount, Current
  <2>3. n \in Nat /\ s \in Seq(LeafInodes) /\ Len(s) \in Nat
    BY <1>3, <2>1, ListFacts
  <2>4. n + 1 \in 1 .. Len(s)
    BY <2>2, <2>3
  <2>5. s[n + 1] \in LeafInodes
    BY <2>3, <2>4
  <2> QED
    BY <2>2, <2>5, LeafFacts, KeyFacts
<1>5. ~\E i \in ToSet(ListOf(p)) : i.key = k /\ IsBucketInode(i)
  BY <1>0, <1>1 DEF ShowsNoBucket, BucketsIn
<1>6. Map!Change(p, Entries(Working) \ Map!At(p, k)) /\ ~Map!IsBucket(p, k)
  BY <1>1, <1>2, <1>4, <1>5, DelMaps
<1>7. Map!At(p, k) \in SUBSET Map!In(p) /\ \A e \in Map!At(p, k) : e.len # SubBucket
  BY <1>6 DEF Map!At, Map!IsBucket
<1>8. cursor.on \in BOOLEAN /\ cursor.fresh \in BOOLEAN
  BY DEF Seen, CursorOK
<1>9. CASE cursor.fresh
  <2>1. CursorAt = Where(p, "at", k)
    <3>1. CursorAt = Shown(p, ref.index, ElementsAt(p, ref))
      BY <1>0, <1>1, <1>9 DEF Seen, CursorShows
    <3> QED
      BY <1>0, <1>1, <3>1 DEF Shown, InRange, RefCount, Current
  <2>2. CursorAt.path = p /\ CursorAt.at = "at" /\ CursorAt.key = k
    BY <2>1 DEF Where
  <2>3. Map!At(p, k) = {e \in Map!At(p, k) : e.len # SubBucket}
    BY <1>7
  <2> QED
    BY <1>1, <1>6, <1>7, <2>2, <2>3 DEF Map!CursorRemove, Map!Called
<1>10. CASE ~cursor.fresh
  <2>1. CursorAt.path = p /\ CursorAt.at = "stale"
    BY <1>0, <1>1, <1>10, PlaceFacts DEF Seen
  <2>2. \A e, f \in Map!At(p, k) : e = f
    <3>1. \A e : e \in Map!At(p, k) <=> \E i \in ToSet(ListOf(p)) : i.key = k /\ e = EntryOf(p, i)
      BY <1>1, AtView DEF Seen
    <3>2. \A x, y \in ToSet(ListOf(p)) : x.key = y.key => x = y
      BY <1>1, InView, ListFacts DEF Seen
    <3> QED
      BY <3>1, <3>2
  <2> QED
    BY <1>1, <1>6, <1>7, <2>1, <2>2 DEF Map!CursorRemove, Map!Called
<1> QED
  BY <1>8, <1>9, <1>10

\* Cursor::remove when the cursor shows no key.
LEMMA CursorRemoveNothingMaps ==
  ASSUME BytesKept, Seen, Seen', CursorRemoveNothing
  PROVE  Map!CursorRemove
<1>0. PICK p, ref : p = cursor.path /\ ref = Last(cursor.stack)
  OBVIOUS
<1>1. /\ cursor.on /\ InCall(p, {"rw"}) /\ p \in DOMAIN opened /\ cursor.stack # <<>>
      /\ ~InRange(p, ref) /\ call' = [op |-> "CursorRemove", path |-> p, key |-> 0, len |-> 0]
      /\ mode = "rw" /\ used' = used /\ pages' = pages
  BY <1>0 DEF CursorRemoveNothing, InCall, Called, file
<1>2. Map!Change(p, Entries(Working))
  <2>1. CASE UNCHANGED <<opened, cursor, mode>>
    <3>1. Entries(Working)' = Entries(Working)
      <4>1. \A q \in DOMAIN opened : ListOf(q)' = ListOf(q)
        BY <1>1, <2>1, SameList
      <4>2. \A e : e.path # p => (e \in Entries(Working)' <=> e \in Entries(Working))
        BY <1>1, <2>1, <4>1, OneListChanges DEF Seen
      <4>3. {e \in Entries(Working)' : e.path = p} = {e \in Entries(Working) : e.path = p}
        BY <1>1, <2>1, <4>1 DEF Seen, Views
      <4> QED
        BY <4>2, <4>3
    <3>2. CursorAt' = CursorAt
      BY <2>1 DEF CursorAt, InRange, RefCount, ElementsAt, Current
    <3>3. Entries(Committed)' = Entries(Committed)
      BY <1>1, FileStays DEF Seen
    <3> QED
      BY <1>1, <2>1, <3>1, <3>2, <3>3 DEF Map!Change
  <2>2. CASE \E bytes \in Bytes(p) : Modify(p, bytes, del(Inodes(p, bytes), NoKey))
    <3>1. PICK bytes \in Bytes(p) : Modify(p, bytes, del(Inodes(p, bytes), NoKey))
      BY <2>2
    <3>2. NoKey \in Int /\ \A i \in ToSet(ListOf(p)) : i.key # NoKey
      BY <1>1, InView, ListFacts, LeafFacts, KeyFacts DEF Seen, NoKey
    <3>3. Map!Change(p, Entries(Working) \ Map!At(p, NoKey))
      BY <1>1, <3>1, <3>2, DelMaps
    <3>4. Map!At(p, NoKey) = {}
      BY <1>1, <3>2, AtView DEF Seen
    <3>5. Entries(Working) \ Map!At(p, NoKey) = Entries(Working)
      BY <3>4
    <3> QED
      BY <3>3, <3>5
  <2> QED
    BY <1>0, <2>1, <2>2 DEF CursorRemoveNothing
<1>3. cursor.on \in BOOLEAN /\ cursor.fresh \in BOOLEAN
  BY DEF Seen, CursorOK
<1>4. CursorAt.path = p /\ CursorAt.at # "at"
  <2>1. CASE cursor.fresh
    <3>1. CursorAt = Shown(p, ref.index, ElementsAt(p, ref))
      BY <1>0, <1>1, <2>1 DEF Seen, CursorShows
    <3> QED
      BY <1>0, <1>1, <3>1 DEF Shown, InRange, RefCount, Where
  <2>2. CASE ~cursor.fresh
    BY <1>0, <1>1, <2>2, PlaceFacts DEF Seen
  <2> QED
    BY <1>3, <2>1, <2>2
<1>5. PICK E : E = {}
  OBVIOUS
<1>6. E \in SUBSET Map!In(p) /\ (\A e \in E : e.len # SubBucket)
        /\ Entries(Working) \ E = Entries(Working)
  BY <1>5
<1>7. Map!Change(p, Entries(Working) \ E)
  BY <1>2, <1>6
<1> QED
  BY <1>1, <1>4, <1>5, <1>6, <1>7 DEF Map!CursorRemove, Map!Called

---------------------------------------------------------------------------
(* Then, the cursor.                                                       *)

\* Cursor::last in a leaf.
LEMMA LastLeaf ==
  ASSUME TreeInv, mode \in {"ro", "rw"}, NEW p \in DOMAIN opened, IsLeaf(p), NEW bytes \in Bytes(p),
         NEW ref, ref = PageNode(p, bytes), NEW s, s = Inodes(p, bytes)
  PROVE  LastStack(p, bytes) = <<At(ref, IF 0 < Len(s) THEN Len(s) - 1 ELSE IndexMod - 1)>>
<1>1. ref \in Refs /\ ref.leaf /\ ElementsAt(p, ref) = s /\ LeafList(s)
  BY LeafNode
<1>2. Len(s) \in Nat /\ Len(s) < IndexMod - 1 /\ IndexMod \in Nat /\ IndexMod > 1
  BY <1>1, ListFacts, KeyFacts
<1>3. RefCount(p, ref) = Len(s)
  BY <1>1 DEF RefCount
<1> DEFINE n == (Len(s) - 1 + IndexMod) % IndexMod
<1>4. n = IF 0 < Len(s) THEN Len(s) - 1 ELSE IndexMod - 1
  <2>1. CASE 0 < Len(s)
    <3>1. Len(s) - 1 \in 0 .. IndexMod - 1
      BY <1>2, <2>1
    <3> QED
      BY <2>1, <3>1, ModFacts
  <2>2. CASE ~(0 < Len(s))
    <3>1. Len(s) - 1 + IndexMod = IndexMod - 1 /\ IndexMod - 1 \in 0 .. IndexMod - 1
      BY <1>2, <2>2
    <3> QED
      BY <2>2, <3>1, ModFacts
  <2> QED
    BY <2>1, <2>2
<1>5. LastStack(p, bytes) = Down(<<At(ref, n)>>, TRUE)
  BY <1>3 DEF LastStack, At
<1> HIDE DEF n
<1>6. At(ref, n).leaf
  BY <1>1, AtFacts
<1>7. Down(<<At(ref, n)>>, TRUE) = <<At(ref, n)>>
  BY <1>6, OneLeaf
<1> QED
  BY <1>4, <1>5, <1>7

\* Cursor::prev at index n of a leaf.
LEMMA PrevLeaf ==
  ASSUME NEW p, NEW ref \in Refs, ref.leaf, NEW n \in 0 .. IndexMod - 1
  PROVE  PrevStack(p, <<At(ref, n)>>) = IF n > 0 THEN <<At(ref, n - 1)>> ELSE <<>>
<1>1. IndexMod \in Nat
  BY KeyFacts
<1> DEFINE r == At(ref, n)
           S == {i \in DOMAIN <<r>> : <<r>>[i].index > 0}
<1>2. /\ r.index = n /\ r.leaf
      /\ At(r, n - 1) = At(ref, n - 1) /\ At(ref, n - 1).leaf
  BY AtFacts
<1>3. n > 0 => (n + -1 + IndexMod) % IndexMod = n - 1
  <2>1. n > 0 => n - 1 \in 0 .. IndexMod - 1 /\ n + -1 + IndexMod = n - 1 + IndexMod
    BY <1>1
  <2> QED
    BY <2>1, ModFacts
<1>4. PrevStack(p, <<r>>) = StepStack(<<r>>, S, -1, TRUE)
  BY DEF PrevStack
<1> HIDE DEF r
<1>5. DOMAIN <<r>> = {1} /\ <<r>>[1] = r
  OBVIOUS
<1>6. S = IF n > 0 THEN {1} ELSE {}
  BY <1>2, <1>5
<1>7. CASE n > 0
  <2>1. S = {1} /\ Max(S) = 1
    BY <1>6, <1>7 DEF Max
  <2>2. [<<r>>[1] EXCEPT !.index = (@ + -1 + IndexMod) % IndexMod] = At(ref, n - 1)
    BY <1>2, <1>3, <1>5, <1>7 DEF At
  <2>3. Append(SubSeq(<<r>>, 1, 1 - 1), At(ref, n - 1)) = <<At(ref, n - 1)>>
    BY <1>2, OneLeaf
  <2> HIDE DEF S
  <2>4. StepStack(<<r>>, S, -1, TRUE) = Down(<<At(ref, n - 1)>>, TRUE)
    BY <2>1, <2>2, <2>3 DEF StepStack
  <2> QED
    BY <1>2, <1>4, <1>7, <2>4, OneLeaf DEF r
<1>8. CASE ~(n > 0)
  BY <1>4, <1>6, <1>8 DEF StepStack, r
<1> QED
  BY <1>7, <1>8

\* A cursor that is nowhere, or in an empty leaf.
LEMMA MoveNowhere ==
  ASSUME NEW p
  PROVE  /\ NextStack(p, <<>>) = <<>> /\ PrevStack(p, <<>>) = <<>>
         /\ \A ref \in Refs : ElementsAt(p, ref) = <<>> => NextStack(p, <<ref>>) = <<>>
<1>1. {i \in DOMAIN <<>> : (<<>>[i].index + 1) % IndexMod < RefCount(p, <<>>[i])} = {}
  OBVIOUS
<1>2. {i \in DOMAIN <<>> : <<>>[i].index > 0} = {}
  OBVIOUS
<1>3. ASSUME NEW ref \in Refs, ElementsAt(p, ref) = <<>> PROVE NextStack(p, <<ref>>) = <<>>
  <2>1. RefCount(p, ref) = 0 /\ ref.index + 1 \in Int
    <3>1. ref.index \in 0 .. IndexMod - 1
      BY DEF Refs
    <3> QED
      BY <1>3, <3>1, KeyFacts DEF RefCount
  <2>2. (ref.index + 1) % IndexMod \in 0 .. IndexMod - 1
    BY <2>1, ModFacts
  <2>3. ~((ref.index + 1) % IndexMod < 0)
    BY <2>2, KeyFacts
  <2>4. DOMAIN <<ref>> = {1} /\ <<ref>>[1] = ref
    OBVIOUS
  <2>5. {i \in DOMAIN <<ref>> : (<<ref>>[i].index + 1) % IndexMod < RefCount(p, <<ref>>[i])} = {}
    BY <2>1, <2>3, <2>4
  <2> QED
    BY <2>5 DEF NextStack, StepStack
<1> QED
  BY <1>1, <1>2, <1>3 DEF NextStack, PrevStack, StepStack

\* The entries of a range of a list.
Slice(p, s, a, b) == {EntryOf(p, s[j]) : j \in a .. b}

\* The first and the last of them.
Ends(p, s, a, b, S) ==
  /\ a <= b => Map!Least(S) = {EntryOf(p, s[a])} /\ Map!Greatest(S) = {EntryOf(p, s[b])}
  /\ ~(a <= b) => Map!Least(S) = {} /\ Map!Greatest(S) = {}

\* The least and the greatest entry of a range are those at its ends.
LEMMA RangeView ==
  ASSUME NEW s, LeafList(s), NEW p, NEW a \in Nat, NEW b \in Nat, a >= 1, b <= Len(s),
         NEW S, S = Slice(p, s, a, b)
  PROVE  Ends(p, s, a, b, S)
<1>1. s \in Seq(LeafInodes) /\ Ordered(s) /\ Len(s) \in Nat
  BY ListFacts
<1>0. S = {EntryOf(p, s[j]) : j \in a .. b}
  BY DEF Slice
<1>2. \A j \in a .. b : j \in 1 .. Len(s)
  BY <1>1
<1>3. \A j \in 1 .. Len(s) : s[j].key \in Int
  BY <1>1, LeafFacts DEF Elements
<1>4. \A i, j \in 1 .. Len(s) : i < j => s[i].key < s[j].key
  BY <1>1 DEF Ordered
<1>5. \A j : EntryOf(p, s[j]).key = s[j].key
  BY EntryFacts
<1>6. ~(a <= b) => S = {}
  BY <1>0, <1>1
<1>7. ~(a <= b) => Map!Least(S) = {} /\ Map!Greatest(S) = {}
  BY <1>6 DEF Map!Least, Map!Greatest
<1>8. ASSUME a <= b
      PROVE  Map!Least(S) = {EntryOf(p, s[a])} /\ Map!Greatest(S) = {EntryOf(p, s[b])}
  <2>1. a \in a .. b /\ b \in a .. b
    BY <1>8
  <2>2. EntryOf(p, s[a]) \in S /\ EntryOf(p, s[b]) \in S
    BY <1>0, <2>1
  <2>3. \A j \in a .. b : /\ s[a].key <= s[j].key /\ s[j].key <= s[b].key
                          /\ j # a => s[a].key < s[j].key
                          /\ j # b => s[j].key < s[b].key
    <3> TAKE j \in a .. b
    <3>1. /\ j = a \/ a < j
          /\ j = b \/ j < b
          /\ j \in 1 .. Len(s) /\ a \in 1 .. Len(s) /\ b \in 1 .. Len(s)
      BY <1>2, <2>1
    <3>2. s[a].key \in Int /\ s[b].key \in Int /\ s[j].key \in Int
      BY <1>3, <3>1
    <3>3. j # a => s[a].key < s[j].key
      BY <1>4, <3>1
    <3>4. j # b => s[j].key < s[b].key
      BY <1>4, <3>1
    <3> QED
      BY <3>2, <3>3, <3>4
  <2>4. ASSUME NEW e \in Map!Least(S) PROVE e = EntryOf(p, s[a])
    <3>1. PICK j \in a .. b : e = EntryOf(p, s[j])
      BY <1>0 DEF Map!Least
    <3>2. e.key <= EntryOf(p, s[a]).key
      BY <2>2 DEF Map!Least
    <3>3. s[j].key <= s[a].key
      BY <1>5, <3>1, <3>2
    <3>4. j = a
      BY <1>2, <1>3, <2>1, <2>3, <3>3
    <3> QED
      BY <3>1, <3>4
  <2>5. ASSUME NEW e \in Map!Greatest(S) PROVE e = EntryOf(p, s[b])
    <3>1. PICK j \in a .. b : e = EntryOf(p, s[j])
      BY <1>0 DEF Map!Greatest
    <3>2. e.key >= EntryOf(p, s[b]).key
      BY <2>2 DEF Map!Greatest
    <3>3. s[j].key >= s[b].key
      BY <1>5, <3>1, <3>2
    <3>4. j = b
      BY <1>2, <1>3, <2>1, <2>3, <3>3
    <3> QED
      BY <3>1, <3>4
  <2>6. \A f \in S : EntryOf(p, s[a]).key <= f.key /\ EntryOf(p, s[b]).key >= f.key
    <3> TAKE f \in S
    <3>1. PICK j \in a .. b : f = EntryOf(p, s[j])
      BY <1>0
    <3>2. s[a].key <= s[j].key /\ s[b].key >= s[j].key
      BY <1>2, <1>3, <2>1, <2>3
    <3> QED
      BY <1>5, <3>1, <3>2
  <2>7. EntryOf(p, s[a]) \in Map!Least(S) /\ EntryOf(p, s[b]) \in Map!Greatest(S)
    BY <2>2, <2>6 DEF Map!Least, Map!Greatest
  <2> QED
    BY <2>4, <2>5, <2>7
<1> QED
  BY <1>7, <1>8 DEF Ends

\* Nothing is seen of a step that leaves objects and pages alone.
LEMMA SameEntries ==
  ASSUME Views, Views', UNCHANGED <<opened, pages, used>>
  PROVE  /\ Entries(Working)' = Entries(Working)
         /\ Entries(Committed)' = Entries(Committed)
<1>1. Entries(Committed)' = Entries(Committed)
  BY FileStays
<1>2. CASE DOMAIN opened = {}
  BY <1>1, <1>2 DEF Views
<1>3. CASE DOMAIN opened # {}
  <2>1. PICK p : p \in DOMAIN opened
    BY <1>3
  <2>2. \A q \in DOMAIN opened : ListOf(q)' = ListOf(q)
    BY SameList
  <2>3. \A e : e.path # p => (e \in Entries(Working)' <=> e \in Entries(Working))
    BY <2>1, <2>2, OneListChanges
  <2>4. {e \in Entries(Working)' : e.path = p} = {e \in Entries(Working) : e.path = p}
    BY <2>1, <2>2 DEF Views
  <2>5. Entries(Working)' = Entries(Working)
    BY <2>3, <2>4
  <2> QED
    BY <1>1, <2>5
<1> QED
  BY <1>2, <1>3

\* A cursor whose view of its bucket is not out of date reads the bucket's list;
\* its index is in range, or just behind, unless the bucket is empty.
CursorReads ==
  /\ ~cursor.on => cursor.path = <<>>
  /\ mode \in {"ro", "rw"} /\ cursor.on /\ cursor.fresh /\ cursor.stack # <<>> =>
       /\ Len(cursor.stack) = 1
       /\ ElementsAt(cursor.path, cursor.stack[1]) = ListOf(cursor.path)
       /\ cursor.stack[1].index <= Len(ListOf(cursor.path)) \/ ListOf(cursor.path) = <<>>

\* A cursor is put to index n of the list of bucket p, or nowhere.
Placing(p, stack) ==
  /\ UNCHANGED <<mode, opened, pages, used>> /\ mode \in {"ro", "rw"}
  /\ cursor'.on /\ cursor'.fresh /\ cursor'.path = p /\ cursor'.stack = stack

\* A cursor placed at index n of its bucket's list shows what is there.
LEMMA PlacedAt ==
  ASSUME Seen, Seen', NEW p \in DOMAIN opened, NEW ref \in Refs, ref.leaf,
         ElementsAt(p, ref) = ListOf(p), NEW n, Placing(p, <<At(ref, n)>>)
  PROVE  /\ CursorAt' = Shown(p, n, ListOf(p))
         /\ n <= Len(ListOf(p)) \/ ListOf(p) = <<>> => CursorReads'
<1> DEFINE r == At(ref, n)
<1>1. r.index = n /\ r.leaf /\ ElementsAt(p, r) = ListOf(p)
  BY AtFacts
<1> HIDE DEF r
<1>2. Last(<<r>>) = r /\ <<r>> # <<>> /\ <<r>>[1] = r /\ Len(<<r>>) = 1
  BY <1>1, OneLeaf
<1>3. /\ cursor'.on /\ cursor'.fresh /\ cursor'.path = p /\ cursor'.stack = <<r>>
      /\ opened' = opened /\ pages' = pages /\ mode' = mode
  BY DEF Placing, r
<1>4. ElementsAt(p, r)' = ListOf(p) /\ ListOf(p)' = ListOf(p)
  BY <1>1, <1>3, SameList DEF ElementsAt
<1>5. ElementsAt(cursor.path, Last(cursor.stack))' = ListOf(p)
  BY <1>2, <1>3, <1>4 DEF ElementsAt
<1>6. CursorAt' = Shown(p, n, ListOf(p))
  BY <1>1, <1>2, <1>3, <1>5 DEF Seen, CursorShows
<1>7. ElementsAt(cursor.path, cursor.stack[1])' = ListOf(p) /\ ListOf(cursor.path)' = ListOf(p)
  BY <1>2, <1>3, <1>4 DEF ElementsAt, ListOf, Inodes, PageNode
<1>8. n <= Len(ListOf(p)) \/ ListOf(p) = <<>> => CursorReads'
  BY <1>1, <1>2, <1>3, <1>7 DEF CursorReads
<1> QED
  BY <1>6, <1>8

\* A cursor that is placed nowhere is gone.
LEMMA PlacedNowhere ==
  ASSUME Seen, Seen', NEW p, Placing(p, <<>>)
  PROVE  CursorAt' = Where(p, "gone", 0) /\ CursorReads'
<1>1. CursorAt' = Where(p, "gone", 0)
  BY DEF Seen, CursorShows, Placing
<1>2. CursorReads'
  BY DEF CursorReads, Placing
<1> QED
  BY <1>1, <1>2

\* The cursor has gone where the map says.
LEMMA GotoMaps ==
  ASSUME Seen, Seen', NEW p \in DOMAIN opened, NEW stack, Placing(p, stack),
         NEW op, NEW k, call' = [op |-> op, path |-> p, key |-> k, len |-> 0],
         NEW E, NEW away,
         \/ E = {} /\ CursorAt' = Where(p, away, 0)
         \/ \E e : E = {e} /\ CursorAt' = Where(p, "at", e.key)
  PROVE  Map!Goto(op, p, k, E, away)
<1>1. /\ Entries(Working)' = Entries(Working) /\ Entries(Committed)' = Entries(Committed)
  BY SameEntries DEF Seen, Placing
<1>2. mode \in {"ro", "rw"} /\ mode' = mode
  BY DEF Placing
<1>3. CursorAt' = IF E = {} THEN [path |-> p, at |-> away, key |-> 0]
                  ELSE [path |-> p, at |-> "at", key |-> (CHOOSE e \in E : TRUE).key]
  <2>1. CASE E = {}
    BY <2>1 DEF Where
  <2>2. CASE E # {}
    <3>1. PICK e : E = {e} /\ CursorAt' = Where(p, "at", e.key)
      BY <2>2
    <3>2. (CHOOSE f \in E : TRUE) = e
      BY <3>1
    <3> QED
      BY <2>2, <3>1, <3>2 DEF Where
  <2> QED
    BY <2>1, <2>2
<1> QED
  BY <1>1, <1>2, <1>3 DEF Map!Goto, Map!Called

\* The entries of a bucket, by position.
LEMMA InRangeView ==
  ASSUME Seen, NEW p \in DOMAIN opened, NEW s, s = ListOf(p)
  PROVE  /\ LeafList(s) /\ Len(s) \in Nat
         /\ Map!In(p) = {EntryOf(p, s[j]) : j \in 1 .. Len(s)}
         /\ \A j \in 1 .. Len(s) : s[j].key \in Int /\ EntryOf(p, s[j]).key = s[j].key
         /\ \A i, j \in 1 .. Len(s) : i < j => s[i].key < s[j].key
         /\ Map!In(p) = {} <=> Len(s) = 0
<1>1. LeafList(s) /\ Map!In(p) = {EntryOf(p, i) : i \in ToSet(s)}
  BY InView DEF Seen
<1>2. s \in Seq(LeafInodes) /\ Ordered(s) /\ Len(s) \in Nat
  BY <1>1, ListFacts
<1>3. ToSet(s) = {s[j] : j \in 1 .. Len(s)}
  BY <1>2, ToSetFacts
<1>4. Map!In(p) = {EntryOf(p, s[j]) : j \in 1 .. Len(s)}
  BY <1>1, <1>3
<1>5. \A j \in 1 .. Len(s) : s[j].key \in Int /\ EntryOf(p, s[j]).key = s[j].key
  BY <1>2, LeafFacts, EntryFacts DEF Elements
<1>6. \A i, j \in 1 .. Len(s) : i < j => s[i].key < s[j].key
  BY <1>2 DEF Ordered
<1>7. Map!In(p) = {} <=> Len(s) = 0
  <2>1. Len(s) # 0 => 1 \in 1 .. Len(s)
    BY <1>2
  <2>2. Len(s) = 0 => 1 .. Len(s) = {}
    BY <1>2
  <2> QED
    BY <1>4, <2>1, <2>2
<1> QED
  BY <1>1, <1>2, <1>4, <1>5, <1>6, <1>7

\* A call places the cursor.
LEMMA PositionPlaces ==
  ASSUME NEW p, NEW stack, InCall(p, {"ro", "rw"}), Position(p, stack)
  PROVE  Placing(p, stack)
  BY DEF InCall, Position, Placing, file

\* What a search finds in bucket p: the least key that is not below k.
SoughtLeast(p, k, s, n) ==
  LET S == {e \in Map!In(p) : e.key >= k}
  IN  /\ n < Len(s) => Map!Least(S) = {EntryOf(p, s[n + 1])}
      /\ ~(n < Len(s)) => Map!Least(S) = {}

\* Where binarySearch stops is the least key that is not below the one sought.
LEMMA LeastView ==
  ASSUME Seen, NEW p \in DOMAIN opened, NEW k \in Int, NEW s, s = ListOf(p),
         NEW n, n = binarySearch(s, k).index
  PROVE  SoughtLeast(p, k, s, n)
<1>1. /\ LeafList(s) /\ Len(s) \in Nat
      /\ Map!In(p) = {EntryOf(p, s[j]) : j \in 1 .. Len(s)}
      /\ \A j \in 1 .. Len(s) : s[j].key \in Int /\ EntryOf(p, s[j]).key = s[j].key
  BY InRangeView
<1>2. /\ n \in 0 .. Len(s)
      /\ \A j \in 1 .. n : s[j].key < k
      /\ \A j \in n + 1 .. Len(s) : s[j].key >= k
  BY <1>1, SearchStops
<1> DEFINE S == {e \in Map!In(p) : e.key >= k}
<1>3. S = {EntryOf(p, s[j]) : j \in n + 1 .. Len(s)}
  <2>1. \A j \in n + 1 .. Len(s) : j \in 1 .. Len(s)
    BY <1>1, <1>2
  <2>2. \A j \in 1 .. Len(s) : s[j].key >= k <=> j \in n + 1 .. Len(s)
    <3> TAKE j \in 1 .. Len(s)
    <3>1. j \in 1 .. n \/ j \in n + 1 .. Len(s)
      BY <1>1, <1>2
    <3>2. ~(j \in 1 .. n /\ j \in n + 1 .. Len(s))
      BY <1>1, <1>2
    <3> QED
      BY <1>1, <1>2, <3>1, <3>2
  <2> QED
    BY <1>1, <2>1, <2>2
<1>4. /\ n < Len(s) => Map!Least(S) = {EntryOf(p, s[n + 1])}
      /\ ~(n < Len(s)) => Map!Least(S) = {}
  <2> HIDE DEF S
  <2>1. n + 1 \in Nat /\ n + 1 >= 1
    BY <1>2
  <2>2. S = Slice(p, s, n + 1, Len(s))
    BY <1>3 DEF Slice
  <2>3. PICK a \in Nat, b \in Nat : a = n + 1 /\ b = Len(s)
    BY <1>1, <2>1
  <2>4. LeafList(s) /\ a >= 1 /\ b <= Len(s) /\ S = Slice(p, s, a, b)
    BY <1>1, <2>1, <2>2, <2>3
  <2>5. Ends(p, s, a, b, S)
    BY <2>4, RangeView
  <2>6. n < Len(s) <=> a <= b
    BY <1>1, <1>2, <2>3
  <2> QED
    BY <2>3, <2>5, <2>6 DEF Ends
<1> QED
  BY <1>4 DEF SoughtLeast

\* Cursor::seek.
LEMMA SeekMaps ==
  ASSUME BytesKept, Seen, Seen', NEW p \in DOMAIN opened, NEW k \in Keys, Seek(p, k)
  PROVE  Map!Seek(p, k) /\ CursorReads'
<1>1. PICK bytes \in Bytes(p), i \in Routes(p) : Position(p, SeekStack(p, k, bytes, i))
  BY DEF Seek
<1>2. /\ InCall(p, {"ro", "rw"}) /\ mode \in {"ro", "rw"}
      /\ call' = [op |-> "Seek", path |-> p, key |-> k, len |-> 0]
  BY DEF Seek, InCall, Called
<1>3. PICK s, ref, n : s = ListOf(p) /\ ref = PageNode(p, bytes) /\ n = binarySearch(s, k).index
  OBVIOUS
<1>4. Inodes(p, bytes) = s /\ IsLeaf(p)
  BY <1>3, NoReuse, InView DEF Seen
<1>5. ref \in Refs /\ ref.leaf /\ ElementsAt(p, ref) = ListOf(p)
  BY <1>2, <1>3, <1>4, LeafNode DEF Seen
<1>6. SeekStack(p, k, bytes, i) = <<At(ref, n)>>
  BY <1>2, <1>3, <1>4, SeekLeaf DEF Seen
<1>7. Placing(p, <<At(ref, n)>>)
  BY <1>1, <1>2, <1>6, PositionPlaces
<1>8. /\ LeafList(s) /\ Len(s) \in Nat
      /\ Map!In(p) = {EntryOf(p, s[j]) : j \in 1 .. Len(s)}
      /\ \A j \in 1 .. Len(s) : s[j].key \in Int /\ EntryOf(p, s[j]).key = s[j].key
      /\ Map!In(p) = {} <=> Len(s) = 0
  BY <1>3, InRangeView
<1>9. k \in Int
  BY KeyFacts
<1>10. /\ n \in 0 .. Len(s)
       /\ \A j \in 1 .. n : s[j].key < k
       /\ \A j \in n + 1 .. Len(s) : s[j].key >= k
  BY <1>3, <1>8, <1>9, SearchStops
<1>11. CursorAt' = Shown(p, n, s) /\ CursorReads'
  BY <1>3, <1>5, <1>7, <1>8, <1>10, PlacedAt
<1> DEFINE S == {e \in Map!In(p) : e.key >= k}
           away == IF Map!In(p) = {} THEN "gone" ELSE "end"
<1>12. SoughtLeast(p, k, s, n)
  BY <1>3, <1>9, LeastView
<1>13. /\ n < Len(s) => Map!Least(S) = {EntryOf(p, s[n + 1])}
       /\ ~(n < Len(s)) => Map!Least(S) = {}
  BY <1>12 DEF SoughtLeast
<1>14. \/ Map!Least(S) = {} /\ CursorAt' = Where(p, away, 0)
       \/ \E e : Map!Least(S) = {e} /\ CursorAt' = Where(p, "at", e.key)
  <2> HIDE DEF S
  <2>1. CASE n < Len(s)
    <3>1. n + 1 \in 1 .. Len(s)
      BY <1>8, <1>10, <2>1
    <3> QED
      BY <1>8, <1>11, <1>13, <2>1, <3>1 DEF Shown
  <2>2. CASE ~(n < Len(s))
    BY <1>8, <1>11, <1>13, <2>2 DEF Shown
  <2> QED
    BY <2>1, <2>2
<1>15. Map!Goto("Seek", p, k, Map!Least(S), away)
  <2> HIDE DEF S, away
  <2> QED
    BY <1>2, <1>7, <1>14, GotoMaps
<1> QED
  BY <1>11, <1>15 DEF Map!Seek

\* Cursor::first.
LEMMA FirstMaps ==
  ASSUME BytesKept, Seen, Seen', NEW p \in DOMAIN opened, CursorFirst(p)
  PROVE  Map!First(p) /\ CursorReads'
<1>1. PICK bytes \in Bytes(p) : Position(p, FirstStack(p, bytes))
  BY DEF CursorFirst
<1>2. /\ InCall(p, {"ro", "rw"}) /\ mode \in {"ro", "rw"}
      /\ call' = [op |-> "First", path |-> p, key |-> 0, len |-> 0]
  BY DEF CursorFirst, InCall, Called
<1>3. PICK s, ref : s = ListOf(p) /\ ref = PageNode(p, bytes)
  OBVIOUS
<1>4. Inodes(p, bytes) = s /\ IsLeaf(p)
  BY <1>3, NoReuse, InView DEF Seen
<1>5. ref \in Refs /\ ref.leaf /\ ElementsAt(p, ref) = ListOf(p)
  BY <1>2, <1>3, <1>4, LeafNode DEF Seen
<1>6. FirstStack(p, bytes) = IF 0 < Len(s) THEN <<At(ref, 0)>> ELSE <<>>
  BY <1>2, <1>3, <1>4, FirstLeaf DEF Seen
<1>8. /\ LeafList(s) /\ Len(s) \in Nat
      /\ Map!In(p) = {EntryOf(p, s[j]) : j \in 1 .. Len(s)}
      /\ \A j \in 1 .. Len(s) : s[j].key \in Int /\ EntryOf(p, s[j]).key = s[j].key
  BY <1>3, InRangeView
<1>9. /\ 1 <= Len(s) => Map!Least(Map!In(p)) = {EntryOf(p, s[1])}
      /\ ~(1 <= Len(s)) => Map!Least(Map!In(p)) = {}
  <2>1. Map!In(p) = Slice(p, s, 1, Len(s))
    BY <1>8 DEF Slice
  <2>s. PICK S : S = Map!In(p)
    OBVIOUS
  <2>2. PICK a \in Nat, b \in Nat : a = 1 /\ b = Len(s)
    BY <1>8
  <2>3. LeafList(s) /\ a >= 1 /\ b <= Len(s) /\ S = Slice(p, s, a, b)
    BY <1>8, <2>1, <2>2, <2>s
  <2>4. Ends(p, s, a, b, S)
    BY <2>3, RangeView
  <2> QED
    BY <2>2, <2>s, <2>4 DEF Ends
<1>10. CASE 0 < Len(s)
  <2>1. Placing(p, <<At(ref, 0)>>)
    BY <1>1, <1>2, <1>6, <1>10, PositionPlaces
  <2>2. CursorAt' = Shown(p, 0, s) /\ CursorReads'
    BY <1>3, <1>5, <1>8, <2>1, PlacedAt
  <2>3. 1 \in 1 .. Len(s) /\ 1 <= Len(s)
    BY <1>8, <1>10
  <2>4. CursorAt' = Where(p, "at", EntryOf(p, s[1]).key)
    BY <1>8, <1>10, <2>2, <2>3 DEF Shown
  <2>5. Map!Goto("First", p, 0, Map!Least(Map!In(p)), "gone")
    BY <1>2, <1>9, <2>1, <2>3, <2>4, GotoMaps
  <2> QED
    BY <2>2, <2>5 DEF Map!First
<1>11. CASE ~(0 < Len(s))
  <2>1. Placing(p, <<>>)
    BY <1>1, <1>2, <1>6, <1>11, PositionPlaces
  <2>2. CursorAt' = Where(p, "gone", 0) /\ CursorReads'
    BY <2>1, PlacedNowhere
  <2>3. ~(1 <= Len(s))
    BY <1>8, <1>11
  <2>5. Map!Goto("First", p, 0, Map!Least(Map!In(p)), "gone")
    BY <1>2, <1>9, <2>1, <2>2, <2>3, GotoMaps
  <2> QED
    BY <2>2, <2>5 DEF Map!First
<1> QED
  BY <1>10, <1>11

\* Cursor::last.
LEMMA LastMaps ==
  ASSUME BytesKept, Seen, Seen', NEW p \in DOMAIN opened, CursorLast(p)
  PROVE  Map!Last(p) /\ CursorReads'
<1>1. PICK bytes \in Bytes(p) : Position(p, LastStack(p, bytes))
  BY DEF CursorLast
<1>2. /\ InCall(p, {"ro", "rw"}) /\ mode \in {"ro", "rw"}
      /\ call' = [op |-> "Last", path |-> p, key |-> 0, len |-> 0]
  BY DEF CursorLast, InCall, Called
<1>3. PICK s, ref, n : /\ s = ListOf(p) /\ ref = PageNode(p, bytes)
                       /\ n = IF 0 < Len(s) THEN Len(s) - 1 ELSE IndexMod - 1
  OBVIOUS
<1>4. Inodes(p, bytes) = s /\ IsLeaf(p)
  BY <1>3, NoReuse, InView DEF Seen
<1>5. ref \in Refs /\ ref.leaf /\ ElementsAt(p, ref) = ListOf(p)
  BY <1>2, <1>3, <1>4, LeafNode DEF Seen
<1>6. LastStack(p, bytes) = <<At(ref, n)>>
  BY <1>2, <1>3, <1>4, LastLeaf DEF Seen
<1>7. Placing(p, <<At(ref, n)>>)
  BY <1>1, <1>2, <1>6, PositionPlaces
<1>8. /\ LeafList(s) /\ Len(s) \in Nat
      /\ Map!In(p) = {EntryOf(p, s[j]) : j \in 1 .. Len(s)}
      /\ \A j \in 1 .. Len(s) : s[j].key \in Int /\ EntryOf(p, s[j]).key = s[j].key
  BY <1>3, InRangeView
<1>9. /\ 1 <= Len(s) => Map!Greatest(Map!In(p)) = {EntryOf(p, s[Len(s)])}
      /\ ~(1 <= Len(s)) => Map!Greatest(Map!In(p)) = {}
  <2>1. Map!In(p) = Slice(p, s, 1, Len(s))
    BY <1>8 DEF Slice
  <2>s. PICK S : S = Map!In(p)
    OBVIOUS
  <2>2. PICK a \in Nat, b \in Nat : a = 1 /\ b = Len(s)
    BY <1>8
  <2>3. LeafList(s) /\ a >= 1 /\ b <= Len(s) /\ S = Slice(p, s, a, b)
    BY <1>8, <2>1, <2>2, <2>s
  <2>4. Ends(p, s, a, b, S)
    BY <2>3, RangeView
  <2> QED
    BY <2>2, <2>s, <2>4 DEF Ends
<1>10. CursorAt' = Shown(p, n, s) /\ CursorReads'
  <2>1. n <= Len(s) \/ s = <<>>
    <3>1. s \in Seq(LeafInodes)
      BY <1>8, ListFacts
    <3> QED
      BY <1>3, <1>8, <3>1
  <2> QED
    BY <1>3, <1>5, <1>7, <2>1, PlacedAt
<1>11. \/ Map!Greatest(Map!In(p)) = {} /\ CursorAt' = Where(p, "gone", 0)
       \/ \E e : Map!Greatest(Map!In(p)) = {e} /\ CursorAt' = Where(p, "at", e.key)
  <2>1. CASE 0 < Len(s)
    <3>1. /\ 1 <= Len(s) /\ Len(s) \in 1 .. Len(s)
          /\ n < Len(s) /\ n + 1 = Len(s)
      BY <1>3, <1>8, <2>1
    <3>2. CursorAt' = Where(p, "at", s[Len(s)].key)
      BY <1>10, <3>1 DEF Shown
    <3> QED
      BY <1>8, <1>9, <3>1, <3>2
  <2>2. CASE ~(0 < Len(s))
    <3>1. ~(1 <= Len(s)) /\ Len(s) = 0 /\ ~(n < Len(s))
      BY <1>3, <1>8, <2>2, KeyFacts
    <3> QED
      BY <1>9, <1>10, <3>1 DEF Shown
  <2> QED
    BY <2>1, <2>2
<1>12. Map!Goto("Last", p, 0, Map!Greatest(Map!In(p)), "gone")
  BY <1>2, <1>7, <1>11, GotoMaps
<1> QED
  BY <1>10, <1>12 DEF Map!Last

\* Where a cursor that is not out of date stands.
LEMMA CursorStands ==
  ASSUME Seen, CursorReads, mode \in {"ro", "rw"}, cursor.on, cursor.fresh, cursor.stack # <<>>,
         NEW p, p = cursor.path, NEW s, s = ListOf(p), NEW ref, ref = cursor.stack[1],
         NEW n, n = ref.index
  PROVE  /\ p \in DOMAIN opened /\ ref \in Refs /\ ref.leaf /\ ElementsAt(p, ref) = s
         /\ cursor.stack = <<At(ref, n)>> /\ At(ref, n) = ref
         /\ n \in 0 .. IndexMod - 1 /\ (n <= Len(s) \/ s = <<>>)
         /\ CursorAt = Shown(p, n, s)
<1>1. /\ Last(cursor.stack) \in Refs /\ Last(cursor.stack).leaf /\ cursor.path \in DOMAIN opened
      /\ Last(cursor.stack) = cursor.stack[Len(cursor.stack)]
  BY CursorTop DEF Seen
<1>2. /\ Len(cursor.stack) = 1 /\ ElementsAt(cursor.path, cursor.stack[1]) = ListOf(cursor.path)
      /\ cursor.stack[1].index <= Len(ListOf(cursor.path)) \/ ListOf(cursor.path) = <<>>
  BY DEF CursorReads
<1>3. p \in DOMAIN opened /\ ref \in Refs /\ ref.leaf /\ ElementsAt(p, ref) = s /\ Last(cursor.stack) = ref
  BY <1>1, <1>2
<1>4. At(ref, n) = ref
  BY <1>3, AtFacts
<1>5. cursor.stack = <<ref>>
  <2>1. cursor.stack \in Seq(Refs)
    BY DEF Seen, CursorOK
  <2> QED
    BY <1>2, <2>1
<1>6. n \in 0 .. IndexMod - 1
  BY <1>3 DEF Refs
<1>7. CursorAt = Shown(p, n, s)
  BY <1>3 DEF Seen, CursorShows
<1> QED
  BY <1>2, <1>3, <1>4, <1>5, <1>6, <1>7

\* What lies after and before a key of a bucket.
LEMMA AroundView ==
  ASSUME Seen, NEW p \in DOMAIN opened, NEW s, s = ListOf(p), NEW c \in 1 .. Len(s)
  PROVE  /\ {e \in Map!In(p) : e.key > s[c].key} = Slice(p, s, c + 1, Len(s))
         /\ {e \in Map!In(p) : e.key < s[c].key} = Slice(p, s, 1, c - 1)
<1>1. /\ LeafList(s) /\ Len(s) \in Nat
      /\ Map!In(p) = {EntryOf(p, s[j]) : j \in 1 .. Len(s)}
      /\ \A j \in 1 .. Len(s) : s[j].key \in Int /\ EntryOf(p, s[j]).key = s[j].key
      /\ \A i, j \in 1 .. Len(s) : i < j => s[i].key < s[j].key
  BY InRangeView
<1>2. \A j \in 1 .. Len(s) : /\ s[j].key > s[c].key <=> j \in c + 1 .. Len(s)
                             /\ s[j].key < s[c].key <=> j \in 1 .. c - 1
  <2> TAKE j \in 1 .. Len(s)
  <2>1. s[j].key \in Int /\ s[c].key \in Int
    BY <1>1
  <2>2. CASE j < c
    <3>1. s[j].key < s[c].key
      BY <1>1, <2>2
    <3> QED
      BY <1>1, <2>1, <2>2, <3>1
  <2>3. CASE j > c
    <3>1. s[c].key < s[j].key
      BY <1>1, <2>3
    <3> QED
      BY <1>1, <2>1, <2>3, <3>1
  <2>4. CASE j = c
    BY <1>1, <2>1, <2>4
  <2> QED
    BY <1>1, <2>2, <2>3, <2>4
<1>3. /\ \A j \in c + 1 .. Len(s) : j \in 1 .. Len(s)
      /\ \A j \in 1 .. c - 1 : j \in 1 .. Len(s)
  BY <1>1
<1>4. {e \in Map!In(p) : e.key > s[c].key} = {EntryOf(p, s[j]) : j \in c + 1 .. Len(s)}
  BY <1>1, <1>2, <1>3
<1>5. {e \in Map!In(p) : e.key < s[c].key} = {EntryOf(p, s[j]) : j \in 1 .. c - 1}
  BY <1>1, <1>2, <1>3
<1> QED
  BY <1>4, <1>5 DEF Slice

\* The next and the previous one.
Neighbours(p, s, c) ==
  /\ c < Len(s) => Map!Least({e \in Map!In(p) : e.key > s[c].key}) = {EntryOf(p, s[c + 1])}
  /\ ~(c < Len(s)) => Map!Least({e \in Map!In(p) : e.key > s[c].key}) = {}
  /\ c > 1 => Map!Greatest({e \in Map!In(p) : e.key < s[c].key}) = {EntryOf(p, s[c - 1])}
  /\ ~(c > 1) => Map!Greatest({e \in Map!In(p) : e.key < s[c].key}) = {}

\* The neighbours of a key are the ones before and after it in the list.
LEMMA NeighbourView ==
  ASSUME Seen, NEW p \in DOMAIN opened, NEW s, s = ListOf(p), NEW c \in 1 .. Len(s)
  PROVE  Neighbours(p, s, c)
<1>1. LeafList(s) /\ Len(s) \in Nat
  BY InRangeView
<1>2. PICK A, B : /\ A = {e \in Map!In(p) : e.key > s[c].key}
                  /\ B = {e \in Map!In(p) : e.key < s[c].key}
  OBVIOUS
<1>3. c + 1 \in Nat /\ c - 1 \in Nat
  BY <1>1
<1>31. PICK a \in Nat : a = c + 1
  BY <1>3
<1>32. PICK b \in Nat : b = c - 1
  BY <1>3
<1>33. PICK l \in Nat, f \in Nat : l = Len(s) /\ f = 1
  BY <1>1
<1>4. A = Slice(p, s, a, l) /\ B = Slice(p, s, f, b)
  BY <1>2, <1>31, <1>32, <1>33, AroundView
<1>5. a >= 1 /\ l <= Len(s) /\ f >= 1 /\ b <= Len(s)
  BY <1>1, <1>31, <1>32, <1>33
<1>6. Ends(p, s, a, l, A)
  BY <1>1, <1>4, <1>5, RangeView
<1>7. Ends(p, s, f, b, B)
  BY <1>1, <1>4, <1>5, RangeView
<1>8. /\ c < Len(s) => Map!Least(A) = {EntryOf(p, s[c + 1])}
      /\ ~(c < Len(s)) => Map!Least(A) = {}
  <2>1. c < Len(s) <=> a <= l
    BY <1>1, <1>31, <1>32, <1>33
  <2> QED
    BY <1>31, <1>32, <1>33, <1>6, <2>1 DEF Ends
<1>9. /\ c > 1 => Map!Greatest(B) = {EntryOf(p, s[c - 1])}
      /\ ~(c > 1) => Map!Greatest(B) = {}
  <2>1. c > 1 <=> f <= b
    BY <1>1, <1>31, <1>32, <1>33
  <2> QED
    BY <1>31, <1>32, <1>33, <1>7, <2>1 DEF Ends
<1> QED
  BY <1>2, <1>8, <1>9 DEF Neighbours

\* The last one.
LEMMA GreatestView ==
  ASSUME Seen, NEW p \in DOMAIN opened, NEW s, s = ListOf(p), Len(s) > 0
  PROVE  Map!Greatest(Map!In(p)) = {EntryOf(p, s[Len(s)])}
<1>1. /\ LeafList(s) /\ Len(s) \in Nat
      /\ Map!In(p) = {EntryOf(p, s[j]) : j \in 1 .. Len(s)}
  BY InRangeView
<1>s. PICK S : S = Map!In(p)
  OBVIOUS
<1>2. PICK a \in Nat, b \in Nat : a = 1 /\ b = Len(s)
  BY <1>1
<1>3. LeafList(s) /\ a >= 1 /\ b <= Len(s) /\ S = Slice(p, s, a, b)
  BY <1>1, <1>2, <1>s DEF Slice
<1>4. Ends(p, s, a, b, S)
  BY <1>3, RangeView
<1> QED
  BY <1>1, <1>2, <1>s, <1>4 DEF Ends

\* A cursor that is out of date stays so.
LEMMA WanderMaps ==
  ASSUME Seen, Seen', NEW op, NEW stack, Move(op, stack), ~cursor.fresh
  PROVE  Map!Wander(op) /\ CursorReads'
<1>1. /\ cursor.on /\ UNCHANGED <<mode, opened, pages, used>>
      /\ cursor' = [cursor EXCEPT !.stack = stack]
      /\ call' = [op |-> op, path |-> cursor.path, key |-> 0, len |-> 0]
  BY DEF Move, InCall, Called, file
<1>2. cursor'.on = cursor.on /\ cursor'.path = cursor.path /\ cursor'.fresh = cursor.fresh
  BY <1>1 DEF Seen, CursorOK
<1>3. CursorAt = Where(cursor.path, "stale", 0) /\ CursorAt' = Where(cursor.path, "stale", 0)
  BY <1>1, <1>2 DEF Seen, CursorShows
<1>4. CursorAt.at = "stale" /\ CursorAt.path = cursor.path
  BY <1>3 DEF Where
<1>5. /\ Entries(Working)' = Entries(Working) /\ Entries(Committed)' = Entries(Committed)
  BY <1>1, SameEntries DEF Seen
<1>6. CursorReads'
  BY <1>1, <1>2 DEF CursorReads
<1> QED
  BY <1>1, <1>3, <1>4, <1>5, <1>6 DEF Map!Wander, Map!Called

\* A move places a cursor that is up to date.
LEMMA MovePlaces ==
  ASSUME Seen, NEW op, NEW stack, Move(op, stack), cursor.fresh
  PROVE  /\ Placing(cursor.path, stack) /\ cursor.on /\ cursor.path \in DOMAIN opened
         /\ mode \in {"ro", "rw"}
         /\ call' = [op |-> op, path |-> cursor.path, key |-> 0, len |-> 0]
<1>1. /\ cursor.on /\ UNCHANGED <<mode, opened, pages, used>> /\ mode \in {"ro", "rw"}
      /\ cursor' = [cursor EXCEPT !.stack = stack] /\ cursor.path \in DOMAIN opened
      /\ call' = [op |-> op, path |-> cursor.path, key |-> 0, len |-> 0]
  BY DEF Move, InCall, Called, file
<1>2. /\ cursor'.on = cursor.on /\ cursor'.path = cursor.path /\ cursor'.fresh = cursor.fresh
      /\ cursor'.stack = stack
  BY <1>1 DEF Seen, CursorOK
<1> QED
  BY <1>1, <1>2 DEF Placing

\* Where the map says a move goes, by where the cursor stands.
LEMMA MoveNextFrom ==
  ASSUME NEW p, NEW a, NEW k, CursorAt = Where(p, a, k),
         \/ a \in {"end", "gone"} /\ Map!Goto("Next", p, 0, {}, "gone")
         \/ /\ a = "at"
            /\ Map!Goto("Next", p, 0, Map!Least({e \in Map!In(p) : e.key > k}), "gone")
  PROVE  Map!MoveNext
<1>1. CursorAt.path = p /\ CursorAt.at = a /\ CursorAt.key = k
  BY DEF Where
<1> QED
  BY <1>1 DEF Map!MoveNext

\* The same for a move back.
LEMMA MovePrevFrom ==
  ASSUME NEW p, NEW a, NEW k, CursorAt = Where(p, a, k),
         \/ a = "gone" /\ Map!Goto("Prev", p, 0, {}, "gone")
         \/ a = "end" /\ Map!Goto("Prev", p, 0, Map!Greatest(Map!In(p)), "gone")
         \/ /\ a = "at"
            /\ Map!Goto("Prev", p, 0, Map!Greatest({e \in Map!In(p) : e.key < k}), "gone")
  PROVE  Map!MovePrev
<1>1. CursorAt.path = p /\ CursorAt.at = a /\ CursorAt.key = k
  BY DEF Where
<1> QED
  BY <1>1 DEF Map!MovePrev

\* A cursor that leaves its bucket is gone.
LEMMA MoveAway ==
  ASSUME Seen, Seen', NEW p \in DOMAIN opened, Placing(p, <<>>), NEW op,
         call' = [op |-> op, path |-> p, key |-> 0, len |-> 0]
  PROVE  Map!Goto(op, p, 0, {}, "gone") /\ CursorReads'
<1>1. CursorAt' = Where(p, "gone", 0) /\ CursorReads'
  BY PlacedNowhere
<1>2. PICK E : E = {}
  OBVIOUS
<1>3. Map!Goto(op, p, 0, E, "gone")
  BY <1>1, <1>2, GotoMaps
<1> QED
  BY <1>1, <1>2, <1>3

\* A cursor that is placed at an element of its bucket is at its key.
LEMMA MoveTo ==
  ASSUME Seen, Seen', NEW p \in DOMAIN opened, NEW s, s = ListOf(p), NEW ref \in Refs, ref.leaf,
         ElementsAt(p, ref) = s, NEW n \in Nat, n < Len(s), Placing(p, <<At(ref, n)>>),
         NEW op, call' = [op |-> op, path |-> p, key |-> 0, len |-> 0],
         NEW E, E = {EntryOf(p, s[n + 1])}
  PROVE  Map!Goto(op, p, 0, E, "gone") /\ CursorReads'
<1>1. Len(s) \in Nat /\ \A j \in 1 .. Len(s) : EntryOf(p, s[j]).key = s[j].key
  BY InRangeView
<1>2. CursorAt' = Shown(p, n, s) /\ CursorReads'
  BY <1>1, PlacedAt
<1>3. n + 1 \in 1 .. Len(s)
  BY <1>1
<1>4. CursorAt' = Where(p, "at", EntryOf(p, s[n + 1]).key)
  BY <1>1, <1>2, <1>3 DEF Shown
<1>5. Map!Goto(op, p, 0, E, "gone")
  BY <1>4, GotoMaps
<1> QED
  BY <1>2, <1>5

\* Cursor::next.
LEMMA NextMaps ==
  ASSUME Seen, Seen', CursorReads, CursorNext
  PROVE  Map!MoveNext /\ CursorReads'
<1>1. CASE ~cursor.fresh
  <2>1. Map!Wander("Next") /\ CursorReads'
    BY <1>1, WanderMaps DEF CursorNext
  <2> QED
    BY <2>1 DEF Map!MoveNext
<1>2. CASE cursor.fresh
  <2>1. PICK p, stack : p = cursor.path /\ stack = NextStack(cursor.path, cursor.stack)
    OBVIOUS
  <2>2. /\ Placing(p, stack) /\ cursor.on /\ p \in DOMAIN opened /\ mode \in {"ro", "rw"}
        /\ call' = [op |-> "Next", path |-> p, key |-> 0, len |-> 0]
    BY <1>2, <2>1, MovePlaces DEF CursorNext
  <2>3. CASE cursor.stack = <<>>
    <3>1. stack = <<>>
      BY <2>1, <2>3, MoveNowhere
    <3>2. Map!Goto("Next", p, 0, {}, "gone") /\ CursorReads'
      BY <2>2, <3>1, MoveAway
    <3>3. CursorAt = Where(p, "gone", 0)
      BY <1>2, <2>1, <2>2, <2>3 DEF Seen, CursorShows
    <3> QED
      BY <3>2, <3>3, MoveNextFrom
  <2>4. CASE cursor.stack # <<>>
    <3>1. PICK s, ref, n : s = ListOf(p) /\ ref = cursor.stack[1] /\ n = ref.index
      OBVIOUS
    <3>2. /\ ref \in Refs /\ ref.leaf /\ ElementsAt(p, ref) = s
          /\ cursor.stack = <<At(ref, n)>> /\ At(ref, n) = ref
          /\ n \in 0 .. IndexMod - 1 /\ (n <= Len(s) \/ s = <<>>)
          /\ CursorAt = Shown(p, n, s)
      BY <1>2, <2>1, <2>2, <2>4, <3>1, CursorStands
    <3>3. LeafList(s) /\ Len(s) \in Nat
      BY <2>2, <3>1, InRangeView
    <3>4. stack = NextStack(p, <<At(ref, n)>>)
      BY <2>1, <3>2
    <3>5. CASE s = <<>>
      <4>1. stack = <<>>
        BY <3>2, <3>4, <3>5, MoveNowhere
      <4>2. Map!Goto("Next", p, 0, {}, "gone") /\ CursorReads'
        BY <2>2, <4>1, MoveAway
      <4>3. CursorAt = Where(p, "gone", 0)
        <5>1. Len(s) = 0 /\ ~(n < Len(s))
          BY <3>2, <3>5
        <5> QED
          BY <3>2, <5>1 DEF Shown
      <4> QED
        BY <4>2, <4>3, MoveNextFrom
    <3>6. CASE s # <<>>
      <4>1. n \in 0 .. Len(s) /\ n \in Nat /\ Len(s) # 0
        BY <3>2, <3>3, <3>6 DEF LeafList
      <4>2. stack = IF n + 1 < Len(s) THEN <<At(ref, n + 1)>> ELSE <<>>
        BY <3>2, <3>3, <3>4, <4>1, NextLeaf
      <4>3. CASE n < Len(s)
        <5>1. PICK c \in Nat : c = n + 1
          BY <4>1
        <5>2. c \in 1 .. Len(s)
          BY <3>3, <4>1, <4>3, <5>1
        <5>3. CursorAt = Where(p, "at", s[c].key)
          BY <3>2, <4>3, <5>1 DEF Shown
        <5>4. PICK E : E = Map!Least({e \in Map!In(p) : e.key > s[c].key})
          OBVIOUS
        <5>5. Neighbours(p, s, c)
          BY <2>2, <3>1, <5>2, NeighbourView
        <5>6. /\ c < Len(s) => E = {EntryOf(p, s[c + 1])}
              /\ ~(c < Len(s)) => E = {}
          BY <5>4, <5>5 DEF Neighbours
        <5>7. Map!Goto("Next", p, 0, E, "gone") /\ CursorReads'
          <6>1. CASE c < Len(s)
            <7>1. Placing(p, <<At(ref, c)>>)
              BY <2>2, <4>2, <5>1, <6>1
            <7> QED
              BY <2>2, <3>1, <3>2, <5>6, <6>1, <7>1, MoveTo
          <6>2. CASE ~(c < Len(s))
            <7>1. Placing(p, <<>>)
              BY <2>2, <4>2, <5>1, <6>2
            <7> QED
              BY <2>2, <5>6, <6>2, <7>1, MoveAway
          <6> QED
            BY <6>1, <6>2
        <5> QED
          BY <5>3, <5>4, <5>7, MoveNextFrom
      <4>4. CASE ~(n < Len(s))
        <5>1. stack = <<>>
          BY <3>3, <4>1, <4>2, <4>4
        <5>2. Map!Goto("Next", p, 0, {}, "gone") /\ CursorReads'
          BY <2>2, <5>1, MoveAway
        <5>3. CursorAt = Where(p, "end", 0)
          BY <3>2, <4>1, <4>4 DEF Shown
        <5> QED
          BY <5>2, <5>3, MoveNextFrom
      <4> QED
        BY <4>3, <4>4
    <3> QED
      BY <3>5, <3>6
  <2> QED
    BY <2>3, <2>4
<1> QED
  BY <1>1, <1>2

\* Cursor::prev.
LEMMA PrevMaps ==
  ASSUME Seen, Seen', CursorReads, CursorPrev
  PROVE  Map!MovePrev /\ CursorReads'
<1>1. CASE ~cursor.fresh
  <2>1. Map!Wander("Prev") /\ CursorReads'
    BY <1>1, WanderMaps DEF CursorPrev
  <2> QED
    BY <2>1 DEF Map!MovePrev
<1>2. CASE cursor.fresh
  <2>1. PICK p, stack : p = cursor.path /\ stack = PrevStack(cursor.path, cursor.stack)
    OBVIOUS
  <2>2. /\ Placing(p, stack) /\ cursor.on /\ p \in DOMAIN opened /\ mode \in {"ro", "rw"}
        /\ call' = [op |-> "Prev", path |-> p, key |-> 0, len |-> 0]
    BY <1>2, <2>1, MovePlaces DEF CursorPrev
  <2>3. CASE cursor.stack = <<>>
    <3>1. stack = <<>>
      BY <2>1, <2>3, MoveNowhere
    <3>2. Map!Goto("Prev", p, 0, {}, "gone") /\ CursorReads'
      BY <2>2, <3>1, MoveAway
    <3>3. CursorAt = Where(p, "gone", 0)
      BY <1>2, <2>1, <2>2, <2>3 DEF Seen, CursorShows
    <3> QED
      BY <3>2, <3>3, MovePrevFrom
  <2>4. CASE cursor.stack # <<>>
    <3>1. PICK s, ref, n : s = ListOf(p) /\ ref = cursor.stack[1] /\ n = ref.index
      OBVIOUS
    <3>2. /\ ref \in Refs /\ ref.leaf /\ ElementsAt(p, ref) = s
          /\ cursor.stack = <<At(ref, n)>> /\ At(ref, n) = ref
          /\ n \in 0 .. IndexMod - 1 /\ (n <= Len(s) \/ s = <<>>)
          /\ CursorAt = Shown(p, n, s)
      BY <1>2, <2>1, <2>2, <2>4, <3>1, CursorStands
    <3>3. LeafList(s) /\ Len(s) \in Nat /\ n \in Nat
      BY <2>2, <3>1, <3>2, InRangeView, KeyFacts
    <3>4. stack = IF n > 0 THEN <<At(ref, n - 1)>> ELSE <<>>
      BY <2>1, <3>2, PrevLeaf
    <3>5. CASE s = <<>>
      <4>1. Len(s) = 0 /\ ~(n < Len(s)) /\ \A m \in Nat : ~(m < Len(s))
        BY <3>3, <3>5
      <4>2. CursorAt = Where(p, "gone", 0)
        BY <3>2, <4>1 DEF Shown
      <4>3. Map!Goto("Prev", p, 0, {}, "gone") /\ CursorReads'
        <5>1. CASE n > 0
          <6>1. PICK m \in Nat : m = n - 1
            BY <3>3, <5>1
          <6>2. Placing(p, <<At(ref, m)>>)
            BY <2>2, <3>4, <5>1, <6>1
          <6>3. CursorAt' = Shown(p, m, s) /\ CursorReads'
            BY <2>2, <3>1, <3>2, <3>5, <6>2, PlacedAt
          <6>4. CursorAt' = Where(p, "gone", 0)
            BY <4>1, <6>3 DEF Shown
          <6>5. PICK E : E = {}
            OBVIOUS
          <6>6. Map!Goto("Prev", p, 0, E, "gone")
            BY <2>2, <6>2, <6>4, <6>5, GotoMaps
          <6> QED
            BY <6>3, <6>5, <6>6
        <5>2. CASE ~(n > 0)
          BY <2>2, <3>4, <5>2, MoveAway
        <5> QED
          BY <5>1, <5>2
      <4> QED
        BY <4>2, <4>3, MovePrevFrom
    <3>6. CASE s # <<>>
      <4>1. n \in 0 .. Len(s) /\ Len(s) > 0
        BY <3>2, <3>3, <3>6 DEF LeafList
      <4>3. CASE n < Len(s)
        <5>1. PICK c \in Nat : c = n + 1
          BY <3>3
        <5>2. c \in 1 .. Len(s)
          BY <3>3, <4>1, <4>3, <5>1
        <5>3. CursorAt = Where(p, "at", s[c].key)
          BY <3>2, <4>3, <5>1 DEF Shown
        <5>4. PICK E : E = Map!Greatest({e \in Map!In(p) : e.key < s[c].key})
          OBVIOUS
        <5>5. Neighbours(p, s, c)
          BY <2>2, <3>1, <5>2, NeighbourView
        <5>6. /\ c > 1 => E = {EntryOf(p, s[c - 1])}
              /\ ~(c > 1) => E = {}
          BY <5>4, <5>5 DEF Neighbours
        <5>7. Map!Goto("Prev", p, 0, E, "gone") /\ CursorReads'
          <6>1. CASE n > 0
            <7>1. PICK m \in Nat : m = n - 1
              BY <3>3, <6>1
            <7>2. Placing(p, <<At(ref, m)>>)
              BY <2>2, <3>4, <6>1, <7>1
            <7>3. m < Len(s) /\ c > 1 /\ c - 1 = m + 1
              BY <3>3, <4>1, <5>1, <6>1, <7>1
            <7>4. E = {EntryOf(p, s[m + 1])}
              BY <5>6, <7>3
            <7> QED
              BY <2>2, <3>1, <3>2, <7>2, <7>3, <7>4, MoveTo
          <6>2. CASE ~(n > 0)
            <7>1. Placing(p, <<>>)
              BY <2>2, <3>4, <6>2
            <7>2. ~(c > 1)
              BY <3>3, <5>1, <6>2
            <7> QED
              BY <2>2, <5>6, <7>1, <7>2, MoveAway
          <6> QED
            BY <6>1, <6>2
        <5> QED
          BY <5>3, <5>4, <5>7, MovePrevFrom
      <4>4. CASE ~(n < Len(s))
        <5>1. PICK m \in Nat : m = n - 1
          BY <3>3, <4>1, <4>4
        <5>2. n > 0 /\ m < Len(s) /\ m + 1 = Len(s)
          BY <3>3, <4>1, <4>4, <5>1
        <5>3. Placing(p, <<At(ref, m)>>)
          BY <2>2, <3>4, <5>1, <5>2
        <5>4. PICK E : E = Map!Greatest(Map!In(p))
          OBVIOUS
        <5>5. E = {EntryOf(p, s[m + 1])}
          BY <2>2, <3>1, <4>1, <5>2, <5>4, GreatestView
        <5>6. Map!Goto("Prev", p, 0, E, "gone") /\ CursorReads'
          BY <2>2, <3>1, <3>2, <5>2, <5>3, <5>5, MoveTo
        <5>7. CursorAt = Where(p, "end", 0)
          BY <3>2, <4>1, <4>4 DEF Shown
        <5> QED
          BY <5>4, <5>6, <5>7, MovePrevFrom
      <4> QED
        BY <4>3, <4>4
    <3> QED
      BY <3>5, <3>6
  <2> QED
    BY <2>3, <2>4
<1> QED
  BY <1>1, <1>2

---------------------------------------------------------------------------
(* What a cursor reads stays its bucket's list.                            *)

\* A cursor that stays where it is keeps reading the list of its bucket, as long
\* as the list stays the same.
LEMMA ReadsStay ==
  ASSUME CursorReads, cursor'.on = cursor.on, cursor'.path = cursor.path,
         cursor'.stack = cursor.stack, cursor'.fresh => cursor.fresh,
         NEW p, p = cursor.path,
         mode' \in {"ro", "rw"} /\ cursor.on /\ cursor'.fresh =>
           /\ mode \in {"ro", "rw"} /\ ListOf(p)' = ListOf(p)
           /\ \A ref : ElementsAt(p, ref) = ListOf(p) => ElementsAt(p, ref)' = ListOf(p)
  PROVE  CursorReads'
<1>1. ~cursor'.on => cursor'.path = <<>>
  BY DEF CursorReads
<1>2. ASSUME mode' \in {"ro", "rw"}, cursor'.on, cursor'.fresh, cursor'.stack # <<>>
      PROVE  /\ Len(cursor'.stack) = 1
             /\ ElementsAt(cursor.path, cursor.stack[1])' = ListOf(cursor.path)'
             /\ cursor'.stack[1].index <= Len(ListOf(cursor.path)') \/ ListOf(cursor.path)' = <<>>
  <2>1. /\ Len(cursor.stack) = 1
        /\ ElementsAt(p, cursor.stack[1]) = ListOf(p)
        /\ cursor.stack[1].index <= Len(ListOf(p)) \/ ListOf(p) = <<>>
    BY <1>2 DEF CursorReads
  <2>2. PICK ref : ref = cursor.stack[1]
    OBVIOUS
  <2>3. ElementsAt(p, ref)' = ListOf(p) /\ ListOf(p)' = ListOf(p)
    BY <1>2, <2>1, <2>2
  <2>4. cursor.path' = p /\ cursor.stack[1]' = ref
    BY <2>2
  <2>5. ElementsAt(cursor.path, cursor.stack[1])' = ElementsAt(p, ref)'
    BY <2>4 DEF ElementsAt
  <2>6. ListOf(cursor.path)' = ListOf(p)'
    BY <2>4 DEF ListOf, Inodes, PageNode
  <2> QED
    BY <2>1, <2>2, <2>3, <2>4, <2>5, <2>6
<1> QED
  BY <1>1, <1>2 DEF CursorReads

\* So it does after a change of a node.
LEMMA TouchReads ==
  ASSUME Seen, CursorReads, mode = "rw", pages' = pages, NEW p \in DOMAIN opened,
         NEW new, Touch(p, ListOf(p), new),
         \A y \in DOMAIN opened \ {p} : opened'[y] = opened[y],
         opened'[p].node = new, opened'[p].hasNode
  PROVE  CursorReads'
<1>1. /\ cursor'.on = cursor.on /\ cursor'.path = cursor.path /\ cursor'.stack = cursor.stack
      /\ cursor'.fresh => cursor.fresh /\ (cursor.on /\ cursor.path = p => ListOf(p) = new)
  BY DEF Touch, Seen, CursorOK
<1>2. PICK y : y = cursor.path
  OBVIOUS
<1>3. ASSUME cursor.on, cursor'.fresh
      PROVE  /\ ListOf(y)' = ListOf(y)
             /\ \A ref : ElementsAt(y, ref) = ListOf(y) => ElementsAt(y, ref)' = ListOf(y)
  <2>1. y \in DOMAIN opened
    BY <1>2, <1>3 DEF Seen, CursorOK
  <2>2. CASE y # p
    <3>1. opened'[y] = opened[y]
      BY <2>1, <2>2
    <3>2. ListOf(y)' = ListOf(y)
      BY <3>1, SameList
    <3>3. \A ref : ElementsAt(y, ref)' = ElementsAt(y, ref)
      BY <3>1 DEF ElementsAt
    <3> QED
      BY <3>2, <3>3
  <2>3. CASE y = p
    <3>1. new = ListOf(p)
      BY <1>1, <1>2, <1>3, <2>3
    <3>2. ListOf(p)' = new
      BY DEF ListOf, Inodes
    <3>3. \A ref : ElementsAt(p, ref) = ListOf(p) => ElementsAt(p, ref)' = ListOf(p)
      BY <3>1 DEF ElementsAt
    <3> QED
      BY <2>3, <3>1, <3>2, <3>3
  <2> QED
    BY <2>2, <2>3
<1> QED
  BY <1>1, <1>2, <1>3, ReadsStay

\* So it does after a put or a removal.
LEMMA ModifyReads ==
  ASSUME BytesKept, Seen, CursorReads, NEW p \in DOMAIN opened, InCall(p, {"rw"}),
         NEW bytes \in Bytes(p), NEW new, Modify(p, bytes, new)
  PROVE  CursorReads'
<1>1. Inodes(p, bytes) = ListOf(p)
  BY NoReuse
<1>2. /\ mode = "rw" /\ pages' = pages /\ Touch(p, ListOf(p), new)
      /\ opened' = [opened EXCEPT ![p] = WithNode(@, ListOf(p), new)]
  BY <1>1 DEF InCall, Modify, file
<1> DEFINE b == WithNode(opened[p], ListOf(p), new)
<1>3. opened[p] \in Objects
  BY DEF Seen, TreeInv, ObjectsAreBuckets
<1>4. Noded(b, opened[p], new)
  BY <1>3, WithNodeFacts
<1>5. b.hasNode = TRUE /\ b.node = new
  BY <1>4 DEF Noded
<1>6. opened'[p] = b /\ \A y \in DOMAIN opened \ {p} : opened'[y] = opened[y]
  BY <1>2
<1> HIDE DEF b
<1> QED
  BY <1>2, <1>5, <1>6, TouchReads

\* A new bucket is opened.
LEMMA CreateReads ==
  ASSUME BytesKept, Seen, Seen', CursorReads, NEW p \in DOMAIN opened, NEW k \in Names,
         CreateBucket(p, k)
  PROVE  CursorReads'
<1>x. PICK x : x = Leaf(k, bucketLeafFlag, InlineValue(<<>>))
  OBVIOUS
<1>1. PICK bytes \in Bytes(p) :
        /\ Found(p, k, bytes) = {}
        /\ Created(p, k, Inodes(p, bytes), x)
        /\ Touch(p, Inodes(p, bytes), put(Inodes(p, bytes), k, x))
  BY <1>x DEF CreateBucket, Created
<1>2. PICK s, new : s = ListOf(p) /\ new = put(s, k, x)
  OBVIOUS
<1>3. Inodes(p, bytes) = s
  BY <1>2, NoReuse
<1>4. mode = "rw" /\ UNCHANGED <<pages, used, rootPage>>
  BY DEF CreateBucket, InCall, file
<1>5. /\ \A y \in DOMAIN opened : y # p => opened'[y] = opened[y]
      /\ opened'[p].hasNode /\ opened'[p].node = new
  <2>1. Created(p, k, s, x)
    BY <1>1, <1>3
  <2>2. /\ Found(p, k, bytes) = {} /\ s = Inodes(p, bytes)
        /\ TreeInv /\ AllLeaf /\ NothingLoose /\ Views /\ Views'
    BY <1>1, <1>3 DEF Seen
  <2>3. CreatedView(p, k, s, x)
    BY <1>x, <1>4, <2>1, <2>2, CreateView
  <2> QED
    BY <1>2, <2>3 DEF CreatedView
<1>6. Touch(p, ListOf(p), new)
  BY <1>1, <1>2, <1>3
<1> QED
  BY <1>4, <1>5, <1>6, TouchReads

\* A bucket of the file is opened.
LEMMA OpenReads ==
  ASSUME Seen, CursorReads, NEW p \in DOMAIN opened, NEW k \in Names, OpenBucket(p, k)
  PROVE  CursorReads' /\ \A y \in DOMAIN opened : opened'[y] = opened[y]
<1>1. /\ cursor' = cursor /\ mode' = mode /\ pages' = pages
      /\ Append(p, k) \notin DOMAIN opened /\ \E b : opened' = With(opened, Append(p, k), b)
  BY DEF OpenBucket, file
<1>2. \A y \in DOMAIN opened : opened'[y] = opened[y]
  BY <1>1 DEF With
<1>3. PICK y : y = cursor.path
  OBVIOUS
<1>4. ASSUME cursor.on
      PROVE  /\ ListOf(y)' = ListOf(y)
             /\ \A ref : ElementsAt(y, ref) = ListOf(y) => ElementsAt(y, ref)' = ListOf(y)
  <2>1. opened'[y] = opened[y]
    BY <1>2, <1>3, <1>4 DEF Seen, CursorOK
  <2>2. ListOf(y)' = ListOf(y)
    BY <1>1, <2>1, SameList
  <2>3. \A ref : ElementsAt(y, ref)' = ElementsAt(y, ref)
    BY <2>1 DEF ElementsAt
  <2> QED
    BY <2>2, <2>3
<1>5. CursorReads'
  BY <1>1, <1>3, <1>4, ReadsStay
<1> QED
  BY <1>2, <1>5

\* A step that leaves the objects and the cursor alone, and a commit.
LEMMA StillReads ==
  ASSUME CursorReads, cursor' = cursor,
         mode' \in {"ro", "rw"} => UNCHANGED <<mode, opened, pages>>
  PROVE  CursorReads'
<1>1. PICK y : y = cursor.path
  OBVIOUS
<1>2. ASSUME mode' \in {"ro", "rw"}
      PROVE  /\ mode \in {"ro", "rw"} /\ ListOf(y)' = ListOf(y)
             /\ \A ref : ElementsAt(y, ref) = ListOf(y) => ElementsAt(y, ref)' = ListOf(y)
  <2>1. opened' = opened /\ pages' = pages /\ mode' = mode
    BY <1>2
  <2>2. ListOf(y)' = ListOf(y)
    BY <2>1, SameList
  <2>3. \A ref : ElementsAt(y, ref)' = ElementsAt(y, ref)
    BY <2>1 DEF ElementsAt
  <2> QED
    BY <1>2, <2>1, <2>2, <2>3
<1> QED
  BY <1>1, <1>2, ReadsStay

\* There is no cursor.
LEMMA NoCursorReads ==
  ASSUME cursor' = NoCursor
  PROVE  CursorReads'
  BY DEF CursorReads, NoCursor

---------------------------------------------------------------------------
(* Then, transactions.                                                     *)

\* No cursor, for the user.
LEMMA NoCursorShows ==
  ASSUME CursorShows', cursor' = NoCursor
  PROVE  CursorAt' = Map!NoCursor
  BY DEF CursorShows, NoCursor, Where, Map!NoCursor

\* A transaction begins.
LEMMA BeginMaps ==
  ASSUME Seen, Seen', NEW m \in {"ro", "rw"}, Begin(m)
  PROVE  Map!Begin(m) /\ CursorReads'
<1>1. /\ mode = "none" /\ mode' = m /\ cursor' = NoCursor /\ UNCHANGED <<pages, used>>
      /\ call' = [op |-> "Begin", path |-> <<>>, key |-> 0, len |-> 0]
  BY DEF Begin, Called, file
<1>2. Entries(Working)' = Entries(Committed) /\ Entries(Committed)' = Entries(Committed)
  BY <1>1, BeginView, FileStays DEF Seen
<1>3. CursorAt' = Map!NoCursor /\ CursorReads'
  BY <1>1, NoCursorShows, NoCursorReads DEF Seen
<1> QED
  BY <1>1, <1>2, <1>3 DEF Map!Begin, Map!Called

\* Opening a bucket is not seen.
LEMMA OpenMaps ==
  ASSUME Seen, Seen', CursorReads, NEW p \in DOMAIN opened, NEW k \in Names, OpenBucket(p, k)
  PROVE  UNCHANGED Map!vars /\ CursorReads'
<1>1. CursorReads' /\ \A y \in DOMAIN opened : opened'[y] = opened[y]
  BY OpenReads
<1>2. UNCHANGED <<pages, used, mode, cursor, call>>
  BY DEF OpenBucket, file
<1>3. Entries(Working)' = Entries(Working) /\ Entries(Committed)' = Entries(Committed)
  BY <1>2, OpenView, FileStays DEF Seen
<1>4. CursorAt' = CursorAt
  <2> SUFFICES ASSUME cursor.on, cursor.stack # <<>>
               PROVE  SameKeys(ElementsAt(cursor.path, Last(cursor.stack)),
                               ElementsAt(cursor.path, Last(cursor.stack))')
    BY <1>2, CursorStaysThere DEF Seen
  <2>1. opened'[cursor.path] = opened[cursor.path]
    BY <1>1 DEF Seen, CursorOK
  <2>2. ElementsAt(cursor.path, Last(cursor.stack))' = ElementsAt(cursor.path, Last(cursor.stack))
    BY <1>2, <2>1 DEF ElementsAt
  <2> QED
    BY <2>2 DEF SameKeys
<1> QED
  BY <1>1, <1>2, <1>3, <1>4 DEF Map!vars

\* A step of a commit, before the last, is not seen.
LEMMA SpillMaps ==
  ASSUME Seen, Seen', CursorReads, NEW p \in todo,
         SpillNothing(p) \/ SpillInline(p) \/ SpillNode(p)
  PROVE  UNCHANGED Map!vars /\ CursorReads'
<1>1. /\ mode = "spill" /\ UNCHANGED <<used, mode, cursor, call>> /\ p \in DOMAIN opened
  BY DEF SpillNothing, SpillInline, SpillNode, Spilled, Ready, file, Seen, TreeInv, CommitProceeds
<1>2. CursorReads'
  BY <1>1, StillReads
<1>3. CASE SpillNothing(p)
  <2>1. UNCHANGED <<opened, pages, used>>
    BY <1>3 DEF SpillNothing, file
  <2>2. Entries(Working)' = Entries(Working) /\ Entries(Committed)' = Entries(Committed)
    BY <2>1, SameEntries DEF Seen
  <2>3. CursorAt' = CursorAt
    BY <1>1, <2>1 DEF CursorAt, InRange, RefCount, ElementsAt, Current
  <2> QED
    BY <1>1, <1>2, <2>2, <2>3 DEF Map!vars
<1>4. CASE SpillInline(p) \/ SpillNode(p)
  <2>1. PICK x : Reput(p, x)
    BY <1>4, SpillReputs DEF Seen
  <2>2. Entries(Working)' = Entries(Working)
    BY <1>1, <2>1, SpillView DEF Seen
  <2>3. CursorAt' = CursorAt
    BY <1>1, <2>1, SpillShows DEF Seen
  <2>4. Entries(Committed)' = Entries(Committed)
    <3>1. used' = used /\ \A u \in used : pages'[u] = pages[u]
      BY <2>1 DEF Reput
    <3> QED
      BY <3>1, FileStays DEF Seen
  <2> QED
    BY <1>1, <1>2, <2>2, <2>3, <2>4 DEF Map!vars
<1> QED
  BY <1>3, <1>4

\* Neither is the beginning of a commit.
LEMMA StartMaps ==
  ASSUME Seen, Seen', CursorReads, StartCommit
  PROVE  UNCHANGED Map!vars /\ CursorReads'
<1>1. /\ mode = "rw" /\ mode' = "spill" /\ UNCHANGED <<opened, pages, used, cursor, call>>
  BY DEF StartCommit, file
<1>2. Entries(Working)' = Entries(Working) /\ Entries(Committed)' = Entries(Committed)
  BY <1>1, SameEntries DEF Seen
<1>3. CursorAt' = CursorAt
  BY <1>1 DEF CursorAt, InRange, RefCount, ElementsAt, Current
<1>4. CursorReads'
  BY <1>1, StillReads
<1> QED
  BY <1>1, <1>2, <1>3, <1>4 DEF Map!vars

\* Once there is no transaction there is one set of entries.
LEMMA NoneOpen ==
  ASSUME Seen', opened' = <<>>
  PROVE  Entries(Working)' = Entries(Committed)'
<1>1. DOMAIN opened' = {}
  OBVIOUS
<1> QED
  BY <1>1 DEF Seen, Views

\* The last step of a commit is what the user sees of it.
LEMMA CommitMaps ==
  ASSUME Seen, Seen', Commit
  PROVE  Map!Commit /\ CursorReads'
<1>1. /\ mode = "spill" /\ mode' = "none" /\ cursor' = NoCursor /\ opened' = <<>>
      /\ call' = [op |-> "Commit", path |-> <<>>, key |-> 0, len |-> 0]
  BY DEF Commit, Over, Called
<1>2. Entries(Committed)' = Entries(Working) /\ Entries(Working)' = Entries(Committed)'
  BY <1>1, CommitView, NoneOpen DEF Seen
<1>3. CursorAt' = Map!NoCursor /\ CursorReads'
  BY <1>1, NoCursorShows, NoCursorReads DEF Seen
<1> QED
  BY <1>1, <1>2, <1>3 DEF Map!Commit, Map!End, Map!Called

\* Tx::rollback.
LEMMA RollbackMaps ==
  ASSUME Seen, Seen', Rollback
  PROVE  Map!Rollback /\ CursorReads'
<1>1. /\ mode \in {"ro", "rw"} /\ mode' = "none" /\ cursor' = NoCursor /\ opened' = <<>>
      /\ call' = [op |-> "Rollback", path |-> <<>>, key |-> 0, len |-> 0]
      /\ UNCHANGED <<pages, used>>
  BY DEF Rollback, Over, Called, file
<1>2. Entries(Committed)' = Entries(Committed) /\ Entries(Working)' = Entries(Committed)'
  BY <1>1, FileStays, NoneOpen DEF Seen
<1>3. CursorAt' = Map!NoCursor /\ CursorReads'
  BY <1>1, NoCursorShows, NoCursorReads DEF Seen
<1> QED
  BY <1>1, <1>2, <1>3 DEF Map!Rollback, Map!End, Map!Called

\* Calls that are not served.  The process ends, in a call or in a commit, and is
\* started again; Bucket::deleteBucket refuses a bucket.
LEMMA NotServed ==
  ASSUME Seen, Seen', CursorReads,
         \/ \E op, p, k : Abort(op, p, k) \/ DeleteBucket(p, k)
         \/ \E p \in todo : SpillAborts(p)
         \/ Restart
  PROVE  /\ Served => UNCHANGED Map!vars
         /\ Entries(Committed)' = Entries(Committed) /\ CursorReads'
<1>1. CASE \/ \E op, p, k : Abort(op, p, k)
           \/ \E p \in todo : SpillAborts(p)
           \/ Restart
  <2>1. /\ UNCHANGED <<pages, used>> /\ cursor' = NoCursor
        /\ mode = "dead" \/ mode' = "dead"
    BY <1>1 DEF Abort, SpillAborts, Restart, Over, Dies, InCall, file
  <2> QED
    BY <2>1, FileStays, NoCursorReads DEF Seen, Served
<1>2. CASE \E p, k : DeleteBucket(p, k)
  <2>1. /\ UNCHANGED <<mode, opened, cursor, pages, used>>
        /\ call'.op = "DeleteBucket"
    BY <1>2 DEF DeleteBucket, InCall, Called, file
  <2>2. Entries(Working)' = Entries(Working) /\ Entries(Committed)' = Entries(Committed)
    BY <2>1, SameEntries DEF Seen
  <2>3. CursorAt' = CursorAt
    BY <2>1 DEF CursorAt, InRange, RefCount, ElementsAt, Current
  <2>4. CursorReads'
    BY <2>1, StillReads
  <2> QED
    BY <2>1, <2>2, <2>3, <2>4 DEF Served, Map!vars
<1> QED
  BY <1>1, <1>2

\* Calls that change a bucket leave a cursor that is up to date on the bucket's list.
LEMMA ChangeReads ==
  ASSUME BytesKept, Seen, CursorReads, NEW p \in DOMAIN opened, NEW k,
         \/ \E len \in Lens : Put(p, k, len)
         \/ BucketRemove(p, k)
  PROVE  CursorReads'
<1>1. InCall(p, {"rw"}) /\ \E bytes \in Bytes(p) : \E new : Modify(p, bytes, new)
  BY DEF Put, BucketRemove
<1> QED
  BY <1>1, ModifyReads

\* Cursor::remove does so too.
LEMMA CursorChangeReads ==
  ASSUME BytesKept, Seen, CursorReads, CursorRemove \/ CursorRemoveNothing
  PROVE  CursorReads'
<1>1. PICK p : p = cursor.path
  OBVIOUS
<1>2. /\ InCall(p, {"rw"}) /\ p \in DOMAIN opened
      /\ \/ UNCHANGED <<opened, cursor, mode>>
         \/ \E bytes \in Bytes(p) : \E new : Modify(p, bytes, new)
  BY <1>1 DEF CursorRemove, CursorRemoveNothing, InCall
<1>3. CASE UNCHANGED <<opened, cursor, mode>>
  <2>1. pages' = pages
    BY <1>2 DEF InCall, file
  <2> QED
    BY <1>3, <2>1, StillReads
<1>4. CASE \E bytes \in Bytes(p) : \E new : Modify(p, bytes, new)
  BY <1>2, <1>4, ModifyReads
<1> QED
  BY <1>2, <1>3, <1>4

---------------------------------------------------------------------------
(* The refinement.                                                         *)

MapStep == IF Served THEN Map!Next ELSE Entries(Committed)' = Entries(Committed)

\* The other calls are served.
LEMMA OthersServed ==
  ASSUME \/ \E m \in {"ro", "rw"} : Begin(m)
         \/ \E p, k : CreateBucket(p, k) \/ (\E len : Put(p, k, len)) \/ BucketRemove(p, k)
         \/ \E p, k : Seek(p, k) \/ CursorFirst(p) \/ CursorLast(p)
         \/ CursorNext \/ CursorPrev \/ CursorRemove \/ CursorRemoveNothing
         \/ Commit \/ Rollback
  PROVE  Served
<1>0. ASSUME NEW op, NEW p, NEW k, NEW len, Called(op, p, k, len), op # "DeleteBucket",
             mode # "dead", mode' # "dead"
      PROVE  Served
  BY <1>0 DEF Called, Served
<1>1. ASSUME NEW m \in {"ro", "rw"}, Begin(m) PROVE Served
  BY <1>0, <1>1 DEF Begin
<1>2. ASSUME Commit \/ Rollback PROVE Served
  BY <1>0, <1>2 DEF Commit, Rollback, Over
<1>3. ASSUME NEW p, NEW k, CreateBucket(p, k) PROVE Served
  BY <1>0, <1>3 DEF CreateBucket, InCall
<1>4. ASSUME NEW p, NEW k, NEW len, Put(p, k, len) PROVE Served
  BY <1>0, <1>4 DEF Put, Modify, InCall
<1>5. ASSUME NEW p, NEW k, BucketRemove(p, k) PROVE Served
  BY <1>0, <1>5 DEF BucketRemove, Modify, InCall
<1>6. ASSUME NEW p, NEW k, Seek(p, k) \/ CursorFirst(p) \/ CursorLast(p) PROVE Served
  BY <1>0, <1>6 DEF Seek, CursorFirst, CursorLast, Position, InCall
<1>7. ASSUME CursorNext \/ CursorPrev PROVE Served
  BY <1>0, <1>7 DEF CursorNext, CursorPrev, Move, InCall
<1>8. ASSUME CursorRemove \/ CursorRemoveNothing PROVE Served
  BY <1>0, <1>8 DEF CursorRemove, CursorRemoveNothing, Modify, InCall
<1> QED
  BY <1>1, <1>2, <1>3, <1>4, <1>5, <1>6, <1>7, <1>8

\* Every step is a step of the map, or is not seen, and the cursor still reads the
\* list of its bucket.
LEMMA NextMapped ==
  ASSUME BytesKept, ShowsNoBucket, Seen, Seen', CursorReads, [Next]_vars
  PROVE  [MapStep]_(Map!vars) /\ CursorReads'
<1>0. /\ \A p \in DOMAIN opened : p \in Map!Paths
      /\ UserBuckets \subseteq DOMAIN opened /\ Names \subseteq Keys /\ <<>> \in Map!Paths
  BY PathView, BucketAssumption DEF Seen, UserBuckets, Map!Paths
<1>1. ASSUME NEW m \in {"ro", "rw"}, Begin(m) PROVE Map!Next /\ CursorReads'
  <2>1. Map!Begin(m) /\ CursorReads'
    BY <1>1, BeginMaps
  <2> QED
    BY <2>1 DEF Map!Next
<1>2. ASSUME NEW p \in DOMAIN opened, NEW k \in Names, OpenBucket(p, k)
      PROVE  UNCHANGED Map!vars /\ CursorReads'
  BY <1>2, OpenMaps
<1>3. ASSUME NEW p \in DOMAIN opened, NEW k \in Names, CreateBucket(p, k)
      PROVE  Map!Next /\ CursorReads'
  <2>1. Map!CreateBucket(p, k) /\ CursorReads'
    BY <1>3, CreateMaps, CreateReads
  <2> QED
    BY <1>0, <2>1 DEF Map!Next
<1>4. ASSUME NEW p \in UserBuckets, NEW k \in Keys, NEW len \in Lens, Put(p, k, len)
      PROVE  Map!Next /\ CursorReads'
  <2>1. p \in DOMAIN opened /\ p \in Map!Paths
    BY <1>0
  <2>2. Map!Put(p, k, len) /\ CursorReads'
    BY <1>4, <2>1, PutMaps, ChangeReads
  <2> QED
    BY <2>1, <2>2 DEF Map!Next
<1>5. ASSUME NEW p \in UserBuckets, NEW k \in Keys, BucketRemove(p, k)
      PROVE  Map!Next /\ CursorReads'
  <2>1. p \in DOMAIN opened /\ p \in Map!Paths
    BY <1>0
  <2>2. Map!Remove(p, k) /\ CursorReads'
    BY <1>5, <2>1, RemoveMaps, ChangeReads
  <2> QED
    BY <2>1, <2>2 DEF Map!Next
<1>6. ASSUME NEW p \in UserBuckets, NEW k \in Keys, Seek(p, k)
      PROVE  Map!Next /\ CursorReads'
  <2>1. p \in DOMAIN opened /\ p \in Map!Paths
    BY <1>0
  <2>2. Map!Seek(p, k) /\ CursorReads'
    BY <1>6, <2>1, SeekMaps
  <2> QED
    BY <2>1, <2>2 DEF Map!Next
<1>7. ASSUME \/ \E op, p, k : Abort(op, p, k) \/ DeleteBucket(p, k)
             \/ \E p \in todo : SpillAborts(p)
             \/ Restart
      PROVE  [MapStep]_(Map!vars) /\ CursorReads'
  BY <1>7, NotServed DEF MapStep
<1>8. ASSUME NEW p \in UserBuckets, CursorFirst(p) \/ CursorLast(p)
      PROVE  Map!Next /\ CursorReads'
  <2>1. p \in DOMAIN opened /\ p \in Map!Paths
    BY <1>0
  <2>2. (Map!First(p) \/ Map!Last(p)) /\ CursorReads'
    BY <1>8, <2>1, FirstMaps, LastMaps
  <2> QED
    BY <2>1, <2>2 DEF Map!Next
<1>9. ASSUME CursorNext \/ CursorPrev PROVE Map!Next /\ CursorReads'
  <2>1. (Map!MoveNext \/ Map!MovePrev) /\ CursorReads'
    BY <1>9, NextMaps, PrevMaps
  <2> QED
    BY <2>1 DEF Map!Next
<1>10. ASSUME CursorRemove \/ CursorRemoveNothing PROVE Map!Next /\ CursorReads'
  <2>1. Map!CursorRemove /\ CursorReads'
    BY <1>10, CursorRemoveMaps, CursorRemoveNothingMaps, CursorChangeReads
  <2> QED
    BY <2>1 DEF Map!Next
<1>11. ASSUME StartCommit PROVE UNCHANGED Map!vars /\ CursorReads'
  BY <1>11, StartMaps
<1>12. ASSUME NEW p \in todo, SpillNothing(p) \/ SpillInline(p) \/ SpillNode(p)
       PROVE  UNCHANGED Map!vars /\ CursorReads'
  BY <1>12, SpillMaps
<1>15. ASSUME Commit \/ Rollback PROVE Map!Next /\ CursorReads'
  <2>1. (Map!Commit \/ Map!Rollback) /\ CursorReads'
    BY <1>15, CommitMaps, RollbackMaps
  <2> QED
    BY <2>1 DEF Map!Next
<1>16. ASSUME UNCHANGED vars PROVE UNCHANGED Map!vars /\ CursorReads'
  <2>1. UNCHANGED <<opened, pages, used, cursor, call, mode>>
    BY <1>16 DEF vars, file
  <2>2. Entries(Working)' = Entries(Working) /\ Entries(Committed)' = Entries(Committed)
    BY <2>1, SameEntries DEF Seen
  <2>3. CursorAt' = CursorAt
    BY <2>1 DEF CursorAt, InRange, RefCount, ElementsAt, Current
  <2>4. CursorReads'
    BY <2>1, StillReads
  <2> QED
    BY <2>1, <2>2, <2>3, <2>4 DEF Map!vars
<1>17. ASSUME Served, Map!Next PROVE MapStep
  BY <1>17 DEF MapStep
<1> QED
  BY <1>0, <1>1, <1>2, <1>3, <1>4, <1>5, <1>6, <1>7, <1>8, <1>9, <1>10, <1>11, <1>12, <1>15, <1>16,
     <1>17, OthersServed DEF Next

\* A fresh database is an empty map.
LEMMA InitMapped ==
  ASSUME Init, Seen
  PROVE  Map!Init /\ CursorReads
<1>1. \A e : e \notin Entries(Committed)
  <2>1. \A e : e \in Entries(Committed) <=> Reaches({}, e)
    BY DEF Seen, Views
  <2>2. \A p, i : ~InList({}, p, i)
    <3>1. \A u \in used : pages[u].inodes = <<>>
      <4>1. Seen /\ used \subseteq PageIds
        BY DEF Seen, TreeInv, PagesHoldLists
      <4> QED
        BY <4>1 DEF Init, Blank, Page
    <3>2. ToSet(<<>>) = {}
      BY DEF ToSet
    <3> QED
      BY <3>1, <3>2 DEF InList
  <2>3. \A e : ~Reaches({}, e)
    BY <2>2 DEF Reaches, InInline
  <2> QED
    BY <2>1, <2>3
<1>2. Entries(Working) = Entries(Committed)
  <2>1. DOMAIN opened = {}
    BY DEF Init
  <2> QED
    BY <2>1 DEF Seen, Views
<1>3. Entries(Committed) = {} /\ Entries(Working) = {}
  BY <1>1, <1>2
<1>4. CursorReads
  BY DEF Init, NoCursor, CursorReads
<1>5. CursorAt = Map!NoCursor
  BY DEF Init, NoCursor, Seen, CursorShows, Where, Map!NoCursor
<1>6. mode = "none" /\ call = [op |-> "Open", path |-> <<>>, key |-> 0, len |-> 0]
  BY DEF Init
<1> QED
  BY <1>3, <1>4, <1>5, <1>6 DEF Map!Init

\* Bucket implements BucketMap, as long as no node is split, the cursor shows no
\* bucket as plain and freed memory keeps its bytes: every call that is served has
\* the effect it has on a sorted map, whatever is inline, in a page or in a node, no
\* step of a commit but the last is seen, and a call that ends the process, or a
\* deleteBucket, leaves what is committed.
THEOREM BucketImplementsMap ==
  Spec /\ []NothingSplits /\ []ShowsNoBucket /\ []BytesKept => ImplementsMap
<1>1. TreeInv /\ CursorOK /\ AllLeaf /\ NothingLoose => Seen
  BY ViewsHold, CursorShown DEF Seen
<1>2. Spec /\ []NothingSplits /\ []ShowsNoBucket => []Seen
  BY <1>1, TreeHolds, LeavesHold, LooseHolds, PTL
<1>3. Init /\ Seen => Map!Init /\ CursorReads
  BY InitMapped
<1>4. /\ BytesKept /\ ShowsNoBucket /\ Seen /\ Seen' /\ CursorReads /\ [Next]_vars
      => [MapStep]_(Map!vars) /\ CursorReads'
  BY NextMapped
<1> QED
  BY <1>2, <1>3, <1>4, PTL DEF Spec, ImplementsMap, MapStep

\* As long as no node is split and the cursor shows no bucket as plain, a commit that
\* ends stores all the transaction held: every key of every bucket can be reached
\* from the new root, whatever a dangling page_ has read in between.
THEOREM CommitStores == Spec /\ []NothingSplits /\ []ShowsNoBucket => CommitStoresAll
<1>1. TreeInv /\ AllLeaf /\ NothingLoose => Views
  BY ViewsHold
<1>2. /\ TreeInv /\ AllLeaf /\ NothingLoose /\ Views /\ Views' /\ [Next]_vars
      => [mode = "spill" /\ mode' = "none" => Entries(Committed)' = Entries(Working)]_vars
  <2> SUFFICES ASSUME TreeInv, AllLeaf, NothingLoose, Views, Views', Next,
                      mode = "spill", mode' = "none"
               PROVE  Entries(Committed)' = Entries(Working)
    OBVIOUS
  <2>1. Commit
    BY DEF Next, Begin, OpenBucket, CreateBucket, DeleteBucket, Put, BucketRemove, Seek, Abort,
           Dies, CursorFirst, CursorLast, CursorNext, CursorPrev, Move, InCall, CursorRemove,
           CursorRemoveNothing, StartCommit, SpillNothing, SpillInline, SpillNode, SpillAborts,
           Spilled, Rollback, Restart
  <2> QED
    BY <2>1, CommitView
<1> QED
  BY <1>1, <1>2, TreeHolds, LeavesHold, LooseHolds, PTL DEF Spec, CommitStoresAll
=============================================================================
