------------------------------- MODULE Bucket -------------------------------
(***************************************************************************)
(* The buckets of one transaction at a time (src/src/Bolt/bucket.cc), the  *)
(* nodes they read and spill (node.cc) and a cursor on one of them         *)
(* (cursor.cc).  A bucket is named by its path from the root bucket, a     *)
(* sequence of names.                                                      *)
(*                                                                         *)
(* Pages are abstract: which page DB::allocate hands out, and that nobody  *)
(* overwrites it while it is in use, is the business of Db.tla.  Calls     *)
(* that return an error change nothing and are not steps.                  *)
(*                                                                         *)
(* In this program the only tree of more than one page is the one a split  *)
(* leaves behind: Bucket::parentNode_ is never set, so every node is a     *)
(* root, and the reading of a branch node ends in an assertion.  The build *)
(* has assertions.                                                         *)
(***************************************************************************)
EXTENDS Node

CONSTANTS
  Keys,        \* the keys of elements, positive
  Names,       \* the keys that are used as names of buckets
  Lens,        \* the lengths of plain values
  MaxDepth,    \* how deep buckets are nested
  PageIds,     \* the pages of the file
  IndexMod,    \* stands for 2^64, the range of a cursor's index_
  MaxTx,       \* bound on the read-write transactions
  MaxCalls     \* bound on a transaction's calls, not counting getBucketByName

ASSUME BucketAssumption ==
  /\ Keys \subseteq Nat \ {NoKey} /\ Names \subseteq Keys
  /\ Lens \subseteq Nat
  /\ MaxDepth \in Nat \ {0}
  /\ PageIds \subseteq Nat \ {0} /\ PageIds # {}
  /\ IndexMod \in Nat \ {0, 1} /\ \A k \in Keys : k < IndexMod - 1
  /\ MaxTx \in Nat /\ MaxCalls \in Nat

VARIABLES
  pages,     \* what the file holds: leaf or branch, and its elements
  used,      \* the pages that are allocated
  rootPage,  \* root_ of the committed meta
  mode,      \* the transaction: "none", "ro", "rw", "spill" in the middle of
             \* a commit; or "dead", the process
  opened,    \* the transaction's Bucket objects, by path
  todo,      \* those a commit has still to spill
  freed,     \* the pages a commit has freed
  written,   \* the pages a commit has allocated and written
  cursor,    \* a Cursor of the transaction
  call,      \* the last call and its arguments
  left       \* transactions and calls left

file == <<pages, used, rootPage>>
spill == <<todo, freed, written>>
vars == <<file, mode, opened, spill, cursor, call, left>>

\* A page; of is the bucket it was written for (history).
Page(leaf, inodes, p) == [leaf |-> leaf, inodes |-> inodes, of |-> p]
Blank == Page(TRUE, <<>>, <<>>)

\* The function f with x mapped to e.
With(f, x, e) == [y \in DOMAIN f \cup {x} |-> IF y = x THEN e ELSE f[y]]

---------------------------------------------------------------------------
(* Bucket objects.                                                         *)

\* root is bucketHeader_.root, page the inline page page_ points to,
\* dangling whether that memory has been freed, node the elements of
\* rootNode_ once it exists, key the node's key_.
NewBucket(root, page, dangling) ==
  [root |-> root, page |-> page, dangling |-> dangling,
   hasNode |-> FALSE, node |-> <<>>, key |-> NoKey]

\* What a read of page_ may find.  openBucket leaves page_ pointing into its
\* by-value parameter when the element came from a node.  Freed memory holds
\* what it held or, once reused, the value of another bucket opened so.
Bytes(p) ==
  IF opened[p].dangling
  THEN {opened[q].page : q \in {q \in DOMAIN opened : opened[q].dangling}}
  ELSE {opened[p].page}

\* Bucket::getPageNode of the root page, as a cursor element at index 0:
\* the node if there is one, else the page.
PageNode(p, bytes) ==
  LET b == opened[p]
      page == IF b.root = 0 THEN Page(TRUE, bytes, p) ELSE pages[b.root]
  IN  IF b.hasNode THEN [live |-> TRUE, leaf |-> TRUE, inodes |-> <<>>, index |-> 0]
      ELSE [live |-> FALSE, leaf |-> page.leaf, inodes |-> page.inodes, index |-> 0]

\* The elements of the bucket's root.
Inodes(p, bytes) ==
  IF opened[p].hasNode THEN opened[p].node ELSE PageNode(p, bytes).inodes

IsLeaf(p) == PageNode(p, opened[p].page).leaf

\* Bucket::getNode and Node::read make the node; new are its elements after
\* the change that needs it.
WithNode(b, inodes, new) ==
  [b EXCEPT !.hasNode = TRUE, !.node = new,
            !.key = IF b.hasNode THEN @ ELSE IF inodes = <<>> THEN NoKey ELSE inodes[1].key]

---------------------------------------------------------------------------
(* Cursor stacks.  An element of the stack is a page, whose contents do    *)
(* not change, or the bucket's live node; index counts from 0.             *)

ElementsAt(p, ref) == IF ref.live THEN opened[p].node ELSE ref.inodes
RefCount(p, ref) == Len(ElementsAt(p, ref))
InRange(p, ref) == ref.index < RefCount(p, ref)
Current(p, ref) == ElementsAt(p, ref)[ref.index + 1]

\* The child page a branch element points to.
Child(ref, last) ==
  LET page == pages[ref.inodes[ref.index + 1].pageId]
  IN  [live |-> FALSE, leaf |-> page.leaf, inodes |-> page.inodes,
       index |-> IF last THEN Len(page.inodes) - 1 ELSE 0]

\* Cursor::do_first, do_last: down to a leaf.
Down(stack, last) ==
  IF Last(stack).leaf THEN stack ELSE Append(stack, Child(Last(stack), last))

\* Cursor::do_seek.  The keys of a branch page are stored at an offset
\* computed from the address of a local variable (Node::write), so the
\* search in it may end at any child, i.
SeekStack(p, k, bytes, i) ==
  LET ref == PageNode(p, bytes)
      at(r) == [r EXCEPT !.index = binarySearch(ElementsAt(p, r), k).index]
  IN  IF ref.leaf THEN <<at(ref)>>
      ELSE LET b == [ref EXCEPT !.index = i] IN <<b, at(Child(b, FALSE))>>

\* The children a search of the bucket may end at.
Routes(p) == IF IsLeaf(p) THEN {0} ELSE 0 .. Len(pages[opened[p].root].inodes) - 1

\* The elements of the leaf it ends at.
LeafAt(p, bytes, i) ==
  IF IsLeaf(p) THEN Inodes(p, bytes)
  ELSE Child([PageNode(p, bytes) EXCEPT !.index = i], FALSE).inodes

\* Mutant: first does not go down to a leaf.
FirstStackShallow(p, bytes) ==
  LET stack == <<PageNode(p, bytes)>>
  IN  IF RefCount(p, Last(stack)) = 0 THEN <<>> ELSE stack

\* Cursor::first; an empty bucket is left at once.
FirstStack(p, bytes) ==
  LET stack == Down(<<PageNode(p, bytes)>>, FALSE)
  IN  IF RefCount(p, Last(stack)) = 0 THEN <<>> ELSE stack

\* Mutant: count - 1 is not taken.
LastStackPast(p, bytes) ==
  LET ref == PageNode(p, bytes)
  IN  Down(<<[ref EXCEPT !.index = RefCount(p, ref)]>>, TRUE)

\* Cursor::last; in an empty bucket index_ wraps around.
LastStack(p, bytes) ==
  LET ref == PageNode(p, bytes)
  IN  Down(<<[ref EXCEPT !.index = (RefCount(p, ref) - 1 + IndexMod) % IndexMod]>>, TRUE)

\* Step the lowest element that can step, drop those above it, and go down.
StepStack(stack, S, delta, last) ==
  IF S = {} THEN <<>>
  ELSE LET i == Max(S)
           ref == [stack[i] EXCEPT !.index = (@ + delta + IndexMod) % IndexMod]
       IN  Down(Append(SubSeq(stack, 1, i - 1), ref), last)

\* Cursor::do_next.
NextStack(p, stack) ==
  StepStack(stack, {i \in DOMAIN stack :
                      (stack[i].index + 1) % IndexMod < RefCount(p, stack[i])}, 1, FALSE)

\* Cursor::prev.
PrevStack(p, stack) ==
  StepStack(stack, {i \in DOMAIN stack : stack[i].index > 0}, -1, TRUE)

\* Bucket::get: the length of the value, or <<>>.
get(p, k, bytes, i) ==
  LET ref == Last(SeekStack(p, k, bytes, i))
      found == InRange(p, ref) /\ Current(p, ref).key = k
                 /\ Current(p, ref).flag # bucketLeafFlag
  IN  IF found THEN <<Current(p, ref).value.len>> ELSE <<>>

\* Bucket::for_each: the keys it visits.
forEach(p, bytes) ==
  LET stack[n \in Nat] ==
        IF n = 0 THEN FirstStack(p, bytes)
        ELSE IF stack[n - 1] = <<>> THEN <<>> ELSE NextStack(p, stack[n - 1])
      n == CHOOSE n \in 0 .. IndexMod : stack[n] = <<>> /\ \A m \in 0 .. n - 1 : stack[m] # <<>>
  IN  [m \in 1 .. n |-> Current(p, Last(stack[m - 1])).key]

---------------------------------------------------------------------------
(* Transactions and calls.                                                 *)

NoCursor == [on |-> FALSE, path |-> <<>>, stack |-> <<>>, fresh |-> TRUE]

Called(op, p, k, len) == call' = [op |-> op, path |-> p, key |-> k, len |-> len]

\* A fresh database (DB::Init): the root bucket is one empty leaf.
Init ==
  /\ rootPage = Min(PageIds) /\ used = {rootPage}
  /\ pages = [q \in PageIds |-> Blank]
  /\ mode = "none" /\ opened = <<>> /\ cursor = NoCursor
  /\ todo = {} /\ freed = {} /\ written = {}
  /\ call = [op |-> "Open", path |-> <<>>, key |-> 0, len |-> 0]
  /\ left = [txs |-> MaxTx, calls |-> 0]

\* DB::beginTx, DB::beginRWTx and Tx::init: the root bucket has the header
\* of the meta.
Begin(m) ==
  /\ mode = "none" /\ (m = "rw" => left.txs > 0)
  /\ mode' = m
  /\ opened' = With(<<>>, <<>>, NewBucket(rootPage, <<>>, FALSE))
  /\ cursor' = NoCursor
  /\ left' = [txs |-> IF m = "rw" THEN left.txs - 1 ELSE left.txs, calls |-> MaxCalls]
  /\ Called("Begin", <<>>, 0, 0)
  /\ UNCHANGED <<file, spill>>

InCall(p, m) ==
  /\ mode \in m /\ p \in DOMAIN opened
  /\ left.calls > 0 /\ left' = [left EXCEPT !.calls = @ - 1]
  /\ UNCHANGED <<file, spill>>

FoundIn(inodes, k) ==
  LET at == binarySearch(inodes, k)
  IN  IF at.found THEN {inodes[at.index + 1]} ELSE {}

Found(p, k, bytes) == FoundIn(Inodes(p, bytes), k)

IsBucketInode(inode) == inode.flag = bucketLeafFlag

\* The cursor's view of the bucket is out of date once the bucket changes.
Touch(p, old, new) ==
  cursor' = [cursor EXCEPT !.fresh = @ /\ (cursor.on /\ cursor.path = p => old = new)]

\* The node of bucket p changes to new.
Modify(p, bytes, new) ==
  /\ opened' = [opened EXCEPT ![p] = WithNode(@, Inodes(p, bytes), new)]
  /\ Touch(p, Inodes(p, bytes), new)
  /\ UNCHANGED mode

\* Bucket::put on a key that is not a bucket's.
Put(p, k, len) ==
  /\ InCall(p, {"rw"}) /\ IsLeaf(p)
  /\ \E bytes \in Bytes(p) :
       /\ ~\E inode \in Found(p, k, bytes) : IsBucketInode(inode)
       /\ Modify(p, bytes, put(Inodes(p, bytes), k, Leaf(k, valueLeafFlag, PlainValue(len))))
  /\ Called("Put", p, k, len)

\* The element Cursor::seek stops at, if any.
Sought(p, k, bytes) ==
  LET i == binarySearch(Inodes(p, bytes), k).index
  IN  {Inodes(p, bytes)[j] : j \in {i + 1} \cap DOMAIN Inodes(p, bytes)}

\* Mutant: the flag is not looked at.
BucketRemoveAny(p, k) ==
  /\ InCall(p, {"rw"}) /\ IsLeaf(p)
  /\ \E bytes \in Bytes(p) : Modify(p, bytes, del(Inodes(p, bytes), k))
  /\ Called("Remove", p, k, 0)

\* Bucket::remove.  It looks at the flag of the element the search stops
\* at, whatever its key.
BucketRemove(p, k) ==
  /\ InCall(p, {"rw"}) /\ IsLeaf(p)
  /\ \E bytes \in Bytes(p) :
       /\ ~\E inode \in Sought(p, k, bytes) : IsBucketInode(inode)
       /\ Modify(p, bytes, del(Inodes(p, bytes), k))
  /\ Called("Remove", p, k, 0)

\* Bucket::openBucket of the value found by getBucketByName; fromNode is
\* whether Cursor::keyValue found it in a node and so returned no pointer.
openBucket(value, fromNode) ==
  NewBucket(value.root, value.page, value.root = 0 /\ fromNode)

\* Bucket::getBucketByName.
OpenBucket(p, k) ==
  /\ mode \in {"ro", "rw"} /\ p \in DOMAIN opened
  /\ Append(p, k) \notin DOMAIN opened
  /\ \E bytes \in Bytes(p), i \in Routes(p) : \E inode \in FoundIn(LeafAt(p, bytes, i), k) :
       /\ IsBucketInode(inode)
       /\ opened' = With(opened, Append(p, k), openBucket(inode.value, opened[p].hasNode))
  /\ UNCHANGED <<file, spill, mode, cursor, call, left>>

\* Bucket::createBucket of a new name: an empty inline bucket is written
\* into the node, then opened from it, unless buckets_ still has an object
\* of that name.
CreateBucket(p, k) ==
  /\ InCall(p, {"rw"}) /\ IsLeaf(p)
  /\ Len(p) < MaxDepth
  /\ \E bytes \in Bytes(p) :
       LET old == Inodes(p, bytes)
           value == InlineValue(<<>>)
           new == put(old, k, Leaf(k, bucketLeafFlag, value))
       IN  /\ Found(p, k, bytes) = {}
           /\ opened' = With([opened EXCEPT ![p] = WithNode(@, old, new)], Append(p, k),
                             IF Append(p, k) \in DOMAIN opened THEN opened[Append(p, k)]
                             ELSE openBucket(value, TRUE))
           /\ Touch(p, old, new)
  /\ Called("CreateBucket", p, k, 0)
  /\ UNCHANGED mode

\* Bucket::deleteBucket of a bucket: the test of the flag is the wrong way
\* round, so it returns -1 (and Tx::deleteBucket 0) and has done nothing.
DeleteBucket(p, k) ==
  /\ InCall(p, {"rw"})
  /\ \E bytes \in Bytes(p), i \in Routes(p) :
       \E inode \in FoundIn(LeafAt(p, bytes, i), k) : IsBucketInode(inode)
  /\ Called("DeleteBucket", p, k, 0)
  /\ UNCHANGED <<mode, opened, cursor>>

---------------------------------------------------------------------------
(* Cursor calls.                                                           *)

Position(p, stack) ==
  /\ cursor' = [on |-> TRUE, path |-> p, stack |-> stack, fresh |-> TRUE]
  /\ UNCHANGED <<mode, opened>>

Seek(p, k) ==
  /\ InCall(p, {"ro", "rw"})
  /\ \E bytes \in Bytes(p), i \in Routes(p) : Position(p, SeekStack(p, k, bytes, i))
  /\ Called("Seek", p, k, 0)

CursorFirst(p) ==
  /\ InCall(p, {"ro", "rw"})
  /\ \E bytes \in Bytes(p) : Position(p, FirstStack(p, bytes))
  /\ Called("First", p, 0, 0)

CursorLast(p) ==
  /\ InCall(p, {"ro", "rw"})
  /\ \E bytes \in Bytes(p) : Position(p, LastStack(p, bytes))
  /\ Called("Last", p, 0, 0)

Move(op, stack) ==
  /\ cursor.on /\ InCall(cursor.path, {"ro", "rw"})
  /\ cursor' = [cursor EXCEPT !.stack = stack]
  /\ Called(op, cursor.path, 0, 0)
  /\ UNCHANGED <<mode, opened>>

CursorNext == Move("Next", NextStack(cursor.path, cursor.stack))
CursorPrev == Move("Prev", PrevStack(cursor.path, cursor.stack))

\* Cursor::remove at an element that is not a bucket.  The cursor keeps its
\* stack: a page element stays, an index in the node now names the next key.
\* A page may show as plain a key that has meanwhile been removed and created
\* again as a bucket; then the bucket's element goes, and its object stays.
CursorRemove ==
  LET p == cursor.path
      ref == Last(cursor.stack)
  IN  /\ cursor.on /\ InCall(p, {"rw"}) /\ IsLeaf(p)
      /\ cursor.stack # <<>> /\ InRange(p, ref)
      /\ ~IsBucketInode(Current(p, ref))
      /\ \E bytes \in Bytes(p) :
           Modify(p, bytes, del(Inodes(p, bytes), Current(p, ref).key))
      /\ Called("CursorRemove", p, 0, 0)

\* Cursor::remove with an index that is out of range: keyValue returns early
\* and flag is whatever it was, so the call fails or deletes the empty key,
\* which makes the node and finds nothing.
CursorRemoveNothing ==
  LET p == cursor.path
  IN  /\ cursor.on /\ InCall(p, {"rw"}) /\ IsLeaf(p)
      /\ cursor.stack # <<>> /\ ~InRange(p, Last(cursor.stack))
      /\ \E bytes \in Bytes(p) :
           \/ UNCHANGED <<opened, cursor, mode>>
           \/ Modify(p, bytes, del(Inodes(p, bytes), NoKey))
      /\ Called("CursorRemove", p, 0, 0)

---------------------------------------------------------------------------
(* The end of a transaction.                                               *)

\* A bucket is spilled when its children are.  The order of the children is
\* that of an unordered_map.
Ready(p) ==
  /\ mode = "spill" /\ p \in todo
  /\ \A q \in todo : q = <<>> \/ Front(q) # p

\* Tx::commit begins.  rebalance() comes first and does nothing: every node
\* is a leaf without a parent.
StartCommit ==
  /\ mode = "rw" /\ mode' = "spill"
  /\ todo' = DOMAIN opened
  /\ UNCHANGED <<file, opened, freed, written, cursor, call, left>>

\* The pages of a spilled node: its pieces and, if there are several, the
\* new root above them, which splitTwo has made the parent.
PageCount(pieces) == IF Len(pieces) = 1 THEN 1 ELSE Len(pieces) + 1
SpilledPage(p, pieces, ids, i) ==
  IF i <= Len(pieces) THEN Page(TRUE, pieces[i], p)
  ELSE Page(FALSE, ParentOf(pieces, ids, opened[p].key), p)

\* What DB::allocate may give for n pages: the lowest that are free.
Allocations(n) ==
  LET free == PageIds \ (used \cup written)
  IN  {ids \in [1 .. n -> free] :
         /\ \A i, j \in 1 .. n : i < j => ids[i] < ids[j]
         /\ \A q \in free : (\E i \in 1 .. n : q < ids[i]) => \E i \in 1 .. n : q = ids[i]}

\* The page of bucket p is freed, and p is spilled.
Spilled(p) ==
  /\ freed' = freed \cup ({opened[p].root} \ {0})
  /\ todo' = todo \ {p}
  /\ UNCHANGED <<used, rootPage, mode, cursor, call, left>>

\* The objects once bucket p has the given root and its parent's node the
\* given value for it.
PutInParent(p, root, value) ==
  LET q == Front(p)
      old == Inodes(q, opened[q].page)
      new == put(old, Last(p), Leaf(Last(p), bucketLeafFlag, value))
  IN  [opened EXCEPT ![p].root = root, ![q] = WithNode(@, old, new)]

\* Bucket::spill of a bucket without a node.
SpillNothing(p) ==
  /\ Ready(p) /\ ~opened[p].hasNode
  /\ todo' = todo \ {p}
  /\ UNCHANGED <<file, mode, opened, freed, written, cursor, call, left>>

\* What Bucket::spill asserts of a child that has a node before it puts the
\* new value: its parent has an element for it, with the bucket flag, and
\* getNode can make the parent's node.
HasEntry(p) ==
  /\ IsLeaf(Front(p))
  /\ \E inode \in Found(Front(p), Last(p), opened[Front(p)].page) : IsBucketInode(inode)

Dies == mode' = "dead" /\ opened' = <<>> /\ cursor' = NoCursor

\* The process ends; what has been spilled was nowhere but in memory.
SpillAborts(p) ==
  /\ Ready(p) /\ opened[p].hasNode
  /\ p # <<>> /\ ~HasEntry(p)
  /\ Dies
  /\ todo' = {} /\ freed' = {} /\ written' = {}
  /\ Called("Commit", <<>>, 0, 0)
  /\ UNCHANGED <<file, left>>

\* Mutant: a bucket that has become small keeps its page.
SpillInlineKeepsPage(p) ==
  /\ Ready(p) /\ opened[p].hasNode
  /\ p # <<>> /\ isinlineable(opened[p].node) /\ HasEntry(p)
  /\ opened' = PutInParent(p, 0, InlineValue(opened[p].node))
  /\ todo' = todo \ {p}
  /\ UNCHANGED <<file, mode, freed, written, cursor, call, left>>

\* A small child bucket: Bucket::free and Bucket::write.
SpillInline(p) ==
  /\ Ready(p) /\ opened[p].hasNode
  /\ p # <<>> /\ isinlineable(opened[p].node) /\ HasEntry(p)
  /\ opened' = PutInParent(p, 0, InlineValue(opened[p].node))
  /\ Spilled(p)
  /\ UNCHANGED <<pages, written>>

\* Mutant: the header keeps the page of the old root.
RootAfterOld(p, root) ==
  IF p = <<>> THEN opened ELSE PutInParent(p, root, HeaderValue(root))

RootAfter(p, root) ==
  IF p = <<>> THEN [opened EXCEPT ![p].root = root] ELSE PutInParent(p, root, HeaderValue(root))

\* Node::spill of a bucket's root node: free its old page and write its
\* pieces, each to a page of its own; the last page is the bucket's root.
SpillNode(p) ==
  LET pieces == split(opened[p].node)
      n == PageCount(pieces)
  IN  /\ Ready(p) /\ opened[p].hasNode
      /\ p # <<>> => ~isinlineable(opened[p].node) /\ HasEntry(p)
      /\ \E ids \in Allocations(n) :
           /\ pages' = [q \in PageIds |->
                          IF \E i \in 1 .. n : q = ids[i]
                          THEN SpilledPage(p, pieces, ids, CHOOSE i \in 1 .. n : q = ids[i])
                          ELSE pages[q]]
           /\ written' = written \cup {ids[i] : i \in 1 .. n}
           /\ opened' = RootAfter(p, ids[n])
      /\ Spilled(p)

Over(op) ==
  /\ opened' = <<>> /\ cursor' = NoCursor
  /\ left' = [left EXCEPT !.calls = 0]
  /\ Called(op, <<>>, 0, 0)

\* The rest of Tx::commit: the new root is in the meta.
Commit ==
  /\ mode = "spill" /\ mode' = "none" /\ todo = {}
  /\ rootPage' = opened[<<>>].root
  /\ used' = (used \ freed) \cup written
  /\ pages' = [q \in PageIds |-> IF q \in freed THEN Blank ELSE pages[q]]
  /\ freed' = {} /\ written' = {}
  /\ Over("Commit")
  /\ UNCHANGED todo

\* Tx::rollback, and the end of a read-only transaction.
Rollback ==
  /\ mode \in {"ro", "rw"} /\ mode' = "none"
  /\ Over("Rollback")
  /\ UNCHANGED <<file, spill>>

\* The calls that end the process: LOG(FATAL) in Bucket::put and
\* Bucket::remove, an assertion for a node of a split bucket, a null child
\* in Bucket::deleteBucket of a plain key, and Cursor::getNode with an empty
\* stack.
Aborts(op, p, k) ==
  LET stops(bytes) == \E inode \in Sought(p, k, bytes) : IsBucketInode(inode)
      ref == Last(cursor.stack)
  IN  \E bytes \in Bytes(p), i \in Routes(p) :
        LET found == FoundIn(LeafAt(p, bytes, i), k)
        IN  CASE op = "Put" -> ~IsLeaf(p) \/ \E inode \in found : IsBucketInode(inode)
              [] op = "Remove" -> ~IsLeaf(p) \/ stops(bytes)
              [] op = "CreateBucket" -> ~IsLeaf(p) /\ found = {}
              [] op = "DeleteBucket" -> \E inode \in found : ~IsBucketInode(inode)
              [] op = "CursorRemove" ->
                   /\ cursor.on /\ p = cursor.path
                   /\ cursor.stack # <<>> =>
                        ~IsLeaf(p) /\ ~(InRange(p, ref) /\ IsBucketInode(Current(p, ref)))

Abort(op, p, k) ==
  /\ InCall(p, {"rw"})
  /\ Aborts(op, p, k)
  /\ Dies
  /\ Called(op, p, IF op = "CursorRemove" THEN 0 ELSE k, 0)

\* The process is started again and opens the database.
Restart ==
  /\ mode = "dead" /\ mode' = "none"
  /\ Over("Open")
  /\ UNCHANGED <<file, spill>>

\* Tx keeps the root bucket to itself and passes on only calls that open,
\* create and delete buckets.
UserBuckets == DOMAIN opened \ {<<>>}

Next ==
  \/ \E m \in {"ro", "rw"} : Begin(m)
  \/ \E p \in DOMAIN opened, k \in Names :
       \/ OpenBucket(p, k) \/ CreateBucket(p, k) \/ DeleteBucket(p, k)
       \/ Abort("CreateBucket", p, k)
  \/ \E p \in UserBuckets, k \in Keys :
       \/ \E len \in Lens : Put(p, k, len)
       \/ BucketRemove(p, k)
       \/ Seek(p, k)
       \/ \E op \in {"Put", "Remove", "DeleteBucket", "CursorRemove"} : Abort(op, p, k)
  \/ \E p \in UserBuckets : CursorFirst(p) \/ CursorLast(p)
  \/ CursorNext \/ CursorPrev
  \/ CursorRemove \/ CursorRemoveNothing
  \/ StartCommit
  \/ \E p \in todo :
       SpillNothing(p) \/ SpillInline(p) \/ SpillNode(p) \/ SpillAborts(p)
  \/ Commit \/ Rollback
  \/ Restart

Spec == Init /\ [][Next]_vars

---------------------------------------------------------------------------
(* What the buckets hold.                                                  *)

SubBucket == -1

\* The elements under a root page: a leaf's, or those of a branch's leaves.
Stored(value) ==
  LET page == pages[value.root]
  IN  IF value.root = 0 THEN ToSet(value.page)
      ELSE IF page.leaf THEN ToSet(page.inodes)
      ELSE UNION {ToSet(pages[i.pageId].inodes) : i \in ToSet(page.inodes)}

\* The same for the transaction, which looks at its Bucket objects first.
Held(p, value) ==
  IF p \notin DOMAIN opened THEN Stored(value)
  ELSE IF opened[p].hasNode THEN ToSet(opened[p].node)
  ELSE Stored(opened[p])

\* All buckets, as [path, inodes]: those of the file, or those a transaction
\* sees.
Buckets(seen) ==
  LET bucket(p, value) == [path |-> p, inodes |-> IF seen THEN Held(p, value) ELSE Stored(value)]
      level[d \in 0 .. MaxDepth] ==
        IF d = 0 THEN {bucket(<<>>, HeaderValue(rootPage))}
        ELSE UNION {{bucket(Append(b.path, i.key), i.value) :
                       i \in {i \in b.inodes : IsBucketInode(i)}} : b \in level[d - 1]}
  IN  UNION {level[d] : d \in 0 .. MaxDepth}

EntryOf(p, i) ==
  [path |-> p, key |-> i.key, len |-> IF IsBucketInode(i) THEN SubBucket ELSE i.value.len]
Entries(B) == UNION {{EntryOf(b.path, i) : i \in b.inodes} : b \in B}

Committed == Buckets(FALSE)
Working == Buckets(mode \in {"ro", "rw", "spill"})

---------------------------------------------------------------------------
(* Properties.                                                             *)

TypeOK ==
  /\ DOMAIN pages = PageIds /\ used \subseteq PageIds /\ rootPage \in used
  /\ mode \in {"none", "ro", "rw", "spill", "dead"}
  /\ \A p \in DOMAIN opened :
       /\ Len(p) <= MaxDepth
       /\ opened[p].root \in (used \ freed) \cup written \cup {0}
       /\ opened[p].hasNode => mode \in {"rw", "spill"}
  /\ todo \subseteq DOMAIN opened /\ freed \subseteq used
  /\ written \subseteq PageIds \ used
  /\ cursor.on => cursor.path \in DOMAIN opened
  /\ \A i \in DOMAIN cursor.stack : cursor.stack[i].index \in 0 .. IndexMod - 1

\* Bucket::get finds every key of bucket p and nothing else, and
\* Bucket::for_each visits every key once, in order.
ReadsRight(p) ==
  LET E == {e \in Entries(Working) : e.path = p}
      plain == {e \in E : e.len # SubBucket}
  IN  \A bytes \in Bytes(p) :
        LET visited == forEach(p, bytes)
        IN  /\ \A k \in Keys, i \in Routes(p) :
                 ToSet(get(p, k, bytes, i)) = {e.len : e \in {e \in plain : e.key = k}}
            /\ ToSet(visited) = {e.key : e \in E}
            /\ \A i, j \in DOMAIN visited : i < j => visited[i] < visited[j]

\* The opened buckets that are in the tree.
OpenBuckets ==
  IF mode \in {"ro", "rw"} THEN {b.path : b \in Working} \cap DOMAIN opened ELSE {}

\* Whether reads of bucket p go through a pointer to freed memory.
Dangles(p) == opened[p].dangling /\ ~opened[p].hasNode

\* Whatever has been put, removed, created and spilled before, and whether
\* a bucket is inline, in a page or in a node, its reads agree with the calls
\* made, unless its page_ dangles.
ReadsAgree == \A p \in OpenBuckets : ~Dangles(p) => ReadsRight(p)

\* "The bucket instance is only valid for the lifetime of the transaction"
\* (createBucket), so for that long every opened bucket should be in the tree
\* and read right.
ValidInTransaction ==
  mode \in {"ro", "rw"} => OpenBuckets = DOMAIN opened /\ \A p \in OpenBuckets : ReadsRight(p)

\* Between transactions every allocated page is a bucket's, of exactly one
\* bucket: a bucket that moves to a new page, or into its parent's, gives
\* the old page back, and none is given back while a bucket still needs it.
PagesAccounted ==
  LET subs(b) == {i \in b.inodes : IsBucketInode(i) /\ i.value.root # 0}
      owners == {[path |-> <<>>, root |-> rootPage]} \cup
                UNION {{[path |-> Append(b.path, i.key), root |-> i.value.root] : i \in subs(b)} :
                       b \in Committed}
      roots == {o.root : o \in owners}
      children(q) == IF pages[q].leaf THEN {} ELSE {i.pageId : i \in ToSet(pages[q].inodes)}
  IN  mode \in {"none", "dead"} =>
        /\ used = roots \cup UNION {children(q) : q \in roots}
        /\ \A o, u \in owners : o.root = u.root => o = u

\* "subbuckets are not allowed on inline buckets" (createBucket): an inline
\* bucket, as stored, has no sub-bucket and is small.
InlineIsSmall ==
  \A b \in Committed : \A i \in b.inodes :
    IsBucketInode(i) /\ i.value.root = 0 =>
      /\ ~\E j \in ToSet(i.value.page) : IsBucketInode(j)
      /\ i.value.len <= BUCKETHEADERSIZE + InlineMax

\* The assertions of Bucket::spill: every child bucket that has a node is
\* still an element of its parent, with the bucket flag.
ChildrenHaveEntries ==
  \A p \in DOMAIN opened \ {<<>>} :
    opened[p].hasNode =>
      \E i \in Held(Front(p), HeaderValue(0)) : i.key = Last(p) /\ IsBucketInode(i)

\* They can fail only for a bucket that was created in the same transaction:
\* one that an earlier commit stored, inline or in a page, is never cut off
\* from its parent, though a cursor may show as plain what is now a bucket.
StoredHaveEntries ==
  \A p \in DOMAIN opened \ {<<>>} :
    opened[p].root # 0 \/ opened[p].page # <<>> =>
      \E i \in Held(Front(p), HeaderValue(0)) : i.key = Last(p) /\ IsBucketInode(i)

\* A commit stores what the transaction held: every key of every bucket can
\* be reached from the new root.
CommitStoresAll ==
  [][mode = "spill" /\ mode' = "none" => Entries(Committed)' = Entries(Working)]_vars
=============================================================================
