----------------------------- MODULE BucketInv -----------------------------
(***************************************************************************)
(* The inductive invariant of Bucket: what element lists look like, whose  *)
(* page each page is, and how far a commit has come.                       *)
(***************************************************************************)
EXTENDS Bucket

---------------------------------------------------------------------------
(* Elements and lists.                                                     *)

PlainInodes ==
  [key : Keys, flag : {valueLeafFlag}, value : {PlainValue(len) : len \in Lens}, pageId : {0}]

\* The page of an inline bucket.
InlineList(s) == s \in Seq(PlainInodes) /\ Ordered(s) /\ isinlineable(s)

\* The value of a bucket's element.
BucketValue(v) ==
  \/ v.root \in PageIds /\ v = HeaderValue(v.root)
  \/ InlineList(v.page) /\ v = InlineValue(v.page)

BucketInodes ==
  [key : Names, flag : {bucketLeafFlag},
   value : [len : Nat, root : PageIds \cup {0}, page : Seq(PlainInodes)], pageId : {0}]

LeafInodes == PlainInodes \cup {i \in BucketInodes : BucketValue(i.value)}
LeafList(s) == s \in Seq(LeafInodes) /\ Ordered(s)

\* The list of a branch page whose children are among the pages U of bucket p.
BranchInodes ==
  [key : Keys, flag : {0}, value : {PlainValue(0)}, pageId : PageIds]
BranchList(s, U, p) ==
  /\ s \in Seq(BranchInodes) /\ s # <<>> /\ Len(s) < IndexMod
  /\ \A i \in ToSet(s) :
       /\ i.pageId \in U /\ pages[i.pageId].of = p
       /\ pages[i.pageId].leaf /\ pages[i.pageId].inodes # <<>>

---------------------------------------------------------------------------
(* The tree in the file.                                                   *)

\* Pages of the file hold lists.
PagesHoldLists ==
  /\ pages \in [PageIds -> [leaf : BOOLEAN, inodes : Seq(LeafInodes \cup BranchInodes),
                           of : Seq(Names)]]
  /\ used \subseteq PageIds
  /\ \A q \in PageIds : pages[q].leaf => LeafList(pages[q].inodes)
  /\ \A q \in used : ~pages[q].leaf => BranchList(pages[q].inodes, used, pages[q].of)

\* The root r of bucket p, if it is a leaf or inline, is its only page.
Sole(r, p) ==
  r = 0 \/ pages[r].leaf => \A q \in used : pages[q].of = p => q = r

\* Root r of bucket p is a page of it in use, or 0.
RootOf(r, p) ==
  /\ r = 0 \/ (r \in used /\ pages[r].of = p)
  /\ Sole(r, p)

BucketsIn(S) == {i \in S : IsBucketInode(i)}

\* Every page belongs to the bucket that leads to it, and a bucket that has a
\* page has an element in a page of its parent.
PagesFormTree ==
  /\ rootPage \in used /\ RootOf(rootPage, <<>>)
  /\ \A q \in used :
       /\ pages[q].leaf =>
            \A i \in BucketsIn(ToSet(pages[q].inodes)) :
              Len(pages[q].of) < MaxDepth /\ RootOf(i.value.root, Append(pages[q].of, i.key))
       /\ pages[q].of # <<>> =>
            \E u \in used :
              /\ pages[u].leaf /\ pages[u].of = Front(pages[q].of)
              /\ \E i \in BucketsIn(ToSet(pages[u].inodes)) : i.key = Last(pages[q].of)

---------------------------------------------------------------------------
(* The objects of a transaction.                                           *)

ListOf(p) == Inodes(p, opened[p].page)

\* Whether a commit has dealt with bucket p and had something to do.
Done(p) == mode = "spill" /\ p \notin todo /\ opened[p].hasNode

Objects ==
  [root : PageIds \cup {0}, page : Seq(PlainInodes), dangling : BOOLEAN,
   hasNode : BOOLEAN, node : Seq(LeafInodes), key : Keys \cup {NoKey}]

ObjectsAreBuckets ==
  /\ mode \in {"none", "ro", "rw", "spill", "dead"}
  /\ DOMAIN opened # {} <=> mode \in {"ro", "rw", "spill"}
  /\ DOMAIN opened # {} => <<>> \in DOMAIN opened
  /\ \A p \in DOMAIN opened :
       /\ p \in Seq(Names) /\ Len(p) <= MaxDepth
       /\ opened[p] \in Objects
       /\ InlineList(opened[p].page) /\ LeafList(opened[p].node)
       /\ opened[p].dangling => opened[p].root = 0 \/ Done(p)
       /\ opened[p].hasNode => mode \in {"rw", "spill"}
       /\ opened[p].hasNode /\ ~Done(p) /\ opened[p].root # 0 => pages[opened[p].root].leaf

\* The root of an object is the one it was opened with, until it is spilled.
ObjectsHaveRoots ==
  \A p \in DOMAIN opened :
    /\ ~Done(p) => RootOf(opened[p].root, p) /\ opened[p].root \notin freed
    /\ ~Done(p) /\ p = <<>> => opened[p].root = rootPage
    /\ Done(p) => \/ p # <<>> /\ opened[p].root = 0
                  \/ opened[p].root \in written /\ pages[opened[p].root].of = p

\* The list s has an element of bucket p, and it is current.
HasElement(p, s) ==
  \E i \in BucketsIn(ToSet(s)) :
    /\ i.key = Last(p) /\ i.value.root = opened[p].root
    /\ opened[p].root = 0 =>
         i.value.page = IF Done(p) THEN opened[p].node ELSE opened[p].page

\* A bucket that Bucket::createBucket made in this transaction, and whose
\* element a cursor has removed.
Loose(p) ==
  /\ opened[Front(p)].hasNode /\ ~Done(p)
  /\ opened[p].root = 0 /\ opened[p].page = <<>>
  /\ \A i \in BucketsIn(ToSet(ListOf(Front(p)))) : i.key # Last(p)

\* An element of bucket p is in a child of its parent's branch page; nothing
\* below a branch page is ever spilled.
BelowBranch(p) ==
  /\ ~IsLeaf(Front(p)) /\ ~Done(p)
  /\ \E c \in ToSet(pages[opened[Front(p)].root].inodes) : HasElement(p, pages[c.pageId].inodes)

InPlace(p) ==
  \/ IsLeaf(Front(p)) /\ HasElement(p, ListOf(Front(p)))
  \/ Loose(p)
  \/ BelowBranch(p)

\* An object below another is an element of it, or was.
ObjectsAreElements ==
  \A p \in DOMAIN opened \ {<<>>} : Front(p) \in DOMAIN opened /\ InPlace(p)

\* The elements of an object lead to pages of the right buckets, and none of
\* its buckets has been forgotten.
ElementsLead ==
  \A p \in DOMAIN opened :
    /\ opened[p].hasNode =>
         \A i \in BucketsIn(ToSet(opened[p].node)) :
           /\ Len(p) < MaxDepth
           /\ Append(p, i.key) \in DOMAIN opened \/ RootOf(i.value.root, Append(p, i.key))
    /\ IsLeaf(p) => \A q \in used :
         pages[q].of # <<>> /\ Front(pages[q].of) = p =>
           \E i \in BucketsIn(ToSet(ListOf(p))) : i.key = Last(pages[q].of)

---------------------------------------------------------------------------
(* The middle of a commit.                                                 *)

CommitProceeds ==
  /\ mode # "spill" => todo = {} /\ freed = {} /\ written = {}
  /\ todo \subseteq DOMAIN opened /\ freed \subseteq used /\ written \subseteq PageIds \ used
  /\ mode = "spill" => \A p \in DOMAIN opened \ {<<>>} :
       /\ p \in todo => Front(p) \in todo
       /\ Done(p) => opened[Front(p)].hasNode
  /\ \A q \in freed : pages[q].of \in DOMAIN opened /\ Done(pages[q].of)
  /\ \A p \in DOMAIN opened : Done(p) =>
       /\ \A q \in used : pages[q].of = p => q \in freed
       /\ opened[p].root = 0 => isinlineable(opened[p].node)
       /\ opened[p].root # 0 =>
            \A i \in ToSet(opened[p].node) :
              \E q \in written : pages[q].leaf /\ pages[q].of = p /\ i \in ToSet(pages[q].inodes)

\* A page a commit has written holds elements of the bucket it was written for.
WrittenHoldNodes ==
  \A q \in written :
    LET p == pages[q].of
    IN  /\ p \in DOMAIN opened /\ Done(p) /\ opened[p].root # 0
        /\ pages[q].leaf => ToSet(pages[q].inodes) \subseteq ToSet(opened[p].node)
        /\ pages[q].leaf /\ q # opened[p].root => ~pages[opened[p].root].leaf
        /\ ~pages[q].leaf => BranchList(pages[q].inodes, written, p) /\ q = opened[p].root

---------------------------------------------------------------------------
(* The cursor.                                                             *)

Refs ==
  [live : BOOLEAN, leaf : BOOLEAN, inodes : Seq(LeafInodes \cup BranchInodes),
   index : 0 .. IndexMod - 1]

\* An element of a cursor's stack, on bucket p: a node, a leaf, or a branch page
\* whose index is in range.
RefOK(p, ref) ==
  /\ ref.live => ref.leaf /\ opened[p].hasNode
  /\ ~ref.live /\ ref.leaf => LeafList(ref.inodes)
  /\ ~ref.leaf => BranchList(ref.inodes, used, p) /\ ref.index < Len(ref.inodes)

\* Only the last element of the stack is a leaf.
StackOK(p, stack) ==
  /\ stack \in Seq(Refs) /\ Len(stack) <= 2
  /\ \A i \in 1 .. Len(stack) :
       RefOK(p, stack[i]) /\ (stack[i].leaf <=> i = Len(stack))

\* Wherever first, last, seek, next and prev have taken it, and whatever has
\* happened to its bucket since, a cursor's stack ends in a leaf page or the node,
\* and the index of a branch page above it is one of its children.
CursorOK ==
  /\ cursor \in [on : BOOLEAN, path : Seq(Names), stack : Seq(Refs), fresh : BOOLEAN]
  /\ cursor.on => cursor.path \in DOMAIN opened /\ StackOK(cursor.path, cursor.stack)
  /\ ~cursor.on => cursor.stack = <<>>

\* No page is of bucket c, and its object, if any, has been stored nowhere.
Fresh(c) ==
  /\ \A q \in used : pages[q].of # c
  /\ c \in DOMAIN opened => opened[c].root = 0 /\ opened[c].page = <<>>

\* What a page shows as plain may have become a bucket since, but only in this
\* transaction.
ShowsFresh(p, ref) ==
  /\ ref.leaf
  /\ ~ref.live => \A i \in ToSet(ref.inodes) :
       ~IsBucketInode(i) =>
         /\ Fresh(Append(p, i.key))
         /\ (\E j \in BucketsIn(ToSet(ListOf(p))) : j.key = i.key) =>
              Append(p, i.key) \in DOMAIN opened

ShownPlain ==
  mode = "rw" /\ cursor.on /\ cursor.stack # <<>> /\ IsLeaf(cursor.path) =>
    ShowsFresh(cursor.path, cursor.stack[1])

\* Elements are where their keys say, every page in use has one owner and every
\* owner an element that leads to it, whichever of them a transaction has in
\* memory and however far its commit has come.
TreeInv ==
  /\ PagesHoldLists /\ PagesFormTree
  /\ ObjectsAreBuckets /\ ObjectsHaveRoots /\ ObjectsAreElements /\ ElementsLead
  /\ CommitProceeds /\ WrittenHoldNodes

---------------------------------------------------------------------------
(* What a transaction may run into: the ways in which the code departs     *)
(* from BucketMap.  Each is excluded by a hypothesis of some theorem.      *)

\* No node that is to be spilled is too long for a page: commits do not split.
NothingSplits ==
  \A p \in DOMAIN opened : Ready(p) /\ opened[p].hasNode => Fits(opened[p].node)

\* The cursor is not at a page that shows as plain what is a bucket now.
ShowsNoBucket ==
  mode = "rw" /\ cursor.on /\ cursor.stack # <<>> =>
    LET p == cursor.path
        ref == Last(cursor.stack)
    IN  InRange(p, ref) /\ ~IsBucketInode(Current(p, ref)) =>
          ~\E i \in BucketsIn(ToSet(ListOf(p))) : i.key = Current(p, ref).key

\* A read through a dangling page_ can find nothing but what was there: no two
\* objects that dangle hold different pages.
BytesKept ==
  \A p \in DOMAIN opened : Dangles(p) => Bytes(p) = {opened[p].page}

---------------------------------------------------------------------------
(* Trees of one page.                                                      *)

\* While nothing splits no page is a branch.
AllLeaf == \A q \in PageIds : pages[q].leaf

\* While the cursor shows no bucket as plain every object has its element.
NothingLoose ==
  \A p \in DOMAIN opened \ {<<>>} :
    IsLeaf(Front(p)) => HasElement(p, ListOf(Front(p)))
=============================================================================
