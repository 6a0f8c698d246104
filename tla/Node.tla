-------------------------------- MODULE Node --------------------------------
(***************************************************************************)
(* The element lists of src/src/Bolt/node.cc: searching, inserting and     *)
(* deleting, sizes, the rule for inline buckets, and how a list that is    *)
(* too long for a page is split.                                           *)
(*                                                                         *)
(* Keys are positive numbers, in the order of their bytes; 0 is the empty  *)
(* key.  An element is [key, flag, value, pageId].  A value is             *)
(* [len, root, page]: a plain value is its length; the value of a bucket   *)
(* is its header (root) and, if root is 0, the elements of its inline      *)
(* page.  Lengths count units of 16 bytes, the size alike of a page        *)
(* header, a leaf or branch element and a bucket header.                   *)
(***************************************************************************)
EXTENDS Integers, Sequences, SequencesExt, FiniteSetsExt

CONSTANTS
  PageSize,     \* the page size Node::spill splits at (4096)
  InlineMax     \* maxInlineBucketSize (1024)

ASSUME NodeAssumption ==
  /\ PageSize \in Nat /\ InlineMax \in Nat
  /\ 1 <= InlineMax /\ InlineMax < PageSize   \* a page header fits

NoKey == 0
valueLeafFlag == 0
bucketLeafFlag == 1

PAGEHEADERSIZE == 1
pageElementSize == 1
BUCKETHEADERSIZE == 1
KeyLength == 1
MINKEYSPERPAGE == 2

\* The order of a list, which its searches rely on.
Ordered(s) == \A i, j \in 1 .. Len(s) : i < j => s[i].key < s[j].key

ElementLen(inode) == pageElementSize + KeyLength + inode.value.len

\* Node::size.
size(inodes) ==
  LET upTo[i \in 0 .. Len(inodes)] ==
        IF i = 0 THEN PAGEHEADERSIZE ELSE upTo[i - 1] + ElementLen(inodes[i])
  IN  upTo[Len(inodes)]

\* Node::sizeLessThan compares after each element, so an empty list is small.
sizeLessThan(inodes, s) == inodes = <<>> \/ size(inodes) < s

\* The values of a bucket element and of a plain one.
PlainValue(len) == [len |-> len, root |-> 0, page |-> <<>>]
HeaderValue(root) == [len |-> BUCKETHEADERSIZE, root |-> root, page |-> <<>>]
InlineValue(inodes) ==   \* Bucket::write
  [len |-> BUCKETHEADERSIZE + size(inodes), root |-> 0, page |-> inodes]

Leaf(key, flag, value) ==
  [key |-> key, flag |-> flag, value |-> value, pageId |-> 0]
Branch(key, pageId) ==
  [key |-> key, flag |-> 0, value |-> PlainValue(0), pageId |-> pageId]

---------------------------------------------------------------------------
(* Searching and changing.                                                 *)

\* Mutant: the middle looked at last is returned instead of the ceiling.
binarySearchMid(inodes, key) ==
  LET n == Len(inodes)
      at[r \in (0 .. n) \X (0 .. n) \X (0 .. n)] ==
        LET mid == (r[1] + r[2]) \div 2
        IN  IF r[1] >= r[2] THEN [index |-> r[3], found |-> FALSE]
            ELSE IF inodes[mid + 1].key > key THEN at[<<r[1], mid, mid>>]
            ELSE IF inodes[mid + 1].key = key THEN [index |-> mid, found |-> TRUE]
            ELSE at[<<mid + 1, r[2], mid>>]
  IN  at[<<0, n, 0>>]

\* Node::binarySearch, Cursor::binarySearchLeaf: the index of the key, from
\* 0, or of the first larger one.
binarySearch(inodes, key) ==
  LET n == Len(inodes)
      at[r \in (0 .. n) \X (0 .. n)] ==   \* r is <<begin, end>>
        LET mid == (r[1] + r[2]) \div 2
        IN  IF r[1] >= r[2] THEN [index |-> r[2], found |-> FALSE]
            ELSE IF inodes[mid + 1].key > key THEN at[<<r[1], mid>>]
            ELSE IF inodes[mid + 1].key = key THEN [index |-> mid, found |-> TRUE]
            ELSE at[<<mid + 1, r[2]>>]
  IN  at[<<0, n>>]

\* Node::put: inode takes the place of oldKey's element, or the place where
\* oldKey would be.
put(inodes, oldKey, inode) ==
  LET at == binarySearch(inodes, oldKey)
  IN  IF at.found THEN ReplaceAt(inodes, at.index + 1, inode)
      ELSE InsertAt(inodes, at.index + 1, inode)

\* Node::del.
del(inodes, key) ==
  LET at == binarySearch(inodes, key)
  IN  IF at.found THEN RemoveAt(inodes, at.index + 1) ELSE inodes

\* Mutant: sub-buckets are not looked for.
isinlineableAny(inodes) == inodes = <<>> \/ size(inodes) <= InlineMax

\* Node::isinlineable: no sub-buckets, and small.
isinlineable(inodes) ==
  /\ \A i \in DOMAIN inodes : inodes[i].flag # bucketLeafFlag
  /\ inodes = <<>> \/ size(inodes) <= InlineMax

---------------------------------------------------------------------------
(* Splitting.                                                              *)

\* Node::splitIndex: how many elements stay, at least MINKEYSPERPAGE on
\* either side; the first count at which one more passes the threshold.
splitIndex(inodes, threshold) ==
  LET last == Len(inodes) - MINKEYSPERPAGE - 1
      full == {i \in MINKEYSPERPAGE .. last :
                 size(SubSeq(inodes, 1, i + 1)) > threshold}
  IN  IF full = {} THEN last ELSE Min(full)

\* Node::splitTwo splits only a list that is both long and large.
Fits(inodes) ==
  Len(inodes) <= MINKEYSPERPAGE * 2 \/ sizeLessThan(inodes, PageSize)

\* Node::split with the default fill percentage: split off a page, go on
\* with the rest.
split(inodes) ==
  LET n == Len(inodes)
      from[i \in 0 .. n] ==
        LET rest == SubSeq(inodes, i + 1, n)
            k == splitIndex(rest, PageSize \div 2)
        IN  IF Fits(rest) THEN <<rest>> ELSE <<SubSeq(rest, 1, k)>> \o from[i + k]
  IN  from[0]

\* The part of Node::spill that enters each piece into the parent that
\* splitTwo created.  The first piece is this node, entered under key_, the
\* first key it was read with (NoKey for a new node).  Every other piece is
\* a new node without a key_, so it is entered under *this* node's first key.
ParentOf(pieces, ids, key) ==
  LET first == pieces[1][1].key
      oldKey(i) == IF i = 1 /\ key # NoKey THEN key ELSE first
      parent[i \in 0 .. Len(pieces)] ==
        IF i = 0 THEN <<>>
        ELSE put(parent[i - 1], oldKey(i), Branch(pieces[i][1].key, ids[i]))
  IN  parent[Len(pieces)]
=============================================================================
