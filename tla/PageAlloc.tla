----------------------------- MODULE PageAlloc -----------------------------
(***************************************************************************)
(* Page runs and the arithmetic of the page allocator, at the level of     *)
(* sets: what freeList (src/src/Bolt/freeList.cc) and DB::allocate         *)
(* (src/src/Bolt/db.cc) compute, without the order in which the vectors    *)
(* keep it.  FreeList.tla has the vectors; Db.tla uses these operators.    *)
(***************************************************************************)
EXTENDS Integers, FiniteSets, FiniteSetsExt

CONSTANTS
  PageSlots,    \* page ids that fit in one page, header included (4096 / 8)
  CountMax,     \* the page header's largest count (0xffff)
  MmapSizes,    \* the sizes a mapping may have, in pages (32 KB ... 1 GB)
  AllocSize     \* DEFAULTALLOCSIZE, in pages

ASSUME PageAllocAssumption ==
  /\ PageSlots \in Nat /\ PageSlots > 2
  /\ CountMax \in Nat /\ CountMax > 0
  /\ MmapSizes \subseteq Nat /\ MmapSizes # {}
  /\ AllocSize \in Nat

\* The page header takes the room of two page ids (PAGEHEADERSIZE = 16).
HeaderSlots == 2

\* The pages of a run that starts at first and has n pages.
Span(first, n) == first .. (first + n - 1)

\* Where n contiguous free pages start.
RunStarts(ids, n) == {s \in ids : Span(s, n) \subseteq ids}

\* Mutant: the run is taken to start one page too early.
FirstRunEarly(ids, n) ==
  IF RunStarts(ids, n) = {} THEN 0 ELSE Min(RunStarts(ids, n)) - 1

\* freeList::allocate: the lowest run of n contiguous free pages, 0 if there
\* is none (page 0 is a meta page and never free).
FirstRun(ids, n) ==
  IF RunStarts(ids, n) = {} THEN 0 ELSE Min(RunStarts(ids, n))

\* freeList::release: the ids of all transactions up to tid become free.
Released(pending, tid) ==
  UNION {pending[k] : k \in {j \in DOMAIN pending : j <= tid}}

\* All pages the freelist holds, free or pending.
AllPending(pending) == UNION {pending[k] : k \in DOMAIN pending}

\* freeList::size in units of a page id, and the pages Tx::commit allocates
\* for a freelist of c ids.
SerialSlots(c) == HeaderSlots + (IF c >= CountMax THEN c + 1 ELSE c)
SerialPages(c) == (SerialSlots(c) \div PageSlots) + 1

\* DB::getMmapSize: the smallest mapping that holds size pages.  Beyond the
\* largest one the function fails an assertion; callers guard with CanMap.
CanMap(size) == \E m \in MmapSizes : size <= m
MmapSize(size) == Min({m \in MmapSizes : size <= m})
=============================================================================
