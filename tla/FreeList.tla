----------------------------- MODULE FreeList -----------------------------
(***************************************************************************)
(* struct freeList (src/src/Bolt/freeList.cc): the sorted vector ids_, the *)
(* map pending_ of vectors, the lookup table cache_ and the page format.   *)
(*                                                                         *)
(* The transaction layer is the environment: it frees only runs it owns,   *)
(* one transaction at a time, and it writes the freelist when it commits.  *)
(* A page holds PageSlots ids, CountMax stands for 0xffff.                 *)
(***************************************************************************)
EXTENDS PageAlloc, SequencesExt

CONSTANTS
  MaxTx,        \* bound on transaction ids
  MaxPage,      \* bound on page ids
  AllocSizes,   \* the numbers of pages asked for at once
  MaxRuns       \* bound on the runs in use at one time

ASSUME FreeListAssumption ==
  /\ MaxTx \in Nat \ {0} /\ MaxPage \in Nat /\ MaxPage >= 4 /\ MaxRuns \in Nat
  /\ AllocSizes \subseteq Nat \ {0}

Pages == 2 .. MaxPage
TxIds == 0 .. MaxTx

VARIABLES
  ids,       \* ids_
  pending,   \* pending_; a transaction that is not a key has <<>>
  cache,     \* the page ids cache_ maps to true
  page,      \* the freelist page of the last commit
  got,       \* what the last allocate returned
  tid,       \* the running transaction
  active,    \* whether it runs
  used,      \* the runs in use by it
  fl,        \* the run the freelist page is in
  total,     \* the end of the file
  base       \* used, fl and total as of the last commit

list == <<ids, pending, cache>>
env == <<tid, active, used, fl, total, base>>
vars == <<list, page, got, env>>

---------------------------------------------------------------------------
(* The loops of freeList.cc.                                               *)

\* std::sort (external): every id goes to the place that the number of ids
\* that come before it gives.
Before(s, i) ==
  {j \in 1 .. Len(s) : s[j] < s[i] \/ (s[j] = s[i] /\ j < i)}
Sort(s) ==
  [k \in 1 .. Len(s) |->
     s[CHOOSE i \in 1 .. Len(s) : Cardinality(Before(s, i)) = k - 1]]

\* The vectors of the transactions in S, one after the other.  unordered_map
\* has an order of its own, but every caller sorts what it gathers.
Gather(p, S) ==
  LET g[k \in 0 .. MaxTx + 1] ==
        IF k = 0 THEN <<>>
        ELSE g[k - 1] \o (IF k - 1 \in S THEN p[k - 1] ELSE <<>>)
  IN  g[MaxTx + 1]

\* Mutant: the released ids are appended, not merged.
MergeAppends(src, own) == own \o src

\* freeList::mergeids_: src and ids_ are sorted; so is the result.
Merge(src, own) ==
  LET m[p \in (1 .. Len(src) + 1) \X (1 .. Len(own) + 1)] ==
        LET i == p[1]
            j == p[2]
        IN  IF i > Len(src) THEN SubSeq(own, j, Len(own))
            ELSE IF j > Len(own) THEN SubSeq(src, i, Len(src))
            ELSE IF src[i] < own[j] THEN <<src[i]>> \o m[<<i + 1, j>>]
            ELSE <<own[j]>> \o m[<<i, j + 1>>]
  IN  m[<<1, 1>>]

\* Mutant: a gap in the ids does not start a new run.
RunStartOverGaps(s, i, init) == IF i = 1 THEN s[i] ELSE init

\* The scan of freeList::allocate at index i: where the run that s[i] belongs
\* to starts, given where the one before it did.  prev is s[i - 1].
RunStart(s, i, init) == IF i = 1 \/ s[i] - s[i - 1] # 1 THEN s[i] ELSE init

\* The loop: the index of the last page of the run found and its first page,
\* or 0 for both.
Scan(s, n) ==
  LET f[p \in (1 .. Len(s) + 1) \X (Pages \cup {0})] ==
        LET i == p[1]
            init == RunStart(s, i, p[2])
        IN  IF i > Len(s) THEN [at |-> 0, init |-> 0]
            ELSE IF s[i] - init + 1 = n THEN [at |-> i, init |-> init]
            ELSE f[<<i + 1, init>>]
  IN  f[<<1, 0>>]

\* Mutant: reload does not leave out the pages that are pending.
KeepPending(s, gone) == s

\* The loop of freeList::reload: the ids that are not in the set gone.
Keep(s, gone) ==
  LET f[k \in 0 .. Len(s)] ==
        IF k = 0 THEN <<>>
        ELSE f[k - 1] \o (IF s[k] \in gone THEN <<>> ELSE <<s[k]>>)
  IN  f[Len(s)]

Erase(s, from, to) == SubSeq(s, 1, from - 1) \o SubSeq(s, to + 1, Len(s))

\* What allocate returns, and what it leaves in ids_ and in cache_.
Found(s, n) == Scan(s, n).init

\* Mutant: the first page of the run stays in ids_.
RestShort(s, n) ==
  LET st == Scan(s, n)
  IN  IF st.at = 0 THEN s ELSE Erase(s, st.at - n + 2, st.at)

Rest(s, n) ==
  LET st == Scan(s, n)
  IN  IF st.at = 0 THEN s ELSE Erase(s, st.at - n + 1, st.at)
CacheAfter(c, s, n) == IF Found(s, n) = 0 THEN c ELSE c \ Span(Found(s, n), n)

\* freeList::free pushes the pages of the run in order.
FreeRun(p, t, r) == [p EXCEPT ![t] = @ \o [i \in 1 .. r.n |-> r.first + i - 1]]

\* freeList::count, with pendingCount.
PendingCount(p) ==
  LET c[k \in 0 .. MaxTx + 1] == IF k = 0 THEN 0 ELSE c[k - 1] + Len(p[k - 1])
  IN  c[MaxTx + 1]
Count(s, p) == Len(s) + PendingCount(p)

\* freeList::reindex.
Reindex(s, p) == ToSet(s) \cup UNION {ToSet(p[k]) : k \in TxIds}

\* freeList::copyall and freeList::write.
Copyall(s, p) == Merge(Sort(Gather(p, TxIds)), s)

\* Mutants: the count is not capped; the cap starts one too late.
WritePageUncapped(s, p) == [count |-> Count(s, p), slots |-> Copyall(s, p)]
WritePageLateCap(s, p) ==
  LET cnt == Count(s, p)
  IN  IF cnt <= CountMax THEN [count |-> cnt, slots |-> Copyall(s, p)]
      ELSE [count |-> CountMax, slots |-> <<cnt>> \o Copyall(s, p)]

WritePage(s, p) ==
  LET cnt == Count(s, p)
  IN  IF cnt = 0 THEN [count |-> 0, slots |-> <<>>]
      ELSE IF cnt < CountMax THEN [count |-> cnt, slots |-> Copyall(s, p)]
      ELSE [count |-> CountMax, slots |-> <<cnt>> \o Copyall(s, p)]

\* freeList::read.
ReadPage(pg) ==
  LET index == IF pg.count = CountMax THEN 1 ELSE 0
      count == IF pg.count = CountMax THEN pg.slots[1] ELSE pg.count
  IN  Sort(SubSeq(pg.slots, index + 1, index + count))

---------------------------------------------------------------------------
(* The operations, called by the transaction layer.                        *)

NoPending == [k \in TxIds |-> <<>>]

\* DB::Init's freelist, as DB::Open reads it: page 2, empty, in a file of
\* four pages whose page 3 is the root bucket's leaf.
Init ==
  /\ ids = <<>> /\ pending = NoPending /\ cache = {}
  /\ page = [count |-> 0, slots |-> <<>>]
  /\ got = 0
  /\ tid = 1 /\ active = FALSE
  /\ used = {[first |-> 3, n |-> 1]}
  /\ fl = [first |-> 2, n |-> 1]
  /\ total = 4
  /\ base = [used |-> used, fl |-> fl, total |-> total]

\* freeList::release(t) at the start of a transaction.  Which transaction it
\* is depends on the oldest reader.  cache_ is left alone.
Release(t) ==
  /\ ~active /\ tid < MaxTx
  /\ ids' = Merge(Sort(Gather(pending, 0 .. t)), ids)
  /\ pending' = [k \in TxIds |-> IF k <= t THEN <<>> ELSE pending[k]]
  /\ tid' = tid + 1 /\ active' = TRUE
  /\ UNCHANGED <<cache, page, got, used, fl, total, base>>

\* freeList::free of a run in use.  A page in cache_ would fail the assertion;
\* cache_ is not told about the pages that become pending.
Free(r) ==
  /\ active /\ r \in used
  /\ ToSet(FreeRun(NoPending, tid, r)[tid]) \cap cache = {}
  /\ pending' = FreeRun(pending, tid, r)
  /\ used' = used \ {r}
  /\ UNCHANGED <<ids, cache, page, got, tid, active, fl, total, base>>

\* The run a request for n pages ends up in (freeList::allocate, then the end
\* of the file).
Placed(n) == [first |-> IF Found(ids, n) = 0 THEN total ELSE Found(ids, n),
              n |-> n]
TotalAfter(n) == IF Found(ids, n) = 0 THEN total + n ELSE total

Allocate(n) ==
  /\ active /\ Cardinality(used) < MaxRuns
  /\ TotalAfter(n) <= MaxPage
  /\ got' = Found(ids, n)
  /\ ids' = Rest(ids, n)
  /\ cache' = CacheAfter(cache, ids, n)
  /\ used' = used \cup {Placed(n)}
  /\ total' = TotalAfter(n)
  /\ UNCHANGED <<pending, page, tid, active, fl, base>>

\* Tx::commit: free the old freelist, allocate the new one, write it.
PagesForList(p) == SerialPages(Count(ids, p))

Commit ==
  LET p == FreeRun(pending, tid, fl)
      n == PagesForList(p)
  IN  /\ active
      /\ TotalAfter(n) <= MaxPage
      /\ Span(fl.first, fl.n) \cap cache = {}
      /\ pending' = p
      /\ got' = Found(ids, n)
      /\ ids' = Rest(ids, n)
      /\ cache' = CacheAfter(cache, ids, n)
      /\ page' = WritePage(ids', p)
      /\ fl' = Placed(n)
      /\ total' = TotalAfter(n)
      /\ base' = [used |-> used, fl |-> fl', total |-> total']
      /\ active' = FALSE
      /\ UNCHANGED <<tid, used>>

\* Tx::rollback: freeList::rollback, which takes the transaction's pages out
\* of cache_ and pending_, and freeList::reload, which rebuilds both ids_ and
\* cache_.  The transaction id is used again.
Rollback ==
  LET p == [pending EXCEPT ![tid] = <<>>]
      all == ToSet(Gather(p, TxIds))
  IN  /\ active
      /\ pending' = p
      /\ ids' = Keep(ReadPage(page), all)
      /\ cache' = Reindex(ids', p)
      /\ used' = base.used /\ total' = base.total
      /\ active' = FALSE /\ tid' = tid - 1
      /\ UNCHANGED <<page, got, fl, base>>

\* DB::DbClose and DB::Open, or a crash and DB::Open: freeList::read.
Reopen ==
  /\ pending' = NoPending
  /\ ids' = ReadPage(page)
  /\ cache' = Reindex(ids', NoPending)
  /\ used' = base.used /\ total' = base.total
  /\ active' = FALSE /\ tid' = IF active THEN tid - 1 ELSE tid
  /\ UNCHANGED <<page, got, fl, base>>

Next ==
  \/ \E t \in 0 .. tid : Release(t)
  \/ \E r \in used : Free(r)
  \/ \E n \in AllocSizes : Allocate(n)
  \/ Commit
  \/ Rollback
  \/ Reopen

Spec == Init /\ [][Next]_vars

---------------------------------------------------------------------------
(* Properties.                                                             *)

Ascending(s) == \A i, j \in 1 .. Len(s) : i < j => s[i] < s[j]
PagesOf(R) == UNION {Span(r.first, r.n) : r \in R}
FreePages == ToSet(ids) \cup ToSet(Gather(pending, TxIds))
InUse == PagesOf(used \cup {fl})
Saved == ToSet(ReadPage(page))

\* Every variable stays in the set it was declared for.
TypeOK ==
  /\ ids \in Seq(Pages) /\ pending \in [TxIds -> Seq(Pages)]
  /\ cache \subseteq Pages
  /\ page.count \in 0 .. CountMax
  /\ got \in Pages \cup {0}
  /\ tid \in TxIds /\ active \in BOOLEAN
  /\ total \in 4 .. MaxPage

\* The vectors hold no page twice and ids_ is sorted, which the scan of
\* allocate relies on.
NoDuplicates ==
  /\ Ascending(ids)
  /\ Cardinality(FreePages) = Count(ids, pending)

\* The assertion of freeList::free never fires on a page in use, and no page
\* in use is free or pending: after any mix of commits, rollbacks and opens
\* the two halves of the file never overlap and never lose a page.
InUseNotFree ==
  /\ InUse \cap cache = {}
  /\ InUse \cap FreePages = {}
  /\ InUse \cup FreePages = 2 .. (total - 1)

\* The page commit writes fits in the pages it allocated for it, though the
\* size was taken before the allocation, and reading it back gives every
\* free and pending page.
PageHoldsAll ==
  /\ Len(page.slots) <= base.fl.n * PageSlots - HeaderSlots
  /\ ~active => FreePages = Saved
  /\ Ascending(ReadPage(page))

\* Runs lie between the metas and the end of the file and share no page.
RunsApart(R, end) ==
  /\ \A r \in R : r.first \in 2 .. end /\ r.n \in Nat \ {0} /\ r.first + r.n <= end
  /\ \A r, q \in R : r # q => Span(r.first, r.n) \cap Span(q.first, q.n) = {}

\* No page is in two vectors or twice in one, and only transactions up to the
\* running one have pending pages.
VectorsApart ==
  /\ Ascending(ids)
  /\ \A k \in TxIds : IsInjective(pending[k]) /\ ToSet(pending[k]) \cap ToSet(ids) = {}
  /\ \A k, l \in TxIds : k # l => ToSet(pending[k]) \cap ToSet(pending[l]) = {}
  /\ \A k \in TxIds : k > tid => pending[k] = <<>>

\* What rollback and open go back to: the freelist page lists exactly the
\* pages of the last commit that are not in use, and what other transactions
\* than the running one left pending is among them.
CommitKept ==
  /\ base.fl = fl /\ fl \notin base.used
  /\ base.total \in 4 .. MaxPage /\ RunsApart(base.used \cup {fl}, base.total)
  /\ ReadPage(page) \in Seq(Pages)
  /\ PagesOf(base.used \cup {fl}) \cap Saved = {}
  /\ PagesOf(base.used \cup {fl}) \cup Saved = 2 .. (base.total - 1)
  /\ \A k \in TxIds : (active => k # tid) => ToSet(pending[k]) \subseteq Saved
  /\ ~active => used = base.used /\ total = base.total

\* The lengths runs have: those asked for, and those the freelist page needs.
Sizes == AllocSizes \cup (1 .. SerialPages(MaxPage))

\* Every page below the end of the file is in one run or in one vector, and
\* was at the last commit; cache_ may lag behind, never the other way.
ListInv ==
  /\ VectorsApart
  /\ fl \notin used /\ RunsApart(used \cup {fl}, total)
  /\ \A r \in used \cup base.used \cup {fl} : r.n \in Sizes
  /\ cache \subseteq FreePages
  /\ CommitKept
  /\ tid > IF active THEN 1 ELSE 0

\* The vectors implement the sets.
Abstract == INSTANCE FreeSet WITH
  ids <- ToSet(ids),
  pending <- [k \in TxIds |-> ToSet(pending[k])],
  saved <- ToSet(ReadPage(page)),
  AllocSizes <- Sizes

\* freeList's operations do what FreeSet says: the pages handed out are the
\* lowest run of free ones, release and reload move the right pages, and the
\* freelist page read back is the set that was written.
ImplementsFreeSet == Abstract!Spec
=============================================================================
