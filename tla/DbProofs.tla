------------------------------ MODULE DbProofs ------------------------------
(***************************************************************************)
(* Proofs about Db, for every number of readers, every bound and every     *)
(* size of the mapping: its types; that the invariant of DbInv.tla is      *)
(* inductive, and with it snapshot isolation, the integrity of the         *)
(* committed version, durability and the freshness of what a commit        *)
(* writes; that no page is lost and no page pointer leads out of the       *)
(* mapping or of the file; and that every step is a step of SnapshotStore  *)
(* or changes nothing a user can see.                                      *)
(***************************************************************************)
EXTENDS DbInv, DbRefinement, FiniteSetTheorems, WellFoundedInduction, TLAPS

---------------------------------------------------------------------------
(* Helpers of the allocator.                                               *)

\* A set of numbers that is not empty has a least element, and Min is it:
\* what DB::getMmapSize, freeList::allocate and beginRWTx's minId rely on.
LEMMA MinIsLeast ==
  ASSUME NEW S \in SUBSET Nat, S # {}
  PROVE  Min(S) \in S /\ \A y \in S : Min(S) <= y
<1> DEFINE R == {ss \in Nat \X Nat : ss[1] < ss[2]}
<1>1. IsWellFoundedOn(R, Nat)
  BY NatLessThanWellFounded, Zenon DEF OpToRel
<1>2. PICK x \in S : \A y \in S : ~ (<<y, x>> \in R)
  <2> HIDE DEF R
  <2> QED
    BY <1>1, WFMin
<1>3. ASSUME NEW y \in S
      PROVE  x <= y
  <2>1. x \in Nat /\ y \in Nat
    OBVIOUS
  <2>2. y < x => <<y, x>> \in R
    BY <2>1
  <2>3. ~ (<<y, x>> \in R)
    BY <1>2
  <2> QED
    BY <2>1, <2>2, <2>3
<1> QED
  BY <1>3 DEF Min

\* The larger of two sizes, as DB::initMeta takes it.
LEMMA MaxOfTwo ==
  ASSUME NEW a \in Nat, NEW b \in Nat
  PROVE  Max({a, b}) \in Nat /\ a <= Max({a, b}) /\ b <= Max({a, b})
<1>1. \E x \in {a, b} : \A y \in {a, b} : x >= y
  OBVIOUS
<1> QED
  BY <1>1 DEF Max

\* freeList::allocate returns free pages.
LEMMA FirstRunIsFree ==
  ASSUME NEW S \in SUBSET Nat, NEW n \in Nat \ {0}, FirstRun(S, n) # 0
  PROVE  FirstRun(S, n) \in S /\ Span(FirstRun(S, n), n) \subseteq S
<1>1. RunStarts(S, n) # {} /\ RunStarts(S, n) \in SUBSET Nat
  BY DEF FirstRun, RunStarts
<1>2. Min(RunStarts(S, n)) \in RunStarts(S, n)
  BY <1>1, MinIsLeast
<1> QED
  BY <1>1, <1>2 DEF FirstRun, RunStarts

\* DB::getMmapSize returns one of the sizes, and one that is large enough.
LEMMA MmapSizeFits ==
  ASSUME NEW size \in Nat, CanMap(size)
  PROVE  MmapSize(size) \in MmapSizes /\ size <= MmapSize(size)
<1>1. {m \in MmapSizes : size <= m} \in SUBSET Nat
  BY PageAllocAssumption
<1>2. {m \in MmapSizes : size <= m} # {}
  BY DEF CanMap
<1> QED
  BY <1>1, <1>2, MinIsLeast DEF MmapSize

\* The pages Tx::commit asks for to hold the freelist: at least one.
LEMMA SerialPagesPositive ==
  ASSUME NEW S \in SUBSET Pages
  PROVE  SerialPages(Cardinality(S)) \in Nat \ {0}
<1>1. IsFiniteSet(Pages)
  BY FS_Interval, DbAssumption DEF Pages
<1>2. Cardinality(S) \in Nat
  BY <1>1, FS_Subset, FS_CardinalityType
<1>3. SerialSlots(Cardinality(S)) \in Nat
  BY <1>2 DEF SerialSlots, HeaderSlots
<1> QED
  BY <1>3, PageAllocAssumption DEF SerialPages

\* What DB::allocate returns: a run of free pages, or one past the end of
\* the file that the mapping, moved if need be, covers.
LEMMA AllocateFacts ==
  ASSUME TypeOK, NEW n \in Nat \ {0}, Take(n)
  PROVE  /\ NewRun(n) \in Run
         /\ NewRun(n).n = n /\ NewRun(n).by = rwtx.txid
         /\ TotalAfter(n) \in 2 .. MaxPage /\ rwtx.total <= TotalAfter(n)
         /\ ids' = ids \ PagesOf(NewRun(n))
         /\ datasz' \in MmapSizes /\ moved' \in BOOLEAN
         /\ \/ PagesOf(NewRun(n)) \subseteq ids
            \/ PagesOf(NewRun(n)) \subseteq rwtx.total .. (TotalAfter(n) - 1)
<1> DEFINE tgt == rwtx.total + n + 1
<1>1. /\ rwtx.total \in 2 .. MaxPage /\ rwtx.txid \in TxIds /\ MaxPage \in Nat
      /\ filesz \in Nat /\ datasz \in Nat /\ datasz <= MaxPage
      /\ datasz \in MmapSizes /\ ids \subseteq Pages /\ ids \in SUBSET Nat
  BY DbAssumption, PageAllocAssumption DEF TypeOK, Meta, Pages
<1>2. PagesOf(NewRun(n)) = Span(FirstOf(n), n)
  BY DEF PagesOf, NewRun
<1>3. ids' = ids \ PagesOf(NewRun(n)) /\ moved' \in BOOLEAN
  BY <1>2 DEF Take, TypeOK
<1>4. CASE EndOfFile(n)
  <2>1. FirstOf(n) = rwtx.total /\ TotalAfter(n) = rwtx.total + n
    BY <1>4 DEF FirstOf, TotalAfter
  <2>2. CASE Remaps(n)
    <3>1. MapTarget(n) \in Nat /\ tgt <= MapTarget(n)
      BY <1>1, MaxOfTwo DEF MapTarget
    <3>2. CanMap(MapTarget(n)) /\ datasz' = MmapSize(MapTarget(n))
      BY <2>2 DEF Take
    <3>3. datasz' \in MmapSizes /\ MapTarget(n) <= datasz'
      BY <3>1, <3>2, MmapSizeFits
    <3>4. datasz' \in Nat /\ datasz' <= MaxPage
      BY <3>3, DbAssumption, PageAllocAssumption
    <3> QED
      BY <1>1, <1>2, <1>3, <2>1, <3>1, <3>3, <3>4 DEF Run, NewRun, Pages, Span
  <2>3. CASE ~Remaps(n)
    <3>1. datasz' = datasz /\ tgt <= datasz
      BY <1>1, <1>4, <2>3 DEF Take, Remaps
    <3> QED
      BY <1>1, <1>2, <1>3, <2>1, <3>1 DEF Run, NewRun, Pages, Span
  <2> QED
    BY <2>2, <2>3
<1>5. CASE ~EndOfFile(n)
  <2>1. FirstOf(n) = FirstRun(ids, n) /\ TotalAfter(n) = rwtx.total
    BY <1>5 DEF FirstOf, TotalAfter
  <2>2. FirstOf(n) \in ids /\ Span(FirstOf(n), n) \subseteq ids
    BY <1>1, <1>5, <2>1, FirstRunIsFree DEF EndOfFile
  <2>3. n <= MaxPage /\ FirstOf(n) \in Pages /\ Span(FirstOf(n), n) \subseteq Pages
    <3> DEFINE f == FirstOf(n)
    <3>0. f \in Pages /\ Span(f, n) \subseteq Pages
      BY <1>1, <2>2, Zenon
    <3> HIDE DEF f
    <3>1. f \in Nat /\ f >= 2
      BY <3>0, <1>1 DEF Pages
    <3>2. f + n - 1 \in Span(f, n)
      BY <3>1 DEF Span
    <3>3. f + n - 1 <= MaxPage
      BY <3>0, <3>2 DEF Pages
    <3>4. n <= MaxPage
      BY <1>1, <3>1, <3>3
    <3> QED
      BY <3>0, <3>4 DEF f
  <2>4. datasz' = datasz
    BY <1>5 DEF Take, Remaps
  <2>5. n \in 1 .. MaxPage
    BY <1>1, <2>3
  <2>6. NewRun(n) \in Run
    BY <1>1, <2>3, <2>5 DEF Run, NewRun
  <2>7. NewRun(n).n = n /\ NewRun(n).by = rwtx.txid
    BY DEF NewRun
  <2> QED
    BY <1>1, <1>2, <1>3, <2>1, <2>2, <2>4, <2>6, <2>7
<1> QED
  BY <1>4, <1>5

---------------------------------------------------------------------------
(* Types.                                                                  *)

\* DB::getMeta returns a meta.
LEMMA NewestType ==
  ASSUME NEW ms \in [{0, 1} -> Meta]
  PROVE  Newest(ms) \in Meta
  BY DEF Newest

\* The metas DB::Init writes are metas.
LEMMA InitMetaType ==
  ASSUME NEW i \in {0, 1}
  PROVE  InitMeta(i) \in Meta
<1>1. /\ [first |-> 3, n |-> 1, by |-> 0] \in Run
      /\ [first |-> 2, n |-> 1, by |-> 0] \in Run
  BY DbAssumption DEF Run, Pages, TxIds, Span
<1>2. i \in TxIds /\ 4 \in 2 .. MaxPage
  BY DbAssumption DEF TxIds
<1> QED
  BY <1>1, <1>2 DEF InitMeta, Meta

\* The meta a read-write transaction starts with.
LEMMA NextTxType ==
  ASSUME NEW m \in Meta, m.txid < MaxTx
  PROVE  [m EXCEPT !.txid = @ + 1] \in Meta
<1>1. m.txid + 1 \in TxIds
  BY DbAssumption DEF Meta, TxIds
<1> QED
  BY <1>1 DEF Meta

\* A set of pages taken out of pending_ is a set of pages.
LEMMA PendingType ==
  ASSUME NEW p \in [TxIds -> SUBSET Pages]
  PROVE  /\ AllPending(p) \subseteq Pages
         /\ \A k : Released(p, k) \subseteq Pages
  BY DEF AllPending, Released

\* The pages of a run are pages, and its first page is one of them.
LEMMA RunPages ==
  ASSUME NEW r \in Run
  PROVE  PagesOf(r) \subseteq Pages /\ r.first \in PagesOf(r) /\ r.by \in TxIds
<1>1. r.first \in Nat /\ r.n \in Nat /\ r.n >= 1
  BY DbAssumption DEF Run, Pages
<1> QED
  BY <1>1 DEF Run, PagesOf, Span

\* freeList::free of a run puts pages into pending_.
LEMMA FreedType ==
  ASSUME TypeOK, NEW r \in Run
  PROVE  Freed(r) \in [TxIds -> SUBSET Pages]
  BY RunPages DEF Freed, TypeOK, Meta

\* Init establishes the types.
LEMMA InitTypeOK == Init => TypeOK
<1> SUFFICES ASSUME Init PROVE TypeOK
  OBVIOUS
<1>1. InitMeta(0) \in Meta /\ InitMeta(1) \in Meta
  BY InitMetaType
<1>2. MmapSize(4) \in MmapSizes
  BY MmapSizeFits, DbAssumption
<1>3. Blank \in Content
  BY DbAssumption DEF Blank, Content, TxIds
<1>4. metas \in [{0, 1} -> Meta]
  BY <1>1 DEF Init
<1>5. file \in [Pages -> Content] /\ disk = file /\ dmetas = metas
  BY <1>3 DEF Init
<1>6. pending \in [TxIds -> SUBSET Pages] /\ ids \subseteq Pages
  BY DEF Init, NoPending
<1>7. rootT \in BOOLEAN /\ moved \in BOOLEAN
  BY DEF Init
<1>8. snap \in [Readers -> Meta] /\ open \subseteq Readers /\ mmapR \subseteq Readers
  BY <1>1 DEF Init
<1>9. /\ rwtx \in Meta /\ todo \subseteq Run /\ news \in 0 .. MaxNew
      /\ acked \in TxIds /\ crashes \in 0 .. MaxCrash
      /\ datasz \in MmapSizes /\ filesz \in Nat /\ pc = "idle"
  BY <1>1, <1>2, DbAssumption DEF Init, TxIds
<1> QED
  BY <1>4, <1>5, <1>6, <1>7, <1>8, <1>9 DEF TypeOK

\* Every action keeps the types.  The actions that allocate go through
\* AllocateFacts.
LEMMA NextTypeOK == TypeOK /\ [Next]_vars => TypeOK'
<1> SUFFICES ASSUME TypeOK, [Next]_vars PROVE TypeOK'
  OBVIOUS
<1>m. getMeta \in Meta /\ Newest(dmetas) \in Meta /\ InitMeta(1) \in Meta
  BY NewestType, InitMetaType DEF getMeta, TypeOK
<1>p. NoPending \in [TxIds -> SUBSET Pages]
  BY DEF NoPending
<1>r. /\ rwtx \in Meta /\ rwtx.kids \subseteq Run /\ rwtx.root \in Run
      /\ rwtx.freelist \in Run /\ rwtx.txid \in TxIds /\ rwtx.total \in 2 .. MaxPage
  BY DEF TypeOK, Meta
<1>d. pending \in [TxIds -> SUBSET Pages] /\ ids \subseteq Pages
  BY DEF TypeOK
<1>1. CASE BeginRWTx
  <2>1. rwtx' \in Meta
    BY <1>1, <1>m, NextTxType DEF BeginRWTx, InitTx
  <2>2. ids' \subseteq Pages /\ pending' \in [TxIds -> SUBSET Pages]
    BY <1>1, <1>d, PendingType DEF BeginRWTx
  <2> QED
    BY <1>1, <2>1, <2>2 DEF BeginRWTx, TypeOK, readers, store, sizes, history
<1>2. ASSUME RollbackFreelist
      PROVE  ids' \subseteq Pages /\ pending' \in [TxIds -> SUBSET Pages]
  <2>1. rwtx.freelist.first \in Pages
    BY <1>r DEF Run
  <2>2. Persisted(file, rwtx) \subseteq Pages
    BY <2>1 DEF Persisted, TypeOK, Content
  <2> QED
    BY <1>2, <1>d, <1>r, <2>2 DEF RollbackFreelist
<1>3. CASE Rollback
  BY <1>2, <1>3 DEF Rollback, TypeOK, readers, store, sizes, history
<1>4. CASE UpdateFails
  BY <1>2, <1>4 DEF UpdateFails, TypeOK, readers, store, sizes, history
<1>5. CASE CloseTx
  <2>1. rootT' \in BOOLEAN /\ moved' \in BOOLEAN
    BY <1>5 DEF CloseTx
  <2>2. news' \in 0 .. MaxNew /\ todo' \subseteq Run
    BY <1>5, DbAssumption DEF CloseTx
  <2> QED
    BY <1>5, <1>m, <2>1, <2>2 DEF CloseTx, TypeOK, readers, freelist, store, sizes, history
<1>6. ASSUME NEW T \in SUBSET rwtx.kids, NEW k \in 0 .. MaxNew, NEW b \in BOOLEAN,
             Commit(T, k, b)
      PROVE  TypeOK'
  <2>1. rootT' \in BOOLEAN
    BY <1>6 DEF Commit
  <2> QED
    BY <1>6, <1>r, <2>1 DEF Commit, TypeOK, readers, freelist, store, sizes, history
<1>7. ASSUME NEW k \in todo, NEW n \in RunSizes, SpillKid(k, n)
      PROVE  TypeOK'
  <2>1. n \in Nat \ {0} /\ Take(n) /\ k \in Run
    BY <1>7, DbAssumption DEF SpillKid, TypeOK
  <2>2. rwtx' \in Meta
    BY <1>7, <1>r, <2>1, AllocateFacts DEF SpillKid, Meta
  <2>3. pending' \in [TxIds -> SUBSET Pages] /\ ids' \subseteq Pages
    BY <1>7, <1>d, <2>1, FreedType, AllocateFacts DEF SpillKid
  <2>4. datasz' \in MmapSizes /\ moved' \in BOOLEAN
    BY <2>1, AllocateFacts
  <2> QED
    BY <1>7, <2>2, <2>3, <2>4 DEF SpillKid, TypeOK, readers, store, history
<1>8. ASSUME NEW k \in todo, InlineKid(k)
      PROVE  TypeOK'
  <2>1. rwtx' \in Meta
    BY <1>8, <1>r DEF InlineKid, Meta
  <2>2. pending' \in [TxIds -> SUBSET Pages]
    BY <1>8, FreedType DEF InlineKid, TypeOK
  <2> QED
    BY <1>8, <2>1, <2>2 DEF InlineKid, TypeOK, readers, store, sizes, history
<1>9. ASSUME NEW k \in todo, InlineKidStale(k)
      PROVE  TypeOK'
  BY <1>9 DEF InlineKidStale, TypeOK, readers, freelist, store, sizes, history
<1>10. ASSUME NEW n \in RunSizes, SpillNew(n)
       PROVE  TypeOK'
  <2>1. n \in Nat \ {0} /\ Take(n)
    BY <1>10, DbAssumption DEF SpillNew
  <2>2. rwtx' \in Meta
    BY <1>10, <1>r, <2>1, AllocateFacts DEF SpillNew, Meta
  <2>3. ids' \subseteq Pages /\ datasz' \in MmapSizes /\ moved' \in BOOLEAN
    BY <1>d, <2>1, AllocateFacts
  <2>4. news' \in 0 .. MaxNew
    BY <1>10, DbAssumption DEF SpillNew, TypeOK
  <2> QED
    BY <1>10, <2>2, <2>3, <2>4 DEF SpillNew, TypeOK, readers, store, history
<1>11. ASSUME NEW n \in RunSizes, SpillRoot(n)
       PROVE  TypeOK'
  <2>1. n \in Nat \ {0} /\ Take(n)
    BY <1>11, DbAssumption DEF SpillRoot
  <2>2. rwtx' \in Meta
    BY <1>11, <1>r, <2>1, AllocateFacts DEF SpillRoot, Meta
  <2>3. pending' \in [TxIds -> SUBSET Pages]
    BY <1>11, <1>r, FreedType DEF SpillRoot
  <2>4. ids' \subseteq Pages /\ datasz' \in MmapSizes /\ moved' \in BOOLEAN
    BY <1>d, <2>1, AllocateFacts
  <2> QED
    BY <1>11, <2>2, <2>3, <2>4 DEF SpillRoot, TypeOK, readers, store, history
<1>12. CASE CommitFreelist
  <2> DEFINE n == SerialPages(Cardinality(ids \cup AllPending(Freed(rwtx.freelist))))
  <2>1. Freed(rwtx.freelist) \in [TxIds -> SUBSET Pages]
    BY <1>r, FreedType
  <2>2. ids \cup AllPending(Freed(rwtx.freelist)) \in SUBSET Pages
    BY <1>d, <2>1, PendingType
  <2>3. n \in Nat \ {0} /\ Take(n)
    BY <1>12, <2>2, SerialPagesPositive DEF CommitFreelist
  <2>4. /\ pending' = Freed(rwtx.freelist) /\ pc' = "write"
        /\ rwtx' = [rwtx EXCEPT !.freelist = NewRun(n), !.total = TotalAfter(n)]
        /\ filesz' = IF EndOfFile(n) THEN Grow(TotalAfter(n) + 1, datasz') ELSE filesz
        /\ UNCHANGED <<todo, news, rootT, readers, store, history>>
    BY <1>12 DEF CommitFreelist
  <2> HIDE DEF n
  <2>5. rwtx' \in Meta
    BY <1>r, <2>3, <2>4, AllocateFacts DEF Meta
  <2>6. /\ ids' \subseteq Pages /\ datasz' \in MmapSizes /\ moved' \in BOOLEAN
        /\ TotalAfter(n) \in Nat
    BY <1>d, <2>3, AllocateFacts, DbAssumption
  <2>7. filesz' \in Nat
    BY <2>4, <2>6, PageAllocAssumption DEF TypeOK, Grow
  <2> QED
    BY <2>1, <2>4, <2>5, <2>6, <2>7 DEF TypeOK, readers, store, history
<1>13. CASE Write
  <2>1. ids \cup AllPending(pending) \subseteq Pages
    BY <1>d, PendingType
  <2>2. file' \in [Pages -> Content]
    BY <1>13, <1>r, <2>1 DEF Write, TypeOK, Content
  <2> QED
    BY <1>13, <2>2 DEF Write, TypeOK, readers, freelist, sizes, history
<1>14. CASE SyncData
  <2>1. filesz' \in Nat
    BY <1>14, <1>r, MaxOfTwo, DbAssumption DEF SyncData, TypeOK
  <2> QED
    BY <1>14, <2>1 DEF SyncData, TypeOK, readers, freelist, history
<1>15. CASE WriteMeta
  <2>1. metas' \in [{0, 1} -> Meta]
    BY <1>15, <1>r DEF WriteMeta, MetaPage, TypeOK
  <2> QED
    BY <1>15, <2>1 DEF WriteMeta, TypeOK, readers, freelist, sizes, history
<1>16. CASE SyncMeta
  BY <1>16, <1>r DEF SyncMeta, TypeOK, readers, freelist, sizes
<1>17. ASSUME NEW r \in Readers, BeginTx(r)
       PROVE  TypeOK'
  BY <1>17, <1>m DEF BeginTx, InitTx, TypeOK, writer, freelist, store, sizes, history
<1>18. ASSUME NEW r \in Readers, UnlockMmap(r)
       PROVE  TypeOK'
  BY <1>18 DEF UnlockMmap, TypeOK, writer, freelist, store, sizes, history
<1>19. ASSUME NEW r \in Readers, RemoveTx(r)
       PROVE  TypeOK'
  BY <1>19, <1>m DEF RemoveTx, TypeOK, writer, freelist, store, sizes, history
<1>20. CASE DbClose
  BY <1>20, <1>p DEF DbClose, TypeOK, readers, store, sizes, history
<1>21. CASE Crash
  <2>1. file' \in [Pages -> Content]
    BY <1>21 DEF Crash, TypeOK, Survives
  <2>2. metas' \in [{0, 1} -> Meta]
    BY <1>21 DEF Crash, TypeOK, Survives
  <2>3. filesz' \in Nat
    BY <1>21, <1>r, MaxOfTwo, DbAssumption DEF Crash, TypeOK
  <2>4. crashes' \in 0 .. MaxCrash /\ news' \in 0 .. MaxNew
    BY <1>21, DbAssumption DEF Crash, TypeOK
  <2>5. rootT' \in BOOLEAN /\ moved' \in BOOLEAN
    BY <1>21 DEF Crash
  <2>6. snap' \in [Readers -> Meta] /\ rwtx' \in Meta /\ disk' = file' /\ dmetas' = metas'
    BY <1>21, <1>m DEF Crash
  <2>7. /\ pc' = "down" /\ todo' = {} /\ open' = {} /\ mmapR' = {} /\ ids' = {}
        /\ pending' = NoPending /\ datasz' = datasz /\ acked' = acked
    BY <1>21 DEF Crash
  <2> QED
    BY <1>p, <2>1, <2>2, <2>3, <2>4, <2>5, <2>6, <2>7 DEF TypeOK
<1>22. CASE Open
  <2>1. getMeta.freelist.first \in Pages
    BY <1>m DEF Meta, Run
  <2>2. ids' \subseteq Pages
    BY <1>22, <2>1 DEF Open, Persisted, TypeOK, Content
  <2>3. datasz' \in MmapSizes
    BY <1>22, MmapSizeFits DEF Open, TypeOK
  <2> QED
    BY <1>22, <2>2, <2>3 DEF Open, TypeOK, readers, store, history
<1>23. CASE UNCHANGED vars
  BY <1>23 DEF vars, writer, readers, freelist, store, sizes, history, TypeOK
<1> QED
  BY <1>1, <1>3, <1>4, <1>5, <1>6, <1>7, <1>8, <1>9, <1>10, <1>11, <1>12, <1>13,
     <1>14, <1>15, <1>16, <1>17, <1>18, <1>19, <1>20, <1>21, <1>22, <1>23
     DEF Next, CommitStep, ReaderStep

\* Every reachable state has the types, whatever the constants are.
THEOREM TypeCorrect == Spec => []TypeOK
<1>1. Init => TypeOK
  BY InitTypeOK
<1>2. TypeOK /\ [Next]_vars => TypeOK'
  BY NextTypeOK
<1> QED
  BY <1>1, <1>2, PTL DEF Spec

---------------------------------------------------------------------------
(* The metas.                                                              *)

\* The types of what the invariant speaks of.
LEMMA CurType ==
  ASSUME TypeOK
  PROVE  /\ cur \in Meta /\ dcur \in Meta /\ rwtx \in Meta
         /\ pending \in [TxIds -> SUBSET Pages]
  BY NewestType DEF cur, dcur, getMeta, TypeOK

\* The parts of a meta are what their names say; its freelist is one of its
\* runs.
LEMMA MetaType ==
  ASSUME NEW m \in Meta
  PROVE  /\ m.txid \in Nat /\ m.txid \in TxIds /\ m.total \in Nat
         /\ m.root \in Run /\ m.freelist \in Run /\ m.kids \subseteq Run
         /\ AllRuns(m) \subseteq Run /\ TreeRuns(m) \subseteq AllRuns(m)
         /\ m.freelist \in AllRuns(m) /\ m.root \in TreeRuns(m)
<1>1. m.txid \in TxIds /\ m.total \in 2 .. MaxPage /\ m.root \in Run
      /\ m.freelist \in Run /\ m.kids \subseteq Run
  BY DEF Meta
<1>2. m.txid \in Nat /\ m.total \in Nat
  BY <1>1, DbAssumption DEF TxIds
<1> QED
  BY <1>1, <1>2 DEF AllRuns, TreeRuns

\* meta::write puts the next meta on the page that DB::getMeta does not pick,
\* and DB::getMeta then picks the new one.
LEMMA NewMeta ==
  ASSUME NEW ms \in [{0, 1} -> Meta], Alternate(ms),
         NEW m \in Meta, m.txid = Newest(ms).txid + 1
  PROVE  /\ Newest([ms EXCEPT ![m.txid % 2] = m]) = m
         /\ Alternate([ms EXCEPT ![m.txid % 2] = m])
<1>1. ms[0].txid \in Nat /\ ms[1].txid \in Nat /\ m.txid \in Nat
  BY MetaType
<1>2. CASE ms[1].txid = ms[0].txid + 1
  <2>1. Newest(ms) = ms[1]
    BY <1>1, <1>2 DEF Newest
  <2>2. m.txid % 2 = 0 /\ m.txid = ms[1].txid + 1
    BY <1>1, <2>1 DEF Alternate
  <2>3. [ms EXCEPT ![m.txid % 2] = m][0] = m
        /\ [ms EXCEPT ![m.txid % 2] = m][1] = ms[1]
    BY <2>2
  <2> QED
    BY <1>1, <2>2, <2>3 DEF Alternate, Newest
<1>3. CASE ms[0].txid = ms[1].txid + 1
  <2>1. Newest(ms) = ms[0]
    BY <1>1, <1>3 DEF Newest
  <2>2. m.txid % 2 = 1 /\ m.txid = ms[0].txid + 1
    BY <1>1, <2>1 DEF Alternate
  <2>3. [ms EXCEPT ![m.txid % 2] = m][1] = m
        /\ [ms EXCEPT ![m.txid % 2] = m][0] = ms[0]
    BY <2>2
  <2> QED
    BY <1>1, <2>2, <2>3 DEF Alternate, Newest
<1> QED
  BY <1>2, <1>3 DEF Alternate

\* While the new meta page is not synced, it is the writer's; otherwise disk
\* and mapping agree.
LEMMA MetasOnDisk ==
  ASSUME TypeOK, TwoMetas
  PROVE  /\ pc # "syncmeta" => dcur = cur
         /\ pc = "syncmeta" => cur = rwtx /\ cur.txid = dcur.txid + 1
         /\ dcur.txid <= cur.txid
<1>1. CASE pc # "syncmeta"
  <2>1. dcur = cur
    BY <1>1 DEF TwoMetas, cur, dcur, getMeta
  <2> QED
    BY <1>1, <2>1, CurType, MetaType
<1>2. CASE pc = "syncmeta"
  <2>1. /\ dmetas \in [{0, 1} -> Meta] /\ Alternate(dmetas) /\ rwtx \in Meta
        /\ rwtx.txid = Newest(dmetas).txid + 1
        /\ metas = [dmetas EXCEPT ![rwtx.txid % 2] = rwtx]
    BY <1>2 DEF TwoMetas, TypeOK, dcur
  <2>2. Newest(metas) = rwtx
    BY <2>1, NewMeta
  <2>3. cur = rwtx /\ cur.txid = dcur.txid + 1
    BY <2>1, <2>2 DEF cur, dcur, getMeta
  <2> QED
    BY <1>2, <2>3, CurType, MetaType
<1> QED
  BY <1>1, <1>2

\* Steps that leave the file and the metas alone leave the committed version
\* alone.
LEMMA StoreKept ==
  ASSUME TwoMetas, Committed, UNCHANGED store, acked' = acked,
         \/ pc' = pc /\ rwtx' = rwtx
         \/ pc # "syncmeta" /\ pc' \notin {"meta", "syncmeta"}
  PROVE  cur' = cur /\ dcur' = dcur /\ TwoMetas' /\ Committed'
<1>1. metas' = metas /\ dmetas' = dmetas /\ file' = file /\ disk' = disk
  BY DEF store
<1>2. cur' = cur /\ dcur' = dcur
  BY <1>1 DEF cur, dcur, getMeta
<1>3. TwoMetas'
  BY <1>1, <1>2 DEF TwoMetas
<1>4. Committed'
  BY <1>1, <1>2 DEF Committed
<1> QED
  BY <1>2, <1>3, <1>4

---------------------------------------------------------------------------
(* Beginning, rolling back and closing a read-write transaction.           *)

\* beginRWTx releases only pages that no open reader and no committed run
\* needs.
LEMMA BeginRWTxKeeps == IInv /\ TypeOK' /\ BeginRWTx => IInv'
<1> SUFFICES ASSUME IInv, TypeOK', BeginRWTx PROVE IInv'
  OBVIOUS
<1> USE DEF IInv
<1> DEFINE u == ReleaseUpTo
<1>t. /\ cur \in Meta /\ pending \in [TxIds -> SUBSET Pages] /\ cur.txid \in Nat
      /\ \A k \in TxIds : k \in Nat
  BY CurType, MetaType, DbAssumption DEF TxIds
<1>1. /\ pc = "idle" /\ pc' = "fn" /\ acked' = acked
      /\ UNCHANGED store /\ UNCHANGED readers /\ file' = file
      /\ rwtx' = [cur EXCEPT !.txid = @ + 1]
      /\ ids' = ids \cup Released(pending, u)
      /\ pending' = [k \in TxIds |-> IF k <= u THEN {} ELSE pending[k]]
  BY DEF BeginRWTx, InitTx, cur, history, store
<1>2. cur' = cur /\ dcur' = dcur /\ TwoMetas' /\ Committed'
  BY <1>1, StoreKept
<1>3. u \in Int
  <2>1. CASE open = {}
    BY <2>1, DbAssumption DEF ReleaseUpTo
  <2>2. CASE open # {}
    <3>1. {snap[r].txid : r \in open} \in SUBSET Nat
      BY MetaType DEF TypeOK
    <3>2. {snap[r].txid : r \in open} # {}
      BY <2>2
    <3> DEFINE mn == Min({snap[r].txid : r \in open})
    <3>3. mn \in Nat
      BY <3>1, <3>2, MinIsLeast
    <3>4. u = mn - 1
      BY <2>2 DEF ReleaseUpTo
    <3> HIDE DEF mn, u
    <3> QED
      BY <3>3, <3>4
  <2> QED
    BY <2>1, <2>2
<1>4. ASSUME NEW t \in open
      PROVE  u < snap[t].txid
  <2>1. {snap[r].txid : r \in open} \in SUBSET Nat
    BY MetaType DEF TypeOK
  <2>2. {snap[r].txid : r \in open} # {} /\ snap[t].txid \in {snap[r].txid : r \in open}
    BY <1>4
  <2> DEFINE mn == Min({snap[r].txid : r \in open})
  <2>3. mn \in Nat /\ mn <= snap[t].txid /\ snap[t].txid \in Nat
    BY <2>1, <2>2, MinIsLeast
  <2>4. u = mn - 1
    BY <1>4 DEF ReleaseUpTo
  <2> HIDE DEF mn, u
  <2> QED
    BY <2>3, <2>4
<1> HIDE DEF u
<1>5. \A p \in Released(pending, u) : \E j \in TxIds : j <= u /\ p \in pending[j]
  BY <1>t DEF Released
<1>6. \A k \in TxIds : pending'[k] \subseteq pending[k] /\ (k <= u => pending'[k] = {})
  BY <1>1
<1>7. \A k \in TxIds : k > cur.txid => pending[k] = {}
  BY <1>1 DEF FreeSaved
<1>8. FreeApart'
  <2>1. ids' \subseteq 2 .. (cur.total - 1)
    BY <1>1, <1>5 DEF FreeApart
  <2>2. \A k \in TxIds : pending'[k] \subseteq 2 .. (cur.total - 1)
    BY <1>6 DEF FreeApart
  <2>3. \A k \in TxIds : ids' \cap pending'[k] = {}
    BY <1>1, <1>5, <1>6 DEF FreeApart
  <2>4. \A j, k \in TxIds : j # k => pending'[j] \cap pending'[k] = {}
    BY <1>6 DEF FreeApart
  <2>5. ASSUME NEW r \in AllRuns(cur)
        PROVE  /\ PagesOf(r) \cap ids' = {}
               /\ \A k \in TxIds : k <= cur.txid => PagesOf(r) \cap pending'[k] = {}
    <3>1. \A k \in TxIds : PagesOf(r) \cap pending[k] = {}
      BY <1>t, <1>7 DEF FreeApart
    <3> QED
      BY <1>1, <1>5, <1>6, <3>1 DEF FreeApart
  <2> QED
    BY <1>2, <2>1, <2>2, <2>3, <2>4, <2>5 DEF FreeApart
<1>9. FreeSaved'
  <2>1. ids \cup AllPending(pending) \subseteq ids' \cup AllPending(pending')
    <3>1. SUFFICES ASSUME NEW k \in TxIds, NEW p \in pending[k]
                   PROVE  p \in ids' \cup AllPending(pending')
      BY <1>1, <1>t DEF AllPending
    <3>2. CASE k <= u
      BY <1>1, <1>t, <3>2 DEF Released
    <3>3. CASE ~(k <= u)
      <4>1. p \in pending'[k] /\ DOMAIN pending' = TxIds
        BY <1>1, <3>3
      <4> QED
        BY <4>1 DEF AllPending
    <3> QED
      BY <3>2, <3>3
  <2>2. Persisted(file, cur) \subseteq ids' \cup AllPending(pending')
    BY <1>1, <2>1 DEF FreeSaved
  <2>3. \A k \in TxIds : k > cur.txid => pending'[k] = {}
    BY <1>6, <1>7
  <2> QED
    BY <1>1, <1>2, <2>2, <2>3 DEF FreeSaved
<1>10. /\ rwtx'.txid = cur.txid + 1 /\ rwtx'.total = cur.total
       /\ rwtx'.root = cur.root /\ rwtx'.kids = cur.kids
       /\ rwtx'.freelist = cur.freelist
       /\ AllRuns(rwtx') = AllRuns(cur) /\ TreeRuns(rwtx') = TreeRuns(cur)
  BY <1>1, <1>t DEF Meta, AllRuns, TreeRuns
<1>11. Building'
  <2>1. WellFormed(rwtx')
    BY <1>10 DEF Committed, WellFormed
  <2>2. ASSUME NEW r \in AllRuns(cur)
        PROVE  /\ PagesOf(r) \cap ids' = {}
               /\ \A k \in TxIds : PagesOf(r) \cap pending'[k] = {}
               /\ r.by # cur.txid + 1
    <3>1. \A k \in TxIds : k <= cur.txid \/ pending'[k] = {}
      BY <1>t, <1>6, <1>7
    <3>2. r \in Run /\ r.by \in Nat
      BY <1>t, MetaType, RunPages, DbAssumption DEF TxIds
    <3>3. r.by <= cur.txid
      BY DEF Committed
    <3>4. PagesOf(r) \cap ids' = {} /\ \A k \in TxIds : PagesOf(r) \cap pending'[k] = {}
      BY <1>2, <1>8, <3>1 DEF FreeApart
    <3> QED
      BY <1>t, <3>2, <3>3, <3>4
  <2>3. cur.total <= rwtx'.total
    BY <1>10, <1>t, MetaType
  <2> QED
    BY <1>2, <1>10, <2>1, <2>2, <2>3 DEF Building
<1>12. Spilling'
  BY <1>1, <1>2 DEF Spilling
<1>13. ReadersSafe'
  <2>1. open' = open /\ snap' = snap
    BY <1>1 DEF readers
  <2>2. ASSUME NEW t \in open, NEW s \in TreeRuns(snap[t])
        PROVE  /\ PagesOf(s) \cap ids' = {}
               /\ \A k \in TxIds : k <= snap[t].txid => PagesOf(s) \cap pending'[k] = {}
    <3>1. snap[t].txid \in Nat
      BY MetaType DEF TypeOK
    <3>2. \A k \in TxIds : k <= u => k <= snap[t].txid
      BY <1>3, <1>4, <1>t, <3>1
    <3> QED
      BY <1>1, <1>5, <1>6, <3>2 DEF ReadersSafe
  <2> QED
    BY <1>1, <1>2, <2>1, <2>2 DEF ReadersSafe
<1> QED
  BY <1>2, <1>8, <1>9, <1>11, <1>12, <1>13

\* A rollback takes back what the transaction took: the reloaded freelist is
\* a part of the one before, and nothing was pending for the transaction.
LEMMA RollbackKeeps == IInv /\ TypeOK' /\ (Rollback \/ UpdateFails) => IInv'
<1> SUFFICES ASSUME IInv, TypeOK', Rollback \/ UpdateFails PROVE IInv'
  OBVIOUS
<1> USE DEF IInv
<1>t. /\ cur \in Meta /\ pending \in [TxIds -> SUBSET Pages] /\ cur.txid \in Nat
      /\ rwtx.txid \in TxIds
  BY CurType, MetaType
<1>1. /\ pc = "fn" /\ pc' \in {"close", "leaked"} /\ acked' = acked
      /\ UNCHANGED store /\ UNCHANGED readers /\ RollbackFreelist /\ rwtx' = rwtx
      /\ file' = file /\ open' = open /\ snap' = snap
  BY DEF Rollback, UpdateFails, history, store, readers
<1>2. cur' = cur /\ dcur' = dcur /\ TwoMetas' /\ Committed'
  BY <1>1, StoreKept
<1>3. rwtx.txid = cur.txid + 1 /\ rwtx.freelist = cur.freelist
  <2>1. rwtx = [cur EXCEPT !.txid = @ + 1]
    BY <1>1 DEF Spilling
  <2> QED
    BY <1>t, <2>1 DEF Meta
<1>4. \A k \in TxIds : k > cur.txid => pending[k] = {}
  BY <1>1 DEF FreeSaved
<1>5. pending' = pending
  <2>1. pending[rwtx.txid] = {}
    BY <1>t, <1>3, <1>4
  <2> QED
    BY <1>1, <1>t, <2>1 DEF RollbackFreelist
<1>6. ids' = Persisted(file, cur) \ AllPending(pending)
  BY <1>1, <1>3, <1>5 DEF RollbackFreelist, Persisted
<1>7. ids' \subseteq ids
  BY <1>1, <1>6 DEF FreeSaved
<1>8. FreeApart'
  BY <1>2, <1>5, <1>7 DEF FreeApart
<1>9. FreeSaved'
  BY <1>1, <1>2, <1>4, <1>5, <1>6 DEF FreeSaved
<1>10. Building' /\ Spilling'
  BY <1>1 DEF Building, Spilling
<1>11. ReadersSafe'
  BY <1>1, <1>2, <1>5, <1>7 DEF ReadersSafe
<1> QED
  BY <1>2, <1>8, <1>9, <1>10, <1>11

\* Steps that change no page, no list and no reader.
LEMMA CloseTxKeeps == IInv /\ TypeOK' /\ CloseTx => IInv'
<1> SUFFICES ASSUME IInv, TypeOK', CloseTx PROVE IInv'
  OBVIOUS
<1> USE DEF IInv
<1>1. /\ pc = "close" /\ pc' = "idle" /\ acked' = acked
      /\ UNCHANGED store /\ file' = file /\ open' = open /\ snap' = snap
      /\ ids' = ids /\ pending' = pending
  BY DEF CloseTx, history, store, readers, freelist
<1>2. cur' = cur /\ dcur' = dcur /\ TwoMetas' /\ Committed'
  BY <1>1, StoreKept
<1>3. FreeApart' /\ FreeSaved'
  BY <1>1, <1>2 DEF FreeApart, FreeSaved
<1>4. Building' /\ Spilling'
  BY <1>1 DEF Building, Spilling
<1>5. ReadersSafe'
  BY <1>1, <1>2 DEF ReadersSafe
<1> QED
  BY <1>2, <1>3, <1>4, <1>5

---------------------------------------------------------------------------
(* Readers.                                                                *)

\* A reader that begins has the committed version, which is nobody's to
\* write.
LEMMA BeginTxKeeps ==
  ASSUME IInv, TypeOK', NEW r \in Readers, BeginTx(r)
  PROVE  IInv'
<1> USE DEF IInv
<1>1. /\ pc' = pc /\ rwtx' = rwtx /\ acked' = acked /\ UNCHANGED store
      /\ file' = file /\ ids' = ids /\ pending' = pending /\ todo' = todo
      /\ rootT' = rootT /\ open' = open \cup {r}
      /\ snap' = [snap EXCEPT ![r] = cur]
  BY DEF BeginTx, InitTx, cur, history, store, freelist, writer
<1>2. cur' = cur /\ dcur' = dcur /\ TwoMetas' /\ Committed'
  BY <1>1, StoreKept
<1>3. FreeApart' /\ FreeSaved'
  BY <1>1, <1>2 DEF FreeApart, FreeSaved
<1>4. Spilling'
  BY <1>1, <1>2 DEF Spilling
<1>5. /\ snap'[r] = cur /\ \A t \in open : t # r => snap'[t] = snap[t]
      /\ r \notin open
  BY <1>1 DEF TypeOK, BeginTx
<1>6. cur \in Meta /\ cur.txid \in Nat /\ TreeRuns(cur) \subseteq AllRuns(cur)
  BY CurType, MetaType
<1>7. Building'
  <2>1. SUFFICES ASSUME pc \in {"fn", "spill", "write", "sync", "meta"},
                        NEW q \in AllRuns(rwtx), q.by = rwtx.txid,
                        NEW t \in open', NEW s \in TreeRuns(snap'[t])
                 PROVE  PagesOf(q) \cap PagesOf(s) = {}
    BY <1>1, <1>2 DEF Building
  <2>2. CASE t = r
    BY <1>5, <1>6, <2>1, <2>2 DEF Building
  <2>3. CASE t # r
    BY <1>1, <1>5, <2>1, <2>3 DEF Building
  <2> QED
    BY <2>2, <2>3
<1>8. ReadersSafe'
  <2>1. ASSUME NEW t \in open', t # r
        PROVE  t \in open /\ snap'[t] = snap[t]
    BY <1>1, <1>5, <2>1
  <2>2. /\ cur.txid <= cur.txid
        /\ Intact(file, cur)
        /\ \A s \in TreeRuns(cur) :
             /\ PagesOf(s) \subseteq 2 .. (cur.total - 1)
             /\ PagesOf(s) \cap ids = {}
             /\ \A k \in TxIds : k <= cur.txid => PagesOf(s) \cap pending[k] = {}
    BY <1>6 DEF Committed, Readable, Intact, WellFormed, FreeApart
  <2> QED
    BY <1>1, <1>2, <1>5, <2>1, <2>2 DEF ReadersSafe
<1> QED
  BY <1>2, <1>3, <1>4, <1>7, <1>8

\* A reader that ends only makes room.
LEMMA EndTxKeeps ==
  ASSUME IInv, TypeOK', NEW r \in Readers, UnlockMmap(r) \/ RemoveTx(r)
  PROVE  IInv'
<1> USE DEF IInv
<1>1. /\ pc' = pc /\ rwtx' = rwtx /\ acked' = acked /\ UNCHANGED store
      /\ file' = file /\ ids' = ids /\ pending' = pending /\ todo' = todo
      /\ rootT' = rootT /\ open' \subseteq open
      /\ \A t \in open' : snap'[t] = snap[t]
  BY DEF UnlockMmap, RemoveTx, history, store, freelist, writer, TypeOK
<1>2. cur' = cur /\ dcur' = dcur /\ TwoMetas' /\ Committed'
  BY <1>1, StoreKept
<1>3. FreeApart' /\ FreeSaved'
  BY <1>1, <1>2 DEF FreeApart, FreeSaved
<1>4. Spilling'
  BY <1>1, <1>2 DEF Spilling
<1>5. Building'
  BY <1>1, <1>2 DEF Building
<1>6. ReadersSafe'
  BY <1>1, <1>2 DEF ReadersSafe
<1> QED
  BY <1>2, <1>3, <1>4, <1>5, <1>6

---------------------------------------------------------------------------
(* The commit, up to its writes.                                           *)

\* What fn touched is still the committed version's when the spill starts.
LEMMA CommitKeeps ==
  ASSUME IInv, TypeOK', NEW T \in SUBSET rwtx.kids, NEW n, NEW b, Commit(T, n, b)
  PROVE  IInv'
<1> USE DEF IInv
<1>t. cur \in Meta /\ cur.txid \in Nat /\ \A k \in TxIds : k \in Nat
  BY CurType, MetaType, DbAssumption DEF TxIds
<1>1. /\ pc = "fn" /\ pc' = "spill" /\ rwtx' = rwtx /\ acked' = acked
      /\ UNCHANGED store /\ file' = file /\ ids' = ids /\ pending' = pending
      /\ todo' = T /\ open' = open /\ snap' = snap
  BY DEF Commit, history, store, freelist, readers
<1>2. cur' = cur /\ dcur' = dcur /\ TwoMetas' /\ Committed'
  BY <1>1, StoreKept
<1>3. rwtx.kids = cur.kids /\ rwtx.root = cur.root /\ rwtx.freelist = cur.freelist
  <2>1. rwtx = [cur EXCEPT !.txid = @ + 1]
    BY <1>1 DEF Spilling
  <2> QED
    BY <1>t, <2>1 DEF Meta
<1>4. FreeApart'
  BY <1>1, <1>2 DEF FreeApart
<1>5. FreeSaved'
  <2>1. \A k \in TxIds : k > cur.txid + 1 => pending[k] = {}
    BY <1>1, <1>t DEF FreeSaved
  <2> QED
    BY <1>1, <1>2, <2>1 DEF FreeSaved
<1>6. Building'
  BY <1>1, <1>2 DEF Building
<1>7. Spilling'
  BY <1>1, <1>2, <1>3 DEF Spilling
<1>8. ReadersSafe'
  BY <1>1, <1>2 DEF ReadersSafe
<1> QED
  BY <1>2, <1>4, <1>5, <1>6, <1>7, <1>8

\* One allocation and one free of a commit: the pages F of a run that the
\* committed version and the new one shared become pending, the pages N of
\* the new run nr come from the freelist or from past the end of the file.
Rebuilds(F, N, nr) ==
  /\ pc = "spill" /\ pc' \in {"spill", "write"}
  /\ UNCHANGED store /\ UNCHANGED readers /\ acked' = acked
  /\ F = {} \/ \E o \in AllRuns(rwtx) \cap AllRuns(cur) : F = PagesOf(o)
  /\ N \subseteq ids \/ N \subseteq rwtx.total .. (rwtx'.total - 1)
  /\ ids' = ids \ N
  /\ \A k \in TxIds : pending'[k] = IF k = rwtx.txid THEN pending[k] \cup F
                                                     ELSE pending[k]
  /\ rwtx'.txid = rwtx.txid /\ rwtx.total <= rwtx'.total
  /\ rwtx'.root \notin rwtx'.kids /\ rwtx'.freelist \notin TreeRuns(rwtx')
  /\ \A r \in AllRuns(rwtx') :
       \/ r \in AllRuns(rwtx) /\ PagesOf(r) \cap F = {}
       \/ r = nr /\ PagesOf(r) = N /\ r.by = rwtx.txid

\* Such a step keeps everybody's pages apart.
LEMMA BuildStep ==
  ASSUME IInv, TypeOK', NEW F, NEW N, NEW nr, Rebuilds(F, N, nr)
  PROVE  /\ cur' = cur /\ dcur' = dcur /\ TwoMetas' /\ Committed'
         /\ FreeApart' /\ FreeSaved' /\ Building' /\ ReadersSafe'
<1> USE DEF IInv, Rebuilds
<1> DEFINE w == rwtx.txid
<1>t. /\ cur \in Meta /\ cur.txid \in Nat /\ cur.total \in Nat
      /\ w \in Nat /\ rwtx.total \in Nat /\ rwtx'.total \in Nat
      /\ \A k \in TxIds : k \in Nat
  <2>1. cur \in Meta /\ rwtx \in Meta /\ rwtx' \in Meta
    BY CurType DEF TypeOK
  <2>2. \A k \in TxIds : k \in Nat
    BY DbAssumption DEF TxIds
  <2> QED
    BY <2>1, <2>2, MetaType
<1>1. cur' = cur /\ dcur' = dcur /\ TwoMetas' /\ Committed'
  BY StoreKept
<1>2. file' = file /\ open' = open /\ snap' = snap
  BY DEF store, readers
<1>3. w = cur.txid + 1 /\ cur.total <= rwtx.total /\ WellFormed(rwtx) /\ WellFormed(cur)
  BY DEF Building, Committed
<1>p. ASSUME NEW k \in TxIds, k <= cur.txid
      PROVE  pending'[k] = pending[k]
  <2>1. k # rwtx.txid
    BY <1>3, <1>t, <1>p
  <2>2. pending'[k] = IF k = rwtx.txid THEN pending[k] \cup F ELSE pending[k]
    OBVIOUS
  <2> QED
    BY <2>1, <2>2, Zenon
<1>4. /\ F \subseteq 2 .. (cur.total - 1) /\ F \cap ids = {}
      /\ \A k \in TxIds : F \cap pending[k] = {}
  <2>1. CASE F = {}
    BY <2>1
  <2>2. ASSUME NEW o \in AllRuns(rwtx), o \in AllRuns(cur), F = PagesOf(o)
        PROVE  <1>4
    <3>1. F \subseteq 2 .. (cur.total - 1)
      BY <1>3, <2>2 DEF WellFormed
    <3>2. F \cap ids = {} /\ \A k \in TxIds : F \cap pending[k] = {}
      BY <2>2 DEF Building
    <3> QED
      BY <3>1, <3>2
  <2> QED
    BY <2>1, <2>2
<1>5. ASSUME NEW S, S \cap ids = {}, S \subseteq 2 .. (rwtx.total - 1)
      PROVE  S \cap N = {}
  <2>1. CASE N \subseteq ids
    BY <1>5, <2>1
  <2>2. CASE N \subseteq rwtx.total .. (rwtx'.total - 1)
    BY <1>5, <1>t, <2>2
  <2> QED
    BY <2>1, <2>2
<1>6. \A x \in 2 .. (cur.total - 1) : x \in 2 .. (rwtx.total - 1)
  BY <1>t, <1>3
<1>7. /\ \A r \in AllRuns(rwtx) : PagesOf(r) \cap N = {}
      /\ \A r \in AllRuns(cur) : PagesOf(r) \cap N = {}
      /\ \A t \in open : \A s \in TreeRuns(snap[t]) : PagesOf(s) \cap N = {}
      /\ \A k \in TxIds : pending[k] \cap N = {}
      /\ F \cap N = {}
  <2>1. ASSUME NEW r \in AllRuns(rwtx) PROVE PagesOf(r) \cap N = {}
    <3>1. PagesOf(r) \cap ids = {}
      BY DEF Building
    <3> QED
      BY <1>3, <1>5, <3>1 DEF WellFormed
  <2>2. ASSUME NEW r \in AllRuns(cur) PROVE PagesOf(r) \cap N = {}
    <3>1. PagesOf(r) \cap ids = {} /\ PagesOf(r) \subseteq 2 .. (cur.total - 1)
      BY <1>3 DEF FreeApart, WellFormed
    <3> QED
      BY <1>5, <1>6, <3>1
  <2>3. ASSUME NEW t \in open, NEW s \in TreeRuns(snap[t]) PROVE PagesOf(s) \cap N = {}
    <3>1. PagesOf(s) \cap ids = {} /\ PagesOf(s) \subseteq 2 .. (cur.total - 1)
      BY DEF ReadersSafe
    <3> QED
      BY <1>5, <1>6, <3>1
  <2>4. ASSUME NEW k \in TxIds PROVE pending[k] \cap N = {}
    <3>1. pending[k] \cap ids = {} /\ pending[k] \subseteq 2 .. (cur.total - 1)
      BY DEF FreeApart
    <3> QED
      BY <1>5, <1>6, <3>1
  <2>5. F \cap N = {}
    BY <1>4, <1>5, <1>6
  <2> QED
    BY <2>1, <2>2, <2>3, <2>4, <2>5
<1>8. FreeApart'
  <2>1. ids' \subseteq 2 .. (cur.total - 1)
    BY DEF FreeApart
  <2>2. \A k \in TxIds : pending'[k] \subseteq 2 .. (cur.total - 1)
    BY <1>4 DEF FreeApart
  <2>3. \A k \in TxIds : ids' \cap pending'[k] = {}
    BY <1>4 DEF FreeApart
  <2>4. \A j, k \in TxIds : j # k => pending'[j] \cap pending'[k] = {}
    BY <1>4 DEF FreeApart
  <2>5. \A k \in TxIds : k <= cur.txid => pending'[k] = pending[k]
    BY <1>p
  <2>6. \A r \in AllRuns(cur) :
          /\ PagesOf(r) \cap ids' = {}
          /\ \A k \in TxIds : k <= cur.txid => PagesOf(r) \cap pending'[k] = {}
    BY <2>5 DEF FreeApart
  <2> QED
    BY <1>1, <2>1, <2>2, <2>3, <2>4, <2>6 DEF FreeApart
<1>9. FreeSaved'
  <2>1. \A k \in TxIds : k > cur.txid + 1 => pending'[k] = {}
    BY <1>3, <1>t DEF FreeSaved
  <2> QED
    BY <1>1, <2>1 DEF FreeSaved
<1>10. ReadersSafe'
  <2>1. ASSUME NEW t \in open, NEW k \in TxIds, k <= snap[t].txid
        PROVE  pending'[k] = pending[k]
    <3>1. snap[t].txid \in Nat /\ snap[t].txid <= cur.txid
      BY MetaType DEF TypeOK, ReadersSafe
    <3>2. k <= cur.txid
      BY <1>t, <2>1, <3>1
    <3> QED
      BY <1>p, <3>2
  <2> QED
    BY <1>1, <1>2, <2>1 DEF ReadersSafe
<1>11. Building'
  <2>1. WellFormed(rwtx')
    <3>1. ASSUME NEW r \in AllRuns(rwtx')
          PROVE  r.n >= 1 /\ PagesOf(r) \subseteq 2 .. (rwtx'.total - 1)
      <4>0. r \in Run /\ r.n >= 1
        <5>1. r \in Run
          BY MetaType DEF TypeOK
        <5> QED
          BY <5>1 DEF Run
      <4>1. CASE r \in AllRuns(rwtx)
        BY <1>3, <1>t, <4>0, <4>1 DEF WellFormed
      <4>2. CASE PagesOf(r) = N
        <5>1. N \subseteq 2 .. (rwtx'.total - 1)
          <6>1. CASE N \subseteq ids
            BY <1>t, <1>3, <6>1 DEF FreeApart
          <6>2. CASE N \subseteq rwtx.total .. (rwtx'.total - 1)
            <7>1. rwtx.total >= 2
              BY <1>t DEF TypeOK, Meta
            <7> QED
              BY <1>t, <6>2, <7>1
          <6> QED
            BY <6>1, <6>2
        <5> QED
          BY <4>0, <4>2, <5>1
      <4> QED
        BY <4>1, <4>2
    <3>2. ASSUME NEW r \in AllRuns(rwtx'), NEW s \in AllRuns(rwtx'), r # s
          PROVE  PagesOf(r) \cap PagesOf(s) = {}
      <4>1. CASE r \in AllRuns(rwtx) /\ s \in AllRuns(rwtx)
        BY <1>3, <3>2, <4>1 DEF WellFormed
      <4>2. CASE r \in AllRuns(rwtx) /\ PagesOf(s) = N
        BY <1>7, <4>2
      <4>3. CASE PagesOf(r) = N /\ s \in AllRuns(rwtx)
        BY <1>7, <4>3
      <4> QED
        BY <3>2, <4>1, <4>2, <4>3
    <3> QED
      BY <3>1, <3>2 DEF WellFormed
  <2>2. ASSUME NEW r \in AllRuns(rwtx')
        PROVE  /\ PagesOf(r) \cap ids' = {}
               /\ \A k \in TxIds : PagesOf(r) \cap pending'[k] = {}
               /\ r.by = w =>
                    /\ \A s \in AllRuns(cur) : PagesOf(r) \cap PagesOf(s) = {}
                    /\ \A t \in open : \A s \in TreeRuns(snap[t]) :
                         PagesOf(r) \cap PagesOf(s) = {}
               /\ r.by # w => r \in AllRuns(cur)
    <3>1. CASE r \in AllRuns(rwtx) /\ PagesOf(r) \cap F = {}
      BY <3>1 DEF Building
    <3>2. CASE PagesOf(r) = N /\ r.by = w
      <4>1. \A k \in TxIds : N \cap pending'[k] = {}
        BY <1>7
      <4> QED
        BY <1>7, <3>2, <4>1
    <3> QED
      BY <3>1, <3>2
  <2>3. rwtx'.txid = cur.txid + 1 /\ cur.total <= rwtx'.total
    BY <1>3, <1>t
  <2> QED
    BY <1>1, <1>2, <2>1, <2>2, <2>3 DEF Building
<1> QED
  BY <1>1, <1>8, <1>9, <1>10, <1>11

\* What DB::allocate hands out is no run the transaction has already.
LEMMA NewRunIsNew ==
  ASSUME IInv, pc = "spill", NEW n \in Nat \ {0}, Take(n)
  PROVE  /\ NewRun(n) \notin AllRuns(rwtx)
         /\ NewRun(n).by = rwtx.txid
         /\ rwtx.total <= TotalAfter(n)
         /\ ids' = ids \ PagesOf(NewRun(n))
         /\ \/ PagesOf(NewRun(n)) \subseteq ids
            \/ PagesOf(NewRun(n)) \subseteq rwtx.total .. (TotalAfter(n) - 1)
<1> USE DEF IInv
<1> DEFINE nr == NewRun(n)
<1>1. /\ nr \in Run /\ nr.by = rwtx.txid /\ rwtx.total <= TotalAfter(n)
      /\ ids' = ids \ PagesOf(nr) /\ TotalAfter(n) \in Nat /\ rwtx.total \in Nat
      /\ \/ PagesOf(nr) \subseteq ids
         \/ PagesOf(nr) \subseteq rwtx.total .. (TotalAfter(n) - 1)
  BY AllocateFacts, CurType, MetaType, DbAssumption
<1>2. nr.first \in PagesOf(nr)
  BY <1>1, RunPages
<1> HIDE DEF nr
<1>3. ASSUME nr \in AllRuns(rwtx) PROVE FALSE
  <2>1. PagesOf(nr) \cap ids = {} /\ PagesOf(nr) \subseteq 2 .. (rwtx.total - 1)
    BY <1>3 DEF Building, WellFormed
  <2> QED
    BY <1>1, <1>2, <2>1
<1> QED
  BY <1>1, <1>3 DEF nr

\* Node::spill of a sub-bucket: the run it leaves becomes pending, the run it
\* takes was nobody's.
LEMMA SpillKidKeeps ==
  ASSUME IInv, TypeOK', NEW k \in todo, NEW n \in RunSizes, SpillKid(k, n)
  PROVE  IInv'
<1> USE DEF IInv
<1> DEFINE nr == NewRun(n)
<1>1. /\ pc = "spill" /\ pc' = "spill" /\ acked' = acked /\ UNCHANGED store
      /\ UNCHANGED readers /\ Take(n) /\ n \in Nat \ {0}
      /\ pending' = Freed(k) /\ todo' = todo \ {k} /\ rootT' = rootT
      /\ rwtx' = [rwtx EXCEPT !.kids = (@ \ {k}) \cup {nr}, !.total = TotalAfter(n)]
  BY DbAssumption DEF SpillKid, history
<1>2. /\ rwtx'.txid = rwtx.txid /\ rwtx'.root = rwtx.root
      /\ rwtx'.freelist = rwtx.freelist /\ rwtx'.total = TotalAfter(n)
      /\ rwtx'.kids = (rwtx.kids \ {k}) \cup {nr}
  BY <1>1 DEF TypeOK, Meta
<1>3. /\ nr \notin AllRuns(rwtx) /\ nr.by = rwtx.txid /\ rwtx.total <= TotalAfter(n)
      /\ ids' = ids \ PagesOf(nr)
      /\ \/ PagesOf(nr) \subseteq ids
         \/ PagesOf(nr) \subseteq rwtx.total .. (TotalAfter(n) - 1)
  BY <1>1, NewRunIsNew
<1> HIDE DEF nr
<1>4. \A j \in TxIds : pending'[j] = IF j = rwtx.txid THEN pending[j] \cup PagesOf(k)
                                                      ELSE pending[j]
  BY <1>1 DEF Freed, TypeOK
<1>5. k \in rwtx.kids /\ k \in cur.kids /\ todo \subseteq rwtx.kids \cap cur.kids
  BY <1>1 DEF Spilling
<1>6. WellFormed(rwtx)
  BY <1>1 DEF Building
<1>7. k \in AllRuns(rwtx) \cap AllRuns(cur)
  BY <1>5 DEF AllRuns, TreeRuns
<1>8. ASSUME NEW r \in AllRuns(rwtx')
      PROVE  \/ r \in AllRuns(rwtx) /\ PagesOf(r) \cap PagesOf(k) = {}
             \/ r = nr /\ PagesOf(r) = PagesOf(nr) /\ r.by = rwtx.txid
  <2>1. r = nr \/ (r \in AllRuns(rwtx) /\ r # k)
    BY <1>2, <1>5, <1>6 DEF AllRuns, TreeRuns, WellFormed
  <2> QED
    BY <1>3, <1>6, <1>7, <2>1 DEF WellFormed
<1>9. rwtx'.root \notin rwtx'.kids /\ rwtx'.freelist \notin TreeRuns(rwtx')
  BY <1>2, <1>3, <1>6 DEF AllRuns, TreeRuns, WellFormed
<1>10. /\ cur' = cur /\ dcur' = dcur /\ TwoMetas' /\ Committed'
       /\ FreeApart' /\ FreeSaved' /\ Building' /\ ReadersSafe'
  <2>1. Rebuilds(PagesOf(k), PagesOf(nr), nr)
    BY <1>1, <1>2, <1>3, <1>4, <1>7, <1>8, <1>9 DEF Rebuilds
  <2> HIDE DEF IInv
  <2> QED
    BY <2>1, BuildStep
<1>11. Spilling'
  <2>1. todo' \subseteq rwtx'.kids \cap cur.kids /\ (rootT' => rwtx'.root = cur.root)
        /\ rwtx'.freelist = cur.freelist
    BY <1>1, <1>2, <1>5 DEF Spilling
  <2> QED
    BY <1>1, <1>10, <2>1 DEF Spilling
<1> QED
  BY <1>10, <1>11

\* Bucket::free of a sub-bucket that goes inline: its run becomes pending.
LEMMA InlineKidKeeps ==
  ASSUME IInv, TypeOK', NEW k \in todo, InlineKid(k)
  PROVE  IInv'
<1> USE DEF IInv
<1>1. /\ pc = "spill" /\ pc' = "spill" /\ acked' = acked /\ UNCHANGED store
      /\ UNCHANGED readers /\ ids' = ids /\ pending' = Freed(k)
      /\ todo' = todo \ {k} /\ rootT' = rootT
      /\ rwtx' = [rwtx EXCEPT !.kids = @ \ {k}]
  BY DEF InlineKid, history
<1>2. /\ rwtx'.txid = rwtx.txid /\ rwtx'.root = rwtx.root
      /\ rwtx'.freelist = rwtx.freelist /\ rwtx'.total = rwtx.total
      /\ rwtx'.kids = rwtx.kids \ {k} /\ rwtx.total \in Nat
  BY <1>1, DbAssumption DEF TypeOK, Meta
<1>4. \A j \in TxIds : pending'[j] = IF j = rwtx.txid THEN pending[j] \cup PagesOf(k)
                                                      ELSE pending[j]
  BY <1>1 DEF Freed, TypeOK
<1>5. k \in rwtx.kids /\ k \in cur.kids /\ todo \subseteq rwtx.kids \cap cur.kids
  BY <1>1 DEF Spilling
<1>6. WellFormed(rwtx)
  BY <1>1 DEF Building
<1>7. k \in AllRuns(rwtx) \cap AllRuns(cur)
  BY <1>5 DEF AllRuns, TreeRuns
<1>8. ASSUME NEW r \in AllRuns(rwtx')
      PROVE  r \in AllRuns(rwtx) /\ PagesOf(r) \cap PagesOf(k) = {}
  <2>1. r \in AllRuns(rwtx) /\ r # k
    BY <1>2, <1>5, <1>6 DEF AllRuns, TreeRuns, WellFormed
  <2> QED
    BY <1>6, <1>7, <2>1 DEF WellFormed
<1>9. rwtx'.root \notin rwtx'.kids /\ rwtx'.freelist \notin TreeRuns(rwtx')
  BY <1>2, <1>6 DEF TreeRuns, WellFormed
<1>10. /\ cur' = cur /\ dcur' = dcur /\ TwoMetas' /\ Committed'
       /\ FreeApart' /\ FreeSaved' /\ Building' /\ ReadersSafe'
  <2>1. Rebuilds(PagesOf(k), {}, k)
    BY <1>1, <1>2, <1>4, <1>7, <1>8, <1>9 DEF Rebuilds
  <2> HIDE DEF IInv
  <2> QED
    BY <2>1, BuildStep
<1>11. Spilling'
  <2>1. todo' \subseteq rwtx'.kids \cap cur.kids /\ (rootT' => rwtx'.root = cur.root)
        /\ rwtx'.freelist = cur.freelist
    BY <1>1, <1>2, <1>5 DEF Spilling
  <2> QED
    BY <1>1, <1>10, <2>1 DEF Spilling
<1> QED
  BY <1>10, <1>11

\* A writer that follows a stale page pointer stops; nothing else changes.
LEMMA InlineKidStaleKeeps ==
  ASSUME IInv, TypeOK', NEW k \in todo, InlineKidStale(k)
  PROVE  IInv'
<1> USE DEF IInv
<1>1. /\ pc = "spill" /\ pc' = "stale" /\ acked' = acked /\ UNCHANGED store
      /\ file' = file /\ open' = open /\ snap' = snap /\ ids' = ids
      /\ pending' = pending
  BY DEF InlineKidStale, history, store, readers, freelist
<1>2. cur' = cur /\ dcur' = dcur /\ TwoMetas' /\ Committed'
  BY <1>1, StoreKept
<1>3. FreeApart' /\ FreeSaved'
  BY <1>1, <1>2 DEF FreeApart, FreeSaved
<1>4. Building' /\ Spilling'
  BY <1>1 DEF Building, Spilling
<1>5. ReadersSafe'
  BY <1>1, <1>2 DEF ReadersSafe
<1> QED
  BY <1>2, <1>3, <1>4, <1>5

\* Node::spill of a new bucket: nothing is freed, the run it takes was
\* nobody's.
LEMMA SpillNewKeeps ==
  ASSUME IInv, TypeOK', NEW n \in RunSizes, SpillNew(n)
  PROVE  IInv'
<1> USE DEF IInv
<1> DEFINE nr == NewRun(n)
<1>1. /\ pc = "spill" /\ pc' = "spill" /\ acked' = acked /\ UNCHANGED store
      /\ UNCHANGED readers /\ Take(n) /\ n \in Nat \ {0}
      /\ pending' = pending /\ todo' = todo /\ rootT' = rootT
      /\ rwtx' = [rwtx EXCEPT !.kids = @ \cup {nr}, !.total = TotalAfter(n)]
  BY DbAssumption DEF SpillNew, history
<1>2. /\ rwtx'.txid = rwtx.txid /\ rwtx'.root = rwtx.root
      /\ rwtx'.freelist = rwtx.freelist /\ rwtx'.total = TotalAfter(n)
      /\ rwtx'.kids = rwtx.kids \cup {nr}
  BY <1>1 DEF TypeOK, Meta
<1>3. /\ nr \notin AllRuns(rwtx) /\ nr.by = rwtx.txid /\ rwtx.total <= TotalAfter(n)
      /\ ids' = ids \ PagesOf(nr)
      /\ \/ PagesOf(nr) \subseteq ids
         \/ PagesOf(nr) \subseteq rwtx.total .. (TotalAfter(n) - 1)
  BY <1>1, NewRunIsNew
<1> HIDE DEF nr
<1>6. WellFormed(rwtx)
  BY <1>1 DEF Building
<1>8. ASSUME NEW r \in AllRuns(rwtx')
      PROVE  \/ r \in AllRuns(rwtx)
             \/ r = nr /\ PagesOf(r) = PagesOf(nr) /\ r.by = rwtx.txid
  BY <1>2, <1>3 DEF AllRuns, TreeRuns
<1>9. rwtx'.root \notin rwtx'.kids /\ rwtx'.freelist \notin TreeRuns(rwtx')
  BY <1>2, <1>3, <1>6 DEF AllRuns, TreeRuns, WellFormed
<1>10. /\ cur' = cur /\ dcur' = dcur /\ TwoMetas' /\ Committed'
       /\ FreeApart' /\ FreeSaved' /\ Building' /\ ReadersSafe'
  <2>1. Rebuilds({}, PagesOf(nr), nr)
    BY <1>1, <1>2, <1>3, <1>8, <1>9 DEF Rebuilds
  <2> HIDE DEF IInv
  <2> QED
    BY <2>1, BuildStep
<1>11. Spilling'
  <2>1. todo' \subseteq rwtx'.kids \cap cur.kids /\ (rootT' => rwtx'.root = cur.root)
        /\ rwtx'.freelist = cur.freelist
    BY <1>1, <1>2 DEF Spilling
  <2> QED
    BY <1>1, <1>10, <2>1 DEF Spilling
<1> QED
  BY <1>10, <1>11

\* Node::spill of the root bucket: its run becomes pending, the run it takes
\* was nobody's.
LEMMA SpillRootKeeps ==
  ASSUME IInv, TypeOK', NEW n \in RunSizes, SpillRoot(n)
  PROVE  IInv'
<1> USE DEF IInv
<1> DEFINE nr == NewRun(n)
           old == rwtx.root
<1>1. /\ pc = "spill" /\ pc' = "spill" /\ acked' = acked /\ UNCHANGED store
      /\ UNCHANGED readers /\ Take(n) /\ n \in Nat \ {0} /\ todo = {}
      /\ pending' = Freed(old) /\ todo' = todo /\ rootT /\ rootT' = FALSE
      /\ rwtx' = [rwtx EXCEPT !.root = nr, !.total = TotalAfter(n)]
  BY DbAssumption DEF SpillRoot, history
<1>2. /\ rwtx'.txid = rwtx.txid /\ rwtx'.root = nr /\ rwtx'.kids = rwtx.kids
      /\ rwtx'.freelist = rwtx.freelist /\ rwtx'.total = TotalAfter(n)
  BY <1>1 DEF TypeOK, Meta
<1>3. /\ nr \notin AllRuns(rwtx) /\ nr.by = rwtx.txid /\ rwtx.total <= TotalAfter(n)
      /\ ids' = ids \ PagesOf(nr)
      /\ \/ PagesOf(nr) \subseteq ids
         \/ PagesOf(nr) \subseteq rwtx.total .. (TotalAfter(n) - 1)
  BY <1>1, NewRunIsNew
<1>4. \A j \in TxIds : pending'[j] = IF j = rwtx.txid THEN pending[j] \cup PagesOf(old)
                                                      ELSE pending[j]
  BY <1>1 DEF Freed, TypeOK
<1>6. WellFormed(rwtx)
  BY <1>1 DEF Building
<1>7. old \in AllRuns(rwtx) \cap AllRuns(cur)
  BY <1>1 DEF Spilling, AllRuns, TreeRuns
<1> HIDE DEF nr
<1>8. ASSUME NEW r \in AllRuns(rwtx')
      PROVE  \/ r \in AllRuns(rwtx) /\ PagesOf(r) \cap PagesOf(old) = {}
             \/ r = nr /\ PagesOf(r) = PagesOf(nr) /\ r.by = rwtx.txid
  <2>1. r = nr \/ (r \in AllRuns(rwtx) /\ r # old)
    BY <1>2, <1>6 DEF AllRuns, TreeRuns, WellFormed
  <2> QED
    BY <1>3, <1>6, <1>7, <2>1 DEF WellFormed
<1>9. rwtx'.root \notin rwtx'.kids /\ rwtx'.freelist \notin TreeRuns(rwtx')
  BY <1>2, <1>3, <1>6 DEF AllRuns, TreeRuns, WellFormed
<1>10. /\ cur' = cur /\ dcur' = dcur /\ TwoMetas' /\ Committed'
       /\ FreeApart' /\ FreeSaved' /\ Building' /\ ReadersSafe'
  <2>1. Rebuilds(PagesOf(old), PagesOf(nr), nr)
    BY <1>1, <1>2, <1>3, <1>4, <1>7, <1>8, <1>9 DEF Rebuilds
  <2> HIDE DEF IInv
  <2> QED
    BY <2>1, BuildStep
<1>11. Spilling'
  <2>1. todo' \subseteq rwtx'.kids \cap cur.kids /\ rwtx'.freelist = cur.freelist
    BY <1>1, <1>2 DEF Spilling
  <2> QED
    BY <1>1, <1>10, <2>1 DEF Spilling
<1> QED
  BY <1>10, <1>11

\* Tx::commit frees the old freelist's run before it takes a new one, so the
\* new run cannot be the old one.
LEMMA CommitFreelistKeeps == IInv /\ TypeOK' /\ CommitFreelist => IInv'
<1> SUFFICES ASSUME IInv, TypeOK', CommitFreelist PROVE IInv'
  OBVIOUS
<1> USE DEF IInv
<1> DEFINE n == SerialPages(Cardinality(ids \cup AllPending(Freed(rwtx.freelist))))
           nr == NewRun(n)
           old == rwtx.freelist
<1>1. /\ pc = "spill" /\ pc' = "write" /\ acked' = acked /\ UNCHANGED store
      /\ UNCHANGED readers /\ Take(n) /\ pending' = Freed(old)
      /\ rwtx' = [rwtx EXCEPT !.freelist = nr, !.total = TotalAfter(n)]
  BY DEF CommitFreelist, history
<1>n. n \in Nat \ {0}
  <2>1. rwtx.freelist \in Run /\ ids \subseteq Pages
    BY DEF TypeOK, Meta
  <2>2. Freed(rwtx.freelist) \in [TxIds -> SUBSET Pages]
    BY <2>1, FreedType
  <2>3. ids \cup AllPending(Freed(rwtx.freelist)) \in SUBSET Pages
    BY <2>1, <2>2, PendingType
  <2> QED
    BY <2>3, SerialPagesPositive
<1> HIDE DEF n
<1>2. /\ rwtx'.txid = rwtx.txid /\ rwtx'.root = rwtx.root /\ rwtx'.kids = rwtx.kids
      /\ rwtx'.freelist = nr /\ rwtx'.total = TotalAfter(n)
  BY <1>1 DEF TypeOK, Meta
<1>3. /\ nr \notin AllRuns(rwtx) /\ nr.by = rwtx.txid /\ rwtx.total <= TotalAfter(n)
      /\ ids' = ids \ PagesOf(nr)
      /\ \/ PagesOf(nr) \subseteq ids
         \/ PagesOf(nr) \subseteq rwtx.total .. (TotalAfter(n) - 1)
  BY <1>1, <1>n, NewRunIsNew
<1>4. \A j \in TxIds : pending'[j] = IF j = rwtx.txid THEN pending[j] \cup PagesOf(old)
                                                      ELSE pending[j]
  BY <1>1 DEF Freed, TypeOK
<1>6. WellFormed(rwtx)
  BY <1>1 DEF Building
<1>7. old \in AllRuns(rwtx) \cap AllRuns(cur)
  BY <1>1 DEF Spilling, AllRuns
<1> HIDE DEF nr
<1>8. ASSUME NEW r \in AllRuns(rwtx')
      PROVE  \/ r \in AllRuns(rwtx) /\ PagesOf(r) \cap PagesOf(old) = {}
             \/ r = nr /\ PagesOf(r) = PagesOf(nr) /\ r.by = rwtx.txid
  <2>1. r = nr \/ (r \in AllRuns(rwtx) /\ r # old)
    BY <1>2, <1>6 DEF AllRuns, TreeRuns, WellFormed
  <2> QED
    BY <1>3, <1>6, <1>7, <2>1 DEF WellFormed
<1>9. rwtx'.root \notin rwtx'.kids /\ rwtx'.freelist \notin TreeRuns(rwtx')
  BY <1>2, <1>3, <1>6 DEF AllRuns, TreeRuns, WellFormed
<1>10. /\ cur' = cur /\ dcur' = dcur /\ TwoMetas' /\ Committed'
       /\ FreeApart' /\ FreeSaved' /\ Building' /\ ReadersSafe'
  <2>1. Rebuilds(PagesOf(old), PagesOf(nr), nr)
    BY <1>1, <1>2, <1>3, <1>4, <1>7, <1>8, <1>9 DEF Rebuilds
  <2> HIDE DEF IInv
  <2> QED
    BY <2>1, BuildStep
<1>11. Spilling'
  BY <1>1, <1>2, <1>3, <1>10 DEF Spilling
<1> QED
  BY <1>10, <1>11

---------------------------------------------------------------------------
(* The commit's writes.                                                    *)

\* Tx::write changes only fresh pages, and those are nobody else's.
LEMMA WriteKeeps == IInv /\ TypeOK' /\ Write => IInv'
<1> SUFFICES ASSUME IInv, TypeOK', Write PROVE IInv'
  OBVIOUS
<1> USE DEF IInv
<1> DEFINE D == UNION {PagesOf(r) : r \in Fresh(rwtx)}
<1>1. /\ pc = "write" /\ pc' = "sync" /\ acked' = acked /\ rwtx' = rwtx
      /\ metas' = metas /\ dmetas' = dmetas /\ disk' = disk
      /\ ids' = ids /\ pending' = pending /\ open' = open /\ snap' = snap
      /\ file' = [p \in Pages |->
                    IF p \in D
                    THEN [by |-> rwtx.txid,
                          free |-> IF p = rwtx.freelist.first
                                   THEN ids \cup AllPending(pending) ELSE {}]
                    ELSE file[p]]
  BY DEF Write, history, freelist, readers
<1>2. cur' = cur /\ dcur' = dcur /\ dcur = cur
  BY <1>1, MetasOnDisk DEF cur, dcur, getMeta
<1>t. /\ cur \in Meta /\ AllRuns(cur) \subseteq Run /\ cur.freelist \in AllRuns(cur)
      /\ AllRuns(rwtx) \subseteq Run /\ rwtx.freelist \in AllRuns(rwtx)
      /\ TreeRuns(cur) \subseteq AllRuns(cur)
  BY CurType, MetaType
<1>3. /\ \A p \in D : \E r \in AllRuns(rwtx) : r.by = rwtx.txid /\ p \in PagesOf(r)
      /\ \A r \in AllRuns(rwtx) : r.by = rwtx.txid => PagesOf(r) \subseteq D
  BY DEF Fresh
<1> HIDE DEF D
<1>4. \A p \in Pages : p \notin D => file'[p] = file[p]
  BY <1>1
<1>5. \A p \in Pages : p \in D => file'[p].by = rwtx.txid
  BY <1>1
<1>6. ASSUME NEW r \in AllRuns(cur), NEW p \in PagesOf(r)
      PROVE  p \in Pages /\ p \notin D /\ file'[p] = file[p]
  <2>1. p \in Pages
    BY <1>t, RunPages
  <2>2. p \notin D
    BY <1>1, <1>3 DEF Building
  <2> QED
    BY <1>4, <2>1, <2>2
<1>7. Persisted(file', cur) = Persisted(file, cur)
  <2>1. cur.freelist.first \in PagesOf(cur.freelist)
    BY <1>t, RunPages
  <2> QED
    BY <1>t, <1>6, <2>1 DEF Persisted
<1>8. TwoMetas'
  BY <1>1, <1>2 DEF TwoMetas
<1>9. Committed'
  <2>1. Readable(file', cur)
    BY <1>6, <1>7 DEF Committed, Readable
  <2>2. \A r \in AllRuns(cur) : \A p \in PagesOf(r) : file'[p] = disk[p]
    BY <1>6 DEF Committed
  <2> QED
    BY <1>1, <1>2, <2>1, <2>2 DEF Committed
<1>10. FreeApart' /\ FreeSaved'
  BY <1>1, <1>2 DEF FreeApart, FreeSaved
<1>11. Building'
  BY <1>1, <1>2 DEF Building
<1>12. Spilling'
  <2>1. rwtx.freelist.by = rwtx.txid
    BY <1>1 DEF Spilling
  <2>2. ASSUME NEW r \in AllRuns(rwtx), NEW p \in PagesOf(r)
        PROVE  file'[p].by = r.by
    <3>1. p \in Pages
      BY <1>t, RunPages
    <3>2. CASE r.by = rwtx.txid
      BY <1>3, <1>5, <3>1, <3>2
    <3>3. CASE r.by # rwtx.txid
      <4>1. r \in AllRuns(cur)
        BY <1>1, <3>3 DEF Building
      <4> QED
        BY <1>6, <4>1 DEF Committed, Readable
    <3> QED
      BY <3>2, <3>3
  <2>3. Persisted(file', rwtx) = ids \cup AllPending(pending)
    <3>1. rwtx.freelist.first \in PagesOf(rwtx.freelist)
          /\ PagesOf(rwtx.freelist) \subseteq Pages
      BY <1>t, RunPages
    <3>2. rwtx.freelist.first \in D /\ rwtx.freelist.first \in Pages
      BY <1>3, <1>t, <2>1, <3>1
    <3> QED
      BY <1>1, <3>2 DEF Persisted
  <2> QED
    BY <1>1, <2>1, <2>2, <2>3 DEF Spilling
<1>13. ReadersSafe'
  <2>1. ASSUME NEW t \in open, NEW s \in TreeRuns(snap[t]), NEW p \in PagesOf(s)
        PROVE  file'[p] = file[p]
    <3>1. snap[t] \in Meta
      BY DEF TypeOK
    <3>2. p \in Pages
      BY <3>1, MetaType, RunPages
    <3>3. p \notin D
      BY <1>1, <1>3 DEF Building
    <3> QED
      BY <1>4, <3>2, <3>3
  <2>2. \A t \in open : Intact(file', snap[t])
    BY <2>1 DEF ReadersSafe, Intact
  <2> QED
    BY <1>1, <1>2, <2>2 DEF ReadersSafe
<1> QED
  BY <1>8, <1>9, <1>10, <1>11, <1>12, <1>13

\* The fdatasync of Tx::write: disk and mapping agree before the meta page
\* is written.
LEMMA SyncDataKeeps == IInv /\ TypeOK' /\ SyncData => IInv'
<1> SUFFICES ASSUME IInv, TypeOK', SyncData PROVE IInv'
  OBVIOUS
<1> USE DEF IInv
<1>1. /\ pc = "sync" /\ pc' = "meta" /\ acked' = acked /\ rwtx' = rwtx
      /\ metas' = metas /\ dmetas' = metas /\ disk' = file /\ file' = file
      /\ ids' = ids /\ pending' = pending /\ open' = open /\ snap' = snap
  BY DEF SyncData, history, freelist, readers
<1>2. cur' = cur /\ dcur' = dcur /\ dmetas' = dmetas
  BY <1>1 DEF TwoMetas, cur, dcur, getMeta
<1>3. TwoMetas'
  BY <1>1, <1>2 DEF TwoMetas
<1>4. Committed'
  BY <1>1, <1>2 DEF Committed
<1>5. FreeApart' /\ FreeSaved'
  BY <1>1, <1>2 DEF FreeApart, FreeSaved
<1>6. Building' /\ Spilling'
  BY <1>1, <1>2 DEF Building, Spilling
<1>7. ReadersSafe'
  BY <1>1, <1>2 DEF ReadersSafe
<1> QED
  BY <1>3, <1>4, <1>5, <1>6, <1>7

\* The commit point: the version that was built becomes the committed one.
LEMMA WriteMetaKeeps == IInv /\ TypeOK' /\ WriteMeta => IInv'
<1> SUFFICES ASSUME IInv, TypeOK', WriteMeta PROVE IInv'
  OBVIOUS
<1> USE DEF IInv
<1>1. /\ pc = "meta" /\ pc' = "syncmeta" /\ acked' = acked /\ rwtx' = rwtx
      /\ metas' = [metas EXCEPT ![rwtx.txid % 2] = rwtx] /\ dmetas' = dmetas
      /\ file' = file /\ disk' = disk /\ disk = file /\ dmetas = metas
      /\ ids' = ids /\ pending' = pending /\ open' = open /\ snap' = snap
  BY DEF WriteMeta, MetaPage, history, freelist, readers, TwoMetas, Committed
<1>t. /\ cur \in Meta /\ rwtx \in Meta /\ cur.txid \in Nat /\ rwtx.txid \in Nat
      /\ cur.total \in Nat /\ rwtx.total \in Nat /\ \A k \in TxIds : k \in Nat
      /\ pending \in [TxIds -> SUBSET Pages]
      /\ AllRuns(rwtx) \subseteq Run
  BY CurType, MetaType, DbAssumption DEF TxIds
<1>2. rwtx.txid = cur.txid + 1 /\ cur.total <= rwtx.total /\ WellFormed(rwtx)
  BY <1>1 DEF Building
<1>3. Newest(metas') = rwtx /\ Alternate(metas')
  <2>1. metas \in [{0, 1} -> Meta] /\ Alternate(metas) /\ rwtx.txid = Newest(metas).txid + 1
    BY <1>2 DEF TypeOK, TwoMetas, cur, getMeta
  <2> QED
    BY <1>1, <1>t, <2>1, NewMeta
<1>4. cur' = rwtx /\ dcur' = dcur /\ dcur = cur
  BY <1>1, <1>3 DEF cur, dcur, getMeta
<1>5. TwoMetas'
  BY <1>1, <1>2, <1>3, <1>4 DEF TwoMetas
<1>6. /\ \A r \in AllRuns(rwtx) : \A p \in PagesOf(r) : file[p].by = r.by
      /\ Persisted(file, rwtx) = ids \cup AllPending(pending)
  BY <1>1 DEF Spilling
<1>7. \A x \in 2 .. (cur.total - 1) : x \in 2 .. (rwtx.total - 1)
  BY <1>t, <1>2
<1>8. \A p \in AllPending(pending) : \E k \in TxIds : p \in pending[k]
  BY <1>t DEF AllPending
<1>9. Readable(file, rwtx)
  <2>1. Persisted(file, rwtx) \subseteq 2 .. (rwtx.total - 1)
    BY <1>6, <1>7, <1>8 DEF FreeApart
  <2>2. \A r \in AllRuns(rwtx) : PagesOf(r) \cap Persisted(file, rwtx) = {}
    BY <1>1, <1>6, <1>8 DEF Building
  <2> QED
    BY <1>6, <2>1, <2>2 DEF Readable
<1>10. \A r \in AllRuns(rwtx) : r.by <= rwtx.txid
  <2>1. ASSUME NEW r \in AllRuns(rwtx) PROVE r.by <= rwtx.txid
    <3>1. r.by \in Nat
      BY <1>t, RunPages
    <3>2. r.by = rwtx.txid \/ r.by <= cur.txid
      BY <1>1 DEF Building, Committed
    <3> QED
      BY <1>t, <1>2, <3>1, <3>2
  <2> QED
    BY <2>1
<1>11. Committed'
  BY <1>1, <1>2, <1>4, <1>9, <1>10 DEF Committed
<1>12. FreeApart'
  BY <1>1, <1>4, <1>7 DEF FreeApart, Building
<1>13. FreeSaved'
  <2>1. \A k \in TxIds : k > rwtx.txid => pending[k] = {}
    BY <1>1, <1>2 DEF FreeSaved
  <2> QED
    BY <1>1, <1>4, <1>6, <2>1 DEF FreeSaved
<1>14. Building' /\ Spilling'
  BY <1>1 DEF Building, Spilling
<1>15. ReadersSafe'
  <2>1. ASSUME NEW t \in open PROVE snap[t].txid <= rwtx.txid
    <3>1. snap[t].txid \in Nat /\ snap[t].txid <= cur.txid
      BY MetaType DEF TypeOK, ReadersSafe
    <3> QED
      BY <1>t, <1>2, <3>1
  <2> QED
    BY <1>1, <1>4, <1>7, <2>1 DEF ReadersSafe
<1> QED
  BY <1>5, <1>11, <1>12, <1>13, <1>14, <1>15

\* The fdatasync of Tx::writeMeta: the new meta page is on disk when commit()
\* returns.
LEMMA SyncMetaKeeps == IInv /\ TypeOK' /\ SyncMeta => IInv'
<1> SUFFICES ASSUME IInv, TypeOK', SyncMeta PROVE IInv'
  OBVIOUS
<1> USE DEF IInv
<1>1. /\ pc = "syncmeta" /\ pc' = "close" /\ acked' = rwtx.txid /\ rwtx' = rwtx
      /\ metas' = metas /\ dmetas' = metas /\ disk' = file /\ file' = file
      /\ ids' = ids /\ pending' = pending /\ open' = open /\ snap' = snap
  BY DEF SyncMeta, history, freelist, readers
<1>2. cur' = cur /\ dcur' = cur /\ cur = rwtx /\ cur.txid \in Nat
  BY <1>1, MetasOnDisk, CurType, MetaType DEF cur, dcur, getMeta
<1>3. TwoMetas'
  BY <1>1, <1>2 DEF TwoMetas
<1>4. Committed'
  BY <1>1, <1>2 DEF Committed
<1>5. FreeApart' /\ FreeSaved'
  BY <1>1, <1>2 DEF FreeApart, FreeSaved
<1>6. Building' /\ Spilling'
  BY <1>1 DEF Building, Spilling
<1>7. ReadersSafe'
  BY <1>1, <1>2 DEF ReadersSafe
<1> QED
  BY <1>3, <1>4, <1>5, <1>6, <1>7

---------------------------------------------------------------------------
(* Closing, crashing, opening.                                             *)

\* DB::DbClose drops the freelist and leaves the pages alone.
LEMMA DbCloseKeeps == IInv /\ TypeOK' /\ DbClose => IInv'
<1> SUFFICES ASSUME IInv, TypeOK', DbClose PROVE IInv'
  OBVIOUS
<1> USE DEF IInv
<1>1. /\ pc = "idle" /\ pc' = "down" /\ acked' = acked /\ UNCHANGED store
      /\ file' = file /\ open' = open /\ snap' = snap /\ ids' = {}
      /\ pending' = NoPending
  BY DEF DbClose, history, store, readers
<1>2. cur' = cur /\ dcur' = dcur /\ TwoMetas' /\ Committed'
  BY <1>1, StoreKept
<1>3. \A k \in TxIds : pending'[k] = {}
  BY <1>1 DEF NoPending
<1>4. FreeApart' /\ FreeSaved'
  BY <1>1, <1>3 DEF FreeApart, FreeSaved
<1>5. Building' /\ Spilling'
  BY <1>1 DEF Building, Spilling
<1>6. ReadersSafe'
  BY <1>1, <1>2, <1>3 DEF ReadersSafe
<1> QED
  BY <1>2, <1>4, <1>5, <1>6

\* A crash leaves the two metas of the mapping or the two on disk: they differ
\* on one page at most, the one Tx::writeMeta has not synced.
LEMMA CrashPicks ==
  ASSUME IInv, Crash
  PROVE  metas' \in {metas, dmetas}
<1>1. PICK S \in SUBSET Unsynced(metas, dmetas) : metas' = Survives(metas, dmetas, S)
  BY DEF Crash
<1>2. /\ metas \in [{0, 1} -> Meta] /\ dmetas \in [{0, 1} -> Meta]
      /\ metas' = [x \in {0, 1} |-> IF x \in S THEN metas[x] ELSE dmetas[x]]
  BY <1>1 DEF Survives, IInv, TypeOK
<1>3. CASE pc # "syncmeta"
  <2>1. metas = dmetas
    BY <1>3 DEF IInv, TwoMetas
  <2> QED
    BY <1>2, <2>1
<1>4. CASE pc = "syncmeta"
  <2> DEFINE k == rwtx.txid % 2
  <2>1. \A x \in {0, 1} : x # k => metas[x] = dmetas[x]
    BY <1>2, <1>4 DEF IInv, TwoMetas
  <2>2. CASE k \in S
    <3>1. \A x \in {0, 1} : metas'[x] = metas[x]
      BY <1>2, <2>1, <2>2
    <3> QED
      BY <1>2, <3>1
  <2>3. CASE k \notin S
    <3>1. \A x \in {0, 1} : metas'[x] = dmetas[x]
      BY <1>2, <2>1, <2>3
    <3> QED
      BY <1>2, <3>1
  <2> QED
    BY <2>2, <2>3
<1> QED
  BY <1>3, <1>4

\* Whichever pages survive, the metas are those of the mapping or those on
\* disk, and the pages under them are the same in both.
LEMMA CrashKeeps == IInv /\ TypeOK' /\ Crash => IInv'
<1> SUFFICES ASSUME IInv, TypeOK', Crash PROVE IInv'
  OBVIOUS
<1> USE DEF IInv
<1>t. /\ cur \in Meta /\ dcur \in Meta /\ rwtx \in Meta /\ cur.txid \in Nat
      /\ dcur.txid \in Nat /\ acked \in Nat
      /\ metas \in [{0, 1} -> Meta] /\ dmetas \in [{0, 1} -> Meta]
      /\ file \in [Pages -> Content] /\ disk \in [Pages -> Content]
  BY CurType, MetaType, DbAssumption DEF TypeOK, TxIds
<1>1. /\ pc' = "down" /\ acked' = acked /\ open' = {} /\ ids' = {}
      /\ pending' = NoPending /\ disk' = file' /\ dmetas' = metas'
  BY DEF Crash
<1>3. PICK Q \in SUBSET Unsynced(file, disk) : file' = Survives(file, disk, Q)
  BY DEF Crash
<1>4. metas' = metas \/ metas' = dmetas
  BY CrashPicks
<1>5. cur' = dcur' /\ (cur' = cur \/ cur' = dcur)
  BY <1>1, <1>4 DEF cur, dcur, getMeta
<1>6. TwoMetas'
  <2>1. Alternate(metas')
    BY <1>4 DEF TwoMetas
  <2>2. acked <= dcur.txid /\ dcur.txid <= cur.txid
    BY MetasOnDisk DEF TwoMetas
  <2>3. acked <= cur'.txid
    BY <1>5, <1>t, <2>2
  <2> QED
    BY <1>1, <1>5, <2>1, <2>3 DEF TwoMetas
<1>7. ASSUME NEW r \in AllRuns(cur) \cup AllRuns(dcur), NEW p \in PagesOf(r)
      PROVE  file'[p] = file[p]
  <2>1. p \in Pages
    BY <1>t, MetaType, RunPages
  <2>2. file[p] = disk[p]
    BY DEF Committed
  <2>3. file'[p] = IF p \in Q THEN file[p] ELSE disk[p]
    BY <1>3, <1>t, <2>1 DEF Survives
  <2> QED
    BY <2>2, <2>3
<1>8. Committed'
  <2>1. ASSUME NEW m \in {cur, dcur}
        PROVE  /\ WellFormed(m) /\ Readable(file', m)
               /\ \A r \in AllRuns(m) : r.by <= m.txid
    <3>1. WellFormed(m) /\ Readable(file, m) /\ \A r \in AllRuns(m) : r.by <= m.txid
      BY DEF Committed
    <3>2. \A r \in AllRuns(m) : \A p \in PagesOf(r) : file'[p] = file[p]
      BY <1>7
    <3>3. m.freelist \in AllRuns(m) /\ m.freelist.first \in PagesOf(m.freelist)
      BY <1>t, MetaType, RunPages
    <3>4. Persisted(file', m) = Persisted(file, m)
      BY <3>2, <3>3 DEF Persisted
    <3> QED
      BY <3>1, <3>2, <3>4 DEF Readable
  <2>2. /\ WellFormed(cur') /\ Readable(file', cur')
        /\ \A r \in AllRuns(cur') : r.by <= cur'.txid
    BY <1>5, <2>1
  <2> QED
    BY <1>1, <1>5, <2>2 DEF Committed
<1>9. \A k \in TxIds : pending'[k] = {}
  BY <1>1 DEF NoPending
<1>10. FreeApart' /\ FreeSaved'
  BY <1>1, <1>9 DEF FreeApart, FreeSaved
<1>11. Building' /\ Spilling' /\ ReadersSafe'
  BY <1>1 DEF Building, Spilling, ReadersSafe
<1> QED
  BY <1>6, <1>8, <1>10, <1>11

\* Open takes the saved freelist, which holds no page of the version it
\* opens; there is no reader yet.
LEMMA OpenKeeps == IInv /\ TypeOK' /\ Open => IInv'
<1> SUFFICES ASSUME IInv, TypeOK', Open PROVE IInv'
  OBVIOUS
<1> USE DEF IInv
<1>1. /\ pc = "down" /\ pc' = "idle" /\ acked' = acked /\ UNCHANGED store
      /\ file' = file /\ open' = {} /\ ids' = Persisted(file, cur)
      /\ pending' = pending
  BY DEF Open, history, store, readers, cur
<1>2. cur' = cur /\ dcur' = dcur /\ TwoMetas' /\ Committed'
  BY <1>1, StoreKept
<1>3. \A k \in TxIds : pending'[k] = {}
  BY <1>1 DEF FreeSaved, NoPending
<1>4. FreeApart'
  BY <1>1, <1>2, <1>3 DEF FreeApart, Committed, Readable
<1>5. FreeSaved'
  BY <1>1, <1>2, <1>3 DEF FreeSaved
<1>6. Building' /\ Spilling' /\ ReadersSafe'
  BY <1>1 DEF Building, Spilling, ReadersSafe
<1> QED
  BY <1>2, <1>4, <1>5, <1>6

---------------------------------------------------------------------------
(* The invariant.                                                          *)

\* The file DB::Init lays out satisfies the invariant.
LEMMA InitIInv == Init => IInv
<1> SUFFICES ASSUME Init PROVE IInv
  OBVIOUS
<1> DEFINE R == [first |-> 3, n |-> 1, by |-> 0]
           F == [first |-> 2, n |-> 1, by |-> 0]
<1>1. TypeOK
  BY InitTypeOK
<1>2. /\ pc = "idle" /\ open = {} /\ ids = {} /\ pending = NoPending
      /\ acked = 1 /\ dmetas = metas /\ disk = file
  BY DEF Init
<1>3. metas[0] = InitMeta(0) /\ metas[1] = InitMeta(1)
  BY DEF Init
<1>4. /\ InitMeta(0).txid = 0 /\ InitMeta(1).txid = 1
      /\ InitMeta(1).root = R /\ InitMeta(1).freelist = F
      /\ InitMeta(1).kids = {} /\ InitMeta(1).total = 4
  BY DEF InitMeta
<1>5. cur = InitMeta(1) /\ dcur = InitMeta(1)
  BY <1>2, <1>3, <1>4 DEF cur, dcur, getMeta, Newest
<1>6. TwoMetas
  BY <1>2, <1>3, <1>4, <1>5 DEF TwoMetas, Alternate
<1>7. AllRuns(cur) = {R, F} /\ TreeRuns(cur) = {R} /\ PagesOf(R) = {3} /\ PagesOf(F) = {2}
  BY <1>4, <1>5 DEF AllRuns, TreeRuns, PagesOf, Span
<1>8. \A k \in TxIds : pending[k] = {}
  BY <1>2 DEF NoPending
<1>9. 2 \in Pages /\ 3 \in Pages /\ \A p \in Pages : file[p].by = 0 /\ file[p].free = {}
  BY DbAssumption DEF Pages, Init, Blank
<1>10. Persisted(file, cur) = {}
  BY <1>4, <1>5, <1>9 DEF Persisted
<1>11. WellFormed(cur)
  BY <1>4, <1>5, <1>7 DEF WellFormed
<1>12. Readable(file, cur)
  BY <1>7, <1>9, <1>10 DEF Readable
<1>13. Committed
  <2>1. \A r \in AllRuns(cur) : r.by <= cur.txid
    BY <1>4, <1>5, <1>7
  <2> QED
    BY <1>2, <1>5, <1>11, <1>12, <2>1 DEF Committed
<1>14. FreeApart /\ FreeSaved
  BY <1>2, <1>8, <1>10 DEF FreeApart, FreeSaved
<1>15. Building /\ Spilling /\ ReadersSafe
  BY <1>2 DEF Building, Spilling, ReadersSafe
<1> QED
  BY <1>1, <1>6, <1>13, <1>14, <1>15 DEF IInv

\* Every step of the program keeps the invariant.
LEMMA NextIInv == IInv /\ [Next]_vars => IInv'
<1> SUFFICES ASSUME IInv, [Next]_vars PROVE IInv'
  OBVIOUS
<1>t. TypeOK'
  BY NextTypeOK DEF IInv
<1>1. CASE BeginRWTx
  BY <1>1, <1>t, BeginRWTxKeeps
<1>2. CASE Rollback \/ UpdateFails
  BY <1>2, <1>t, RollbackKeeps
<1>3. CASE CloseTx
  BY <1>3, <1>t, CloseTxKeeps
<1>4. ASSUME NEW T \in SUBSET rwtx.kids, NEW k \in 0 .. MaxNew, NEW b \in BOOLEAN,
             Commit(T, k, b)
      PROVE  IInv'
  BY <1>4, <1>t, CommitKeeps
<1>5. ASSUME NEW k \in todo, NEW n \in RunSizes, SpillKid(k, n)
      PROVE  IInv'
  BY <1>5, <1>t, SpillKidKeeps
<1>6. ASSUME NEW k \in todo, InlineKid(k)
      PROVE  IInv'
  BY <1>6, <1>t, InlineKidKeeps
<1>7. ASSUME NEW k \in todo, InlineKidStale(k)
      PROVE  IInv'
  BY <1>7, <1>t, InlineKidStaleKeeps
<1>8. ASSUME NEW n \in RunSizes, SpillNew(n)
      PROVE  IInv'
  BY <1>8, <1>t, SpillNewKeeps
<1>9. ASSUME NEW n \in RunSizes, SpillRoot(n)
      PROVE  IInv'
  BY <1>9, <1>t, SpillRootKeeps
<1>10. CASE CommitFreelist
  BY <1>10, <1>t, CommitFreelistKeeps
<1>11. CASE Write
  BY <1>11, <1>t, WriteKeeps
<1>12. CASE SyncData
  BY <1>12, <1>t, SyncDataKeeps
<1>13. CASE WriteMeta
  BY <1>13, <1>t, WriteMetaKeeps
<1>14. CASE SyncMeta
  BY <1>14, <1>t, SyncMetaKeeps
<1>15. ASSUME NEW r \in Readers, BeginTx(r)
       PROVE  IInv'
  BY <1>15, <1>t, BeginTxKeeps
<1>16. ASSUME NEW r \in Readers, UnlockMmap(r) \/ RemoveTx(r)
       PROVE  IInv'
  BY <1>16, <1>t, EndTxKeeps
<1>17. CASE DbClose
  BY <1>17, <1>t, DbCloseKeeps
<1>18. CASE Crash
  BY <1>18, <1>t, CrashKeeps
<1>19. CASE Open
  BY <1>19, <1>t, OpenKeeps
<1>20. CASE UNCHANGED vars
  <2>1. /\ UNCHANGED <<pc, rwtx, todo, news, rootT, moved>>
        /\ UNCHANGED <<open, mmapR, snap, ids, pending>>
        /\ UNCHANGED <<metas, file, dmetas, disk, acked>>
    BY <1>20 DEF vars, writer, readers, freelist, store, history
  <2>2. cur' = cur /\ dcur' = dcur
    BY <2>1 DEF cur, dcur, getMeta
  <2>3. TwoMetas' /\ Committed'
    BY <2>1, <2>2 DEF IInv, TwoMetas, Committed
  <2>4. FreeApart' /\ FreeSaved'
    BY <2>1, <2>2 DEF IInv, FreeApart, FreeSaved
  <2>5. Building' /\ Spilling' /\ ReadersSafe'
    BY <2>1, <2>2 DEF IInv, Building, Spilling, ReadersSafe
  <2> QED
    BY <1>t, <2>3, <2>4, <2>5 DEF IInv
<1> QED
  BY <1>1, <1>2, <1>3, <1>4, <1>5, <1>6, <1>7, <1>8, <1>9, <1>10, <1>11, <1>12,
     <1>13, <1>14, <1>15, <1>16, <1>17, <1>18, <1>19, <1>20
     DEF Next, CommitStep, ReaderStep

\* The conjunction of what DB, Tx and freeList keep true of the metas, the
\* freelist, the version being built and the readers' snapshots holds in
\* every reachable state, for every number of readers, every bound on
\* transactions and crashes, and every size of the mapping.
THEOREM Inductive == Spec => []IInv
<1>1. Init => IInv
  BY InitIInv
<1>2. IInv /\ [Next]_vars => IInv'
  BY NextIInv
<1> QED
  BY <1>1, <1>2, PTL DEF Spec

---------------------------------------------------------------------------
(* What follows from it.                                                   *)

\* A read-only transaction sees the version it began with until it ends: no
\* commit (Tx::write) overwrites a page it can reach while it is in txs_.
THEOREM ReadersSeeTheirSnapshot == Spec => []SnapshotIsolation
<1>1. IInv => SnapshotIsolation
  BY DEF IInv, ReadersSafe, SnapshotIsolation
<1> QED
  BY <1>1, Inductive, PTL

\* The version DB::getMeta picks is readable at every moment, also right
\* after a crash: its buckets and its freelist hold what was written there,
\* and the freelist that DB::Open reads offers none of its pages.
THEOREM CommittedReadable == Spec => []CommittedIntact
<1>1. IInv => CommittedIntact
  <2> SUFFICES ASSUME IInv PROVE CommittedIntact
    OBVIOUS
  <2>1. Readable(file, cur) /\ cur = getMeta
    BY DEF IInv, Committed, cur
  <2>2. TreeRuns(cur) \subseteq AllRuns(cur) /\ cur.freelist \in AllRuns(cur)
    BY DEF AllRuns
  <2>3. Intact(file, cur) /\ \A p \in PagesOf(cur.freelist) : file[p].by = cur.freelist.by
    BY <2>1, <2>2 DEF Readable, Intact
  <2>4. Persisted(file, cur) \cap LivePages(cur) = {}
    BY <2>1 DEF Readable, LivePages
  <2> QED
    BY <2>1, <2>3, <2>4 DEF CommittedIntact
<1> QED
  BY <1>1, Inductive, PTL

\* A transaction whose Tx::commit returned 0 is never lost: the meta on disk
\* and the meta in the mapping are at least as new as it.
THEOREM AcknowledgedIsDurable == Spec => []Durability
<1>1. IInv => Durability
  <2> SUFFICES ASSUME IInv PROVE Durability
    OBVIOUS
  <2>1. acked <= dcur.txid /\ dcur.txid <= cur.txid
    BY MetasOnDisk DEF IInv, TwoMetas
  <2>2. acked \in Nat /\ dcur.txid \in Nat /\ cur.txid \in Nat
    BY CurType, MetaType, DbAssumption DEF IInv, TypeOK, TxIds
  <2> QED
    BY <2>1, <2>2 DEF Durability, cur, dcur
<1> QED
  BY <1>1, Inductive, PTL

\* The pages Tx::write is about to overwrite belong to nobody else: not to
\* the committed version, not to the freelist, not to an open snapshot.
THEOREM CommitWritesFreshPages == Spec => []WritesOnlyFresh
<1>1. IInv => WritesOnlyFresh
  <2> SUFFICES ASSUME IInv, pc \in {"write", "sync", "meta"}, NEW r \in Fresh(rwtx)
               PROVE  /\ PagesOf(r) \cap LivePages(getMeta) = {}
                      /\ PagesOf(r) \cap (ids \cup AllPending(pending)) = {}
                      /\ \A t \in open : PagesOf(r) \cap TreePages(snap[t]) = {}
    BY DEF WritesOnlyFresh
  <2>1. /\ PagesOf(r) \cap ids = {}
        /\ \A k \in TxIds : PagesOf(r) \cap pending[k] = {}
        /\ \A s \in AllRuns(cur) : PagesOf(r) \cap PagesOf(s) = {}
        /\ \A t \in open : \A s \in TreeRuns(snap[t]) : PagesOf(r) \cap PagesOf(s) = {}
    BY DEF IInv, Building, Fresh
  <2>2. PagesOf(r) \cap LivePages(getMeta) = {}
    BY <2>1 DEF LivePages, cur
  <2>3. DOMAIN pending = TxIds
    BY DEF IInv, TypeOK
  <2>4. PagesOf(r) \cap (ids \cup AllPending(pending)) = {}
    BY <2>1, <2>3 DEF AllPending
  <2>5. \A t \in open : PagesOf(r) \cap TreePages(snap[t]) = {}
    BY <2>1 DEF TreePages
  <2> QED
    BY <2>2, <2>4, <2>5
<1> QED
  BY <1>1, Inductive, PTL

---------------------------------------------------------------------------
(* Allocation.                                                             *)

\* The pages by which DB::allocate moves the end of the file are those it
\* hands out; the mapping only grows and has room for them.
LEMMA TakeGrows ==
  ASSUME TypeOK, NEW n \in Nat \ {0}, Take(n), rwtx.total <= datasz
  PROVE  /\ rwtx.total .. (TotalAfter(n) - 1) \subseteq PagesOf(NewRun(n))
         /\ datasz' \in Nat /\ datasz <= datasz' /\ TotalAfter(n) <= datasz'
         /\ EndOfFile(n) => TotalAfter(n) + 1 <= datasz'
         /\ datasz' # datasz => mmapR = {}
<1>1. rwtx.total \in Nat /\ filesz \in Nat /\ datasz \in Nat
  BY PageAllocAssumption, DbAssumption DEF TypeOK, Meta
<1>2. PagesOf(NewRun(n)) = FirstOf(n) .. (FirstOf(n) + n - 1)
  BY DEF PagesOf, NewRun, Span
<1>3. CASE ~EndOfFile(n)
  <2>1. TotalAfter(n) = rwtx.total /\ datasz' = datasz
    BY <1>3 DEF TotalAfter, Take, Remaps
  <2> QED
    BY <1>1, <1>3, <2>1
<1>4. CASE EndOfFile(n)
  <2>1. TotalAfter(n) = rwtx.total + n /\ FirstOf(n) = rwtx.total
    BY <1>4 DEF TotalAfter, FirstOf
  <2>2. CASE Remaps(n)
    <3>1. /\ MapTarget(n) \in Nat /\ rwtx.total + n + 1 <= MapTarget(n)
      BY <1>1, MaxOfTwo DEF MapTarget
    <3>2. mmapR = {} /\ CanMap(MapTarget(n)) /\ datasz' = MmapSize(MapTarget(n))
      BY <2>2 DEF Take
    <3>3. datasz' \in MmapSizes /\ MapTarget(n) <= datasz'
      BY <3>1, <3>2, MmapSizeFits
    <3>4. datasz' \in Nat /\ datasz < rwtx.total + n + 1
      BY <1>1, <2>2, <3>3, PageAllocAssumption DEF Remaps
    <3> QED
      BY <1>1, <1>2, <2>1, <3>1, <3>2, <3>3, <3>4
  <2>3. CASE ~Remaps(n)
    <3>1. datasz' = datasz /\ rwtx.total + n + 1 <= datasz
      BY <1>1, <1>4, <2>3 DEF Take, Remaps
    <3> QED
      BY <1>1, <1>2, <2>1, <3>1
  <2> QED
    BY <2>2, <2>3
<1> QED
  BY <1>3, <1>4

\* DB::grow never makes the file shorter.
LEMMA GrowFits ==
  ASSUME filesz \in Nat, NEW sz \in Nat, NEW map \in Nat, sz <= map
  PROVE  Grow(sz, map) \in Nat /\ filesz <= Grow(sz, map)
  BY PageAllocAssumption DEF Grow

---------------------------------------------------------------------------
(* No page is lost.                                                        *)

\* The freelist a meta points to is on one of the meta's pages.
LEMMA FreelistPage ==
  ASSUME NEW m \in Meta
  PROVE  m.freelist.first \in PagesOf(m.freelist) /\ m.freelist \in AllRuns(m)
<1>1. m.freelist \in Run /\ m.freelist \in AllRuns(m)
  BY MetaType
<1>2. m.freelist.first \in Nat /\ m.freelist.n \in Nat /\ m.freelist.n >= 1
  BY <1>1, DbAssumption DEF Run, Pages
<1> QED
  BY <1>1, <1>2 DEF PagesOf, Span

\* One allocation and one free of a commit: the pages F it frees become
\* pending, the pages N it takes are in its version, the end of the file has
\* moved by such pages only.
LEMMA CoverStep ==
  ASSUME TypeOK, TypeOK', Covered, NEW F, NEW N,
         LivePages(rwtx) \subseteq LivePages(rwtx') \cup F,
         N \subseteq LivePages(rwtx'),
         rwtx.total .. (rwtx'.total - 1) \subseteq N,
         ids \subseteq ids' \cup N,
         \A k \in TxIds : pending[k] \subseteq pending'[k],
         F = {} \/ F \subseteq pending'[rwtx.txid]
  PROVE  Covered'
<1>1. rwtx.total \in Nat /\ rwtx'.total \in Nat /\ rwtx.txid \in TxIds
  BY DbAssumption DEF TypeOK, Meta
<1>2. AllPending(pending) \subseteq AllPending(pending') /\ F \subseteq AllPending(pending')
  BY <1>1 DEF AllPending, TypeOK
<1>3. 2 .. (rwtx'.total - 1) \subseteq 2 .. (rwtx.total - 1) \cup N
  BY <1>1
<1> QED
  BY <1>2, <1>3 DEF Covered

\* At the start of a commit every page is accounted for: what the freelist
\* page lists is still free or pending.
LEMMA CoveredAtStart ==
  ASSUME IInv, PagesKept, pc = "fn"
  PROVE  Covered
<1>1. rwtx = [cur EXCEPT !.txid = @ + 1] /\ cur \in Meta
  BY CurType DEF IInv, Spilling
<1>2. /\ rwtx.total = cur.total /\ rwtx.root = cur.root /\ rwtx.kids = cur.kids
      /\ rwtx.freelist = cur.freelist
  BY <1>1 DEF Meta
<1>3. LivePages(rwtx) = LivePages(cur)
  BY <1>2 DEF LivePages, AllRuns, TreeRuns
<1>4. Persisted(file, cur) \subseteq ids \cup AllPending(pending)
  BY DEF IInv, FreeSaved
<1> QED
  BY <1>2, <1>3, <1>4 DEF PagesKept, Complete, Covered

\* A version that keeps or frees each of its runs keeps or frees each of its
\* pages.
LEMMA LiveStep ==
  ASSUME NEW m, NEW q, NEW o, AllRuns(m) \subseteq AllRuns(q) \cup {o}
  PROVE  LivePages(m) \subseteq LivePages(q) \cup PagesOf(o)
  BY DEF LivePages

\* Node::spill frees the node's run and takes another; so does the commit of
\* the freelist.
LEMMA ReplaceCovers ==
  ASSUME TypeOK, TypeOK', Covered, rwtx.total <= datasz,
         NEW n \in Nat \ {0}, Take(n), NEW o \in Run,
         AllRuns(rwtx) \subseteq AllRuns(rwtx') \cup {o}, NewRun(n) \in AllRuns(rwtx'),
         rwtx'.total = TotalAfter(n), pending' = Freed(o)
  PROVE  Covered'
<1> DEFINE N == PagesOf(NewRun(n))
<1>1. LivePages(rwtx) \subseteq LivePages(rwtx') \cup PagesOf(o)
  BY LiveStep
<1>2. N \subseteq LivePages(rwtx')
  BY DEF LivePages
<1>3. rwtx.total .. (rwtx'.total - 1) \subseteq N
  BY TakeGrows
<1>4. ids \subseteq ids' \cup N
  BY AllocateFacts
<1>5. rwtx.txid \in TxIds /\ pending \in [TxIds -> SUBSET Pages]
  BY DEF TypeOK, Meta
<1>6. (\A k \in TxIds : pending[k] \subseteq pending'[k])
      /\ PagesOf(o) \subseteq pending'[rwtx.txid]
  BY <1>5 DEF Freed
<1> HIDE DEF N
<1> QED
  BY <1>1, <1>2, <1>3, <1>4, <1>6, CoverStep

\* The pages Tx::commit allocates for the freelist, and that there is one.
FreelistPages == SerialPages(Cardinality(ids \cup AllPending(Freed(rwtx.freelist))))

\* The freelist always takes at least a page.
LEMMA FreelistTakesPages ==
  ASSUME TypeOK
  PROVE  FreelistPages \in Nat \ {0}
<1>1. rwtx.freelist \in Run /\ ids \subseteq Pages
  BY DEF TypeOK, Meta
<1>2. Freed(rwtx.freelist) \in [TxIds -> SUBSET Pages]
  BY <1>1, FreedType
<1>3. ids \cup AllPending(Freed(rwtx.freelist)) \in SUBSET Pages
  BY <1>1, <1>2, PendingType
<1> QED
  BY <1>3, SerialPagesPositive DEF FreelistPages

\* The steps of Bucket::spill.
LEMMA SpillCovers ==
  ASSUME IInv, TypeOK', Covered, rwtx.total <= datasz,
         \/ \E k \in todo, n \in RunSizes : SpillKid(k, n)
         \/ \E k \in todo : InlineKid(k)
         \/ \E n \in RunSizes : SpillNew(n) \/ SpillRoot(n)
         \/ CommitFreelist
  PROVE  Covered'
<1>t. /\ TypeOK /\ todo \subseteq Run /\ rwtx \in Meta /\ rwtx.freelist \in Run
      /\ rwtx.root \in Run /\ rwtx.txid \in TxIds /\ pending \in [TxIds -> SUBSET Pages]
      /\ RunSizes \subseteq Nat \ {0} /\ rwtx.total \in Nat
  BY DbAssumption DEF IInv, TypeOK, Meta
<1>1. ASSUME NEW k \in todo, NEW n \in RunSizes, SpillKid(k, n) PROVE Covered'
  <2>1. /\ Take(n) /\ pending' = Freed(k)
        /\ rwtx' = [rwtx EXCEPT !.kids = (@ \ {k}) \cup {NewRun(n)}, !.total = TotalAfter(n)]
    BY <1>1 DEF SpillKid
  <2>2. /\ rwtx'.kids = (rwtx.kids \ {k}) \cup {NewRun(n)} /\ rwtx'.total = TotalAfter(n)
        /\ rwtx'.root = rwtx.root /\ rwtx'.freelist = rwtx.freelist
    BY <1>t, <2>1 DEF Meta
  <2>3. AllRuns(rwtx) \subseteq AllRuns(rwtx') \cup {k} /\ NewRun(n) \in AllRuns(rwtx')
    BY <2>2 DEF AllRuns, TreeRuns
  <2> QED
    BY <1>t, <2>1, <2>2, <2>3, ReplaceCovers
<1>2. ASSUME NEW k \in todo, InlineKid(k) PROVE Covered'
  <2>1. pending' = Freed(k) /\ ids' = ids /\ rwtx' = [rwtx EXCEPT !.kids = @ \ {k}]
    BY <1>2 DEF InlineKid
  <2>2. /\ rwtx'.kids = rwtx.kids \ {k} /\ rwtx'.total = rwtx.total
        /\ rwtx'.root = rwtx.root /\ rwtx'.freelist = rwtx.freelist
    BY <1>t, <2>1 DEF Meta
  <2>3. AllRuns(rwtx) \subseteq AllRuns(rwtx') \cup {k}
    BY <2>2 DEF AllRuns, TreeRuns
  <2>4. LivePages(rwtx) \subseteq LivePages(rwtx') \cup PagesOf(k)
    BY <2>3, LiveStep
  <2>5. (\A j \in TxIds : pending[j] \subseteq pending'[j])
        /\ PagesOf(k) \subseteq pending'[rwtx.txid]
    BY <1>t, <2>1 DEF Freed
  <2>6. rwtx.total .. (rwtx'.total - 1) \subseteq {}
    BY <1>t, <2>2
  <2> QED
    BY <1>t, <2>1, <2>4, <2>5, <2>6, CoverStep
<1>3. ASSUME NEW n \in RunSizes, SpillNew(n) PROVE Covered'
  <2>1. /\ Take(n) /\ pending' = pending
        /\ rwtx' = [rwtx EXCEPT !.kids = @ \cup {NewRun(n)}, !.total = TotalAfter(n)]
    BY <1>3 DEF SpillNew
  <2>2. /\ rwtx'.kids = rwtx.kids \cup {NewRun(n)} /\ rwtx'.total = TotalAfter(n)
        /\ rwtx'.root = rwtx.root /\ rwtx'.freelist = rwtx.freelist
    BY <1>t, <2>1 DEF Meta
  <2>3. AllRuns(rwtx) \subseteq AllRuns(rwtx') /\ NewRun(n) \in AllRuns(rwtx')
    BY <2>2 DEF AllRuns, TreeRuns
  <2>4. LivePages(rwtx) \subseteq LivePages(rwtx') /\ PagesOf(NewRun(n)) \subseteq LivePages(rwtx')
    BY <2>3 DEF LivePages
  <2>5. rwtx.total .. (rwtx'.total - 1) \subseteq PagesOf(NewRun(n))
    BY <1>t, <2>1, <2>2, TakeGrows
  <2>6. ids \subseteq ids' \cup PagesOf(NewRun(n))
    BY <1>t, <2>1, AllocateFacts
  <2> QED
    BY <1>t, <2>1, <2>4, <2>5, <2>6, CoverStep
<1>4. ASSUME NEW n \in RunSizes, SpillRoot(n) PROVE Covered'
  <2>1. /\ Take(n) /\ pending' = Freed(rwtx.root)
        /\ rwtx' = [rwtx EXCEPT !.root = NewRun(n), !.total = TotalAfter(n)]
    BY <1>4 DEF SpillRoot
  <2>2. /\ rwtx'.root = NewRun(n) /\ rwtx'.total = TotalAfter(n)
        /\ rwtx'.kids = rwtx.kids /\ rwtx'.freelist = rwtx.freelist
    BY <1>t, <2>1 DEF Meta
  <2>3. AllRuns(rwtx) \subseteq AllRuns(rwtx') \cup {rwtx.root} /\ NewRun(n) \in AllRuns(rwtx')
    BY <2>2 DEF AllRuns, TreeRuns
  <2> QED
    BY <1>t, <2>1, <2>2, <2>3, ReplaceCovers
<1>5. ASSUME CommitFreelist PROVE Covered'
  <2> DEFINE n == FreelistPages
  <2>1. /\ Take(n) /\ pending' = Freed(rwtx.freelist)
        /\ rwtx' = [rwtx EXCEPT !.freelist = NewRun(n), !.total = TotalAfter(n)]
    BY <1>5 DEF CommitFreelist, FreelistPages
  <2>2. n \in Nat \ {0}
    BY <1>t, FreelistTakesPages
  <2> HIDE DEF n
  <2>3. /\ rwtx'.freelist = NewRun(n) /\ rwtx'.total = TotalAfter(n)
        /\ rwtx'.kids = rwtx.kids /\ rwtx'.root = rwtx.root
    BY <1>t, <2>1 DEF Meta
  <2>4. /\ AllRuns(rwtx) \subseteq AllRuns(rwtx') \cup {rwtx.freelist}
        /\ NewRun(n) \in AllRuns(rwtx')
    BY <2>3 DEF AllRuns, TreeRuns
  <2> QED
    BY <1>t, <2>1, <2>2, <2>3, <2>4, ReplaceCovers
<1> QED
  BY <1>1, <1>2, <1>3, <1>4, <1>5

\* The versions of the metas lose no page as long as their freelist pages
\* stay the same.
LEMMA CompleteKept ==
  ASSUME NEW f, NEW g, NEW m \in Meta, Complete(f, m),
         \A p \in PagesOf(m.freelist) : f[p] = g[p]
  PROVE  Complete(g, m)
  BY FreelistPage DEF Complete, Persisted

\* Every step keeps track of every page.
LEMMA NextPagesKept ==
  ASSUME IInv, IInv', PageInv, [Next]_vars
  PROVE  PagesKept'
<1>t. /\ TypeOK /\ TypeOK' /\ cur \in Meta /\ dcur \in Meta /\ rwtx \in Meta
      /\ PagesKept /\ MapKept
  BY CurType DEF IInv, PageInv
<1>1. CASE Write
  <2>1. /\ pc = "write" /\ metas' = metas /\ dmetas' = dmetas /\ rwtx' = rwtx
        /\ ids' = ids /\ pending' = pending
        /\ \A p \in Pages : p \notin UNION {PagesOf(r) : r \in Fresh(rwtx)} => file'[p] = file[p]
    BY <1>1 DEF Write, freelist
  <2>2. cur' = cur /\ dcur' = dcur /\ dcur = cur
    BY <2>1, <1>t, MetasOnDisk DEF cur, dcur, getMeta, IInv
  <2>3. \A p \in PagesOf(cur.freelist) : file'[p] = file[p]
    <3>1. cur.freelist \in AllRuns(cur) /\ PagesOf(cur.freelist) \subseteq Pages
      BY <1>t, MetaType DEF Run, PagesOf
    <3>2. \A r \in Fresh(rwtx) : PagesOf(r) \cap PagesOf(cur.freelist) = {}
      BY <2>1, <3>1 DEF IInv, Building, Fresh
    <3> QED
      BY <2>1, <3>1, <3>2
  <2>4. Complete(file', cur)
    BY <1>t, <2>3, CompleteKept DEF PagesKept
  <2>5. Covered'
    BY <1>t, <2>1 DEF PagesKept, Covered
  <2> QED
    BY <2>2, <2>4, <2>5 DEF PagesKept
<1>2. CASE WriteMeta
  <2>1. /\ pc = "meta" /\ pc' = "syncmeta" /\ dmetas' = dmetas /\ file' = file
        /\ metas' = [metas EXCEPT ![rwtx.txid % 2] = rwtx]
    BY <1>2 DEF WriteMeta, MetaPage
  <2>2. cur' = rwtx /\ dcur' = dcur
    BY <1>t, <2>1, NewMeta DEF cur, dcur, getMeta, IInv, TypeOK, TwoMetas, Building
  <2>3. Persisted(file, rwtx) = ids \cup AllPending(pending) /\ Covered
    BY <1>t, <2>1 DEF IInv, Spilling, PagesKept
  <2>4. Complete(file, rwtx)
    BY <2>3 DEF Complete, Covered
  <2> QED
    BY <1>t, <2>1, <2>2, <2>4 DEF PagesKept
<1>3. CASE SyncMeta
  <2>1. pc' = "close" /\ metas' = metas /\ dmetas' = metas /\ file' = file
    BY <1>3 DEF SyncMeta
  <2>2. cur' = cur /\ dcur' = cur
    BY <2>1 DEF cur, dcur, getMeta
  <2> QED
    BY <1>t, <2>1, <2>2 DEF PagesKept
<1>4. CASE Crash
  <2>1. pc' = "down" /\ dmetas' = metas' /\ metas' \in {metas, dmetas}
    BY <1>4, CrashPicks DEF Crash
  <2>2. PICK S : file' = Survives(file, disk, S)
    BY <1>4 DEF Crash
  <2>3. cur' = dcur' /\ cur' \in {cur, dcur}
    BY <2>1 DEF cur, dcur, getMeta
  <2>4. ASSUME NEW m \in {cur, dcur} PROVE Complete(file', m)
    <3>1. m \in Meta /\ m.freelist \in AllRuns(m) /\ PagesOf(m.freelist) \subseteq Pages
      BY <1>t, MetaType DEF Run, PagesOf
    <3>2. \A p \in PagesOf(m.freelist) : file[p] = disk[p]
      BY <3>1 DEF IInv, Committed
    <3>3. \A p \in PagesOf(m.freelist) : file[p] = file'[p]
      BY <1>t, <2>2, <3>1, <3>2 DEF Survives, TypeOK
    <3> QED
      BY <1>t, <3>1, <3>3, CompleteKept DEF PagesKept
  <2> QED
    BY <2>1, <2>3, <2>4 DEF PagesKept
<1>5. ASSUME metas' = metas, dmetas' = dmetas, file' = file
      PROVE  Complete(file, cur)' /\ Complete(file, dcur)'
  <2>1. cur' = cur /\ dcur' = dcur
    BY <1>5 DEF cur, dcur, getMeta
  <2> QED
    BY <1>t, <1>5, <2>1 DEF PagesKept
<1>6. CASE SyncData
  <2>1. /\ pc = "sync" /\ metas' = metas /\ dmetas' = dmetas /\ file' = file
        /\ rwtx' = rwtx /\ ids' = ids /\ pending' = pending
    BY <1>6 DEF SyncData, freelist, IInv, TwoMetas
  <2> QED
    BY <1>t, <1>5, <2>1 DEF PagesKept, Covered
<1>7. ASSUME NEW T \in SUBSET rwtx.kids, NEW k, NEW b, Commit(T, k, b)
      PROVE  PagesKept'
  <2>1. /\ pc = "fn" /\ metas' = metas /\ dmetas' = dmetas /\ file' = file
        /\ rwtx' = rwtx /\ ids' = ids /\ pending' = pending
    BY <1>7 DEF Commit, freelist, store
  <2>2. Covered
    BY <1>t, <2>1, CoveredAtStart
  <2> QED
    BY <1>5, <2>1, <2>2 DEF PagesKept, Covered
<1>8. CASE \/ \E k \in todo, n \in RunSizes : SpillKid(k, n)
           \/ \E k \in todo : InlineKid(k)
           \/ \E n \in RunSizes : SpillNew(n) \/ SpillRoot(n)
           \/ CommitFreelist
  <2>1. pc = "spill" /\ metas' = metas /\ dmetas' = dmetas /\ file' = file
    BY <1>8 DEF SpillKid, InlineKid, SpillNew, SpillRoot, CommitFreelist, store
  <2>2. Covered /\ rwtx.total <= datasz
    BY <1>t, <2>1 DEF PagesKept, MapKept
  <2>3. Covered'
    BY <1>t, <1>8, <2>2, SpillCovers
  <2> QED
    BY <1>5, <2>1, <2>3 DEF PagesKept
<1>9. CASE \/ BeginRWTx \/ Rollback \/ UpdateFails \/ CloseTx \/ DbClose \/ Open
           \/ \E k \in todo : InlineKidStale(k)
  <2>1. pc' \notin {"spill", "write", "sync", "meta"}
        /\ metas' = metas /\ dmetas' = dmetas /\ file' = file
    BY <1>9 DEF BeginRWTx, Rollback, UpdateFails, CloseTx, DbClose, Open, InlineKidStale, store
  <2> QED
    BY <1>5, <2>1 DEF PagesKept
<1>10. CASE ReaderStep \/ UNCHANGED vars
  <2>1. /\ pc' = pc /\ metas' = metas /\ dmetas' = dmetas /\ file' = file
        /\ rwtx' = rwtx /\ ids' = ids /\ pending' = pending
    BY <1>10 DEF ReaderStep, BeginTx, UnlockMmap, RemoveTx, vars, writer, store, freelist
  <2> QED
    BY <1>t, <1>5, <2>1 DEF PagesKept, Covered
<1> QED
  BY <1>1, <1>2, <1>3, <1>4, <1>6, <1>7, <1>8, <1>9, <1>10 DEF Next, CommitStep

---------------------------------------------------------------------------
(* The mapping and the file cover every page.                              *)

\* An allocation: the mapping moves only without readers, and grows.
LEMMA TakeMaps ==
  ASSUME IInv, MapKept, pc = "spill", pc' \in {"spill", "write"},
         NEW n \in Nat \ {0}, Take(n),
         rwtx'.total = TotalAfter(n), filesz' \in Nat, filesz <= filesz',
         UNCHANGED store, UNCHANGED readers
  PROVE  MapKept'
<1>1. cur' = cur /\ dcur' = dcur /\ mmapR' = mmapR /\ snap' = snap
  BY DEF store, readers, cur, dcur, getMeta
<1>2. cur.total \in Nat /\ dcur.total \in Nat /\ rwtx.total \in Nat
  BY CurType, MetaType DEF IInv
<1>3. \A r \in mmapR : snap[r].total \in Nat
  BY MetaType DEF IInv, TypeOK
<1>4. filesz \in Nat /\ datasz \in Nat
  BY PageAllocAssumption DEF IInv, TypeOK
<1>5. datasz' \in Nat /\ datasz <= datasz' /\ TotalAfter(n) <= datasz'
  BY TakeGrows DEF IInv, MapKept
<1> QED
  BY <1>1, <1>2, <1>3, <1>4, <1>5 DEF MapKept

\* Every step keeps the ends of all versions within the mapping and the file.
LEMMA NextMapKept ==
  ASSUME IInv, IInv', PageInv, [Next]_vars
  PROVE  MapKept'
<1>t. /\ TypeOK /\ cur.total \in Nat /\ dcur.total \in Nat /\ rwtx.total \in Nat
      /\ rwtx \in Meta /\ filesz \in Nat /\ datasz \in Nat /\ MapKept
      /\ RunSizes \subseteq Nat \ {0}
      /\ \A r \in Readers : snap[r].total \in Nat
  BY CurType, MetaType, PageAllocAssumption, DbAssumption DEF IInv, TypeOK, PageInv
<1>1. ASSUME NEW k \in todo, NEW n \in RunSizes, SpillKid(k, n) PROVE MapKept'
  <2>1. /\ pc = "spill" /\ pc' = pc /\ Take(n) /\ filesz' = filesz
        /\ UNCHANGED store /\ UNCHANGED readers
        /\ rwtx' = [rwtx EXCEPT !.kids = (@ \ {k}) \cup {NewRun(n)}, !.total = TotalAfter(n)]
    BY <1>1 DEF SpillKid
  <2>2. rwtx'.total = TotalAfter(n)
    BY <1>t, <2>1 DEF Meta
  <2> QED
    BY <1>t, <2>1, <2>2, TakeMaps
<1>2. ASSUME NEW n \in RunSizes, SpillNew(n) PROVE MapKept'
  <2>1. /\ pc = "spill" /\ pc' = pc /\ Take(n) /\ filesz' = filesz
        /\ UNCHANGED store /\ UNCHANGED readers
        /\ rwtx' = [rwtx EXCEPT !.kids = @ \cup {NewRun(n)}, !.total = TotalAfter(n)]
    BY <1>2 DEF SpillNew
  <2>2. rwtx'.total = TotalAfter(n)
    BY <1>t, <2>1 DEF Meta
  <2> QED
    BY <1>t, <2>1, <2>2, TakeMaps
<1>3. ASSUME NEW n \in RunSizes, SpillRoot(n) PROVE MapKept'
  <2>1. /\ pc = "spill" /\ pc' = pc /\ Take(n) /\ filesz' = filesz
        /\ UNCHANGED store /\ UNCHANGED readers
        /\ rwtx' = [rwtx EXCEPT !.root = NewRun(n), !.total = TotalAfter(n)]
    BY <1>3 DEF SpillRoot
  <2>2. rwtx'.total = TotalAfter(n)
    BY <1>t, <2>1 DEF Meta
  <2> QED
    BY <1>t, <2>1, <2>2, TakeMaps
<1>4. CASE CommitFreelist
  <2> DEFINE n == FreelistPages
  <2>1. /\ pc = "spill" /\ pc' = "write" /\ Take(n)
        /\ filesz' = IF EndOfFile(n) THEN Grow(TotalAfter(n) + 1, datasz') ELSE filesz
        /\ UNCHANGED store /\ UNCHANGED readers
        /\ rwtx' = [rwtx EXCEPT !.freelist = NewRun(n), !.total = TotalAfter(n)]
    BY <1>4 DEF CommitFreelist, FreelistPages
  <2>2. n \in Nat \ {0}
    BY <1>t, FreelistTakesPages
  <2> HIDE DEF n
  <2>3. rwtx'.total = TotalAfter(n) /\ TotalAfter(n) \in Nat
    BY <1>t, <2>1, <2>2 DEF Meta, TotalAfter
  <2>4. datasz' \in Nat /\ (EndOfFile(n) => TotalAfter(n) + 1 <= datasz')
    BY <1>t, <2>1, <2>2, TakeGrows DEF MapKept
  <2>5. filesz' \in Nat /\ filesz <= filesz'
    <3>1. CASE EndOfFile(n)
      BY <1>t, <2>1, <2>3, <2>4, <3>1, GrowFits
    <3>2. CASE ~EndOfFile(n)
      BY <1>t, <2>1, <3>2
    <3> QED
      BY <3>1, <3>2
  <2> QED
    BY <1>t, <2>1, <2>2, <2>3, <2>5, TakeMaps
<1>5. CASE SyncData
  <2>1. /\ pc = "sync" /\ pc' = "meta" /\ rwtx' = rwtx /\ datasz' = datasz
        /\ metas' = metas /\ dmetas' = dmetas /\ filesz' = Max({filesz, rwtx.total})
        /\ mmapR' = mmapR /\ snap' = snap
    BY <1>5 DEF SyncData, readers, IInv, TwoMetas
  <2>2. filesz' \in Nat /\ filesz <= filesz' /\ rwtx.total <= filesz'
    BY <1>t, <2>1, MaxOfTwo
  <2>3. cur' = cur /\ dcur' = dcur
    BY <2>1 DEF cur, dcur, getMeta
  <2>4. mmapR \subseteq Readers
    BY <1>t DEF TypeOK
  <2> QED
    BY <1>t, <2>1, <2>2, <2>3, <2>4 DEF MapKept
<1>6. CASE WriteMeta
  <2>1. /\ pc = "meta" /\ pc' = "syncmeta" /\ dmetas' = dmetas /\ rwtx' = rwtx
        /\ metas' = [metas EXCEPT ![rwtx.txid % 2] = rwtx] /\ datasz' = datasz
        /\ filesz' = filesz /\ mmapR' = mmapR /\ snap' = snap
    BY <1>6 DEF WriteMeta, MetaPage, sizes, readers
  <2>2. cur' = rwtx /\ dcur' = dcur
    BY <1>t, <2>1, NewMeta DEF cur, dcur, getMeta, IInv, TypeOK, TwoMetas, Building
  <2> QED
    BY <1>t, <2>1, <2>2 DEF MapKept
<1>7. CASE SyncMeta
  <2>1. /\ pc = "syncmeta" /\ pc' = "close" /\ metas' = metas /\ dmetas' = metas
        /\ datasz' = datasz /\ filesz' = filesz /\ mmapR' = mmapR /\ snap' = snap
    BY <1>7 DEF SyncMeta, sizes, readers
  <2>2. cur' = cur /\ dcur' = cur
    BY <2>1 DEF cur, dcur, getMeta
  <2> QED
    BY <1>t, <2>1, <2>2 DEF MapKept
<1>8. CASE Crash
  <2>1. /\ pc' = "down" /\ dmetas' = metas' /\ metas' \in {metas, dmetas} /\ mmapR' = {}
        /\ filesz' = filesz \/ filesz' = Max({filesz, rwtx.total})
    BY <1>8, CrashPicks DEF Crash
  <2>2. filesz' \in Nat /\ filesz <= filesz'
    BY <1>t, <2>1, MaxOfTwo
  <2>3. cur' = dcur' /\ cur' \in {cur, dcur}
    BY <2>1 DEF cur, dcur, getMeta
  <2> QED
    BY <1>t, <2>1, <2>2, <2>3 DEF MapKept
<1>9. CASE Open
  <2>1. /\ pc' = "idle" /\ mmapR' = {} /\ metas' = metas /\ dmetas' = dmetas
        /\ filesz' = filesz /\ datasz' = MmapSize(filesz) /\ CanMap(filesz)
    BY <1>9 DEF Open, readers, store
  <2>2. datasz' \in Nat /\ filesz <= datasz'
    BY <1>t, <2>1, MmapSizeFits, PageAllocAssumption
  <2>3. cur' = cur /\ dcur' = dcur
    BY <2>1 DEF cur, dcur, getMeta
  <2> QED
    BY <1>t, <2>1, <2>2, <2>3 DEF MapKept
<1>10. ASSUME NEW r \in Readers, BeginTx(r) PROVE MapKept'
  <2>1. /\ pc # "down" /\ mmapR' = mmapR \cup {r} /\ snap' = [snap EXCEPT ![r] = cur]
        /\ pc' = pc /\ rwtx' = rwtx /\ metas' = metas /\ dmetas' = dmetas
        /\ filesz' = filesz /\ datasz' = datasz
    BY <1>10 DEF BeginTx, InitTx, cur, writer, store, sizes
  <2>2. cur' = cur /\ dcur' = dcur
    BY <2>1 DEF cur, dcur, getMeta
  <2> QED
    BY <1>t, <2>1, <2>2 DEF MapKept, TypeOK
<1>11. ASSUME NEW r \in Readers, UnlockMmap(r) \/ RemoveTx(r) PROVE MapKept'
  <2>1. /\ mmapR' \subseteq mmapR /\ \A t \in mmapR' : snap'[t] = snap[t]
        /\ pc' = pc /\ rwtx' = rwtx /\ metas' = metas /\ dmetas' = dmetas
        /\ filesz' = filesz /\ datasz' = datasz
    BY <1>t, <1>11 DEF UnlockMmap, RemoveTx, writer, store, sizes, TypeOK
  <2>2. cur' = cur /\ dcur' = dcur
    BY <2>1 DEF cur, dcur, getMeta
  <2> QED
    BY <1>t, <2>1, <2>2 DEF MapKept
<1>12. ASSUME UNCHANGED <<metas, dmetas, filesz, datasz, mmapR, snap>>,
              pc # "down" \/ pc' = "down", pc' # "meta",
              pc' \in {"fn", "spill", "write", "sync"} => rwtx'.total <= datasz
       PROVE  MapKept'
  <2>1. cur' = cur /\ dcur' = dcur
    BY <1>12 DEF cur, dcur, getMeta
  <2> QED
    BY <1>t, <1>12, <2>1 DEF MapKept
<1>13. CASE BeginRWTx
  <2>1. pc = "idle" /\ pc' = "fn" /\ UNCHANGED <<metas, dmetas, filesz, datasz, mmapR, snap>>
    BY <1>13 DEF BeginRWTx, store, sizes, readers
  <2>2. rwtx'.total = cur.total
    BY <1>13, CurType DEF BeginRWTx, InitTx, cur, Meta, IInv
  <2> QED
    BY <1>t, <1>12, <2>1, <2>2 DEF MapKept
<1>14. CASE \/ Rollback \/ UpdateFails \/ CloseTx \/ DbClose
            \/ \E k \in todo : InlineKidStale(k)
  <2>1. /\ pc' \in {"close", "leaked", "idle", "down", "stale"} /\ pc # "down"
        /\ UNCHANGED <<metas, dmetas, filesz, datasz, mmapR, snap>>
    BY <1>14 DEF Rollback, UpdateFails, CloseTx, DbClose, InlineKidStale, store, sizes, readers
  <2> QED
    BY <1>12, <2>1
<1>15. CASE Write \/ \E T \in SUBSET rwtx.kids, k \in 0 .. MaxNew, b \in BOOLEAN : Commit(T, k, b)
  <2>1. /\ pc \in {"fn", "write"} /\ pc' \in {"spill", "sync"} /\ rwtx' = rwtx
        /\ UNCHANGED <<metas, dmetas, filesz, datasz, mmapR, snap>>
    BY <1>15 DEF Write, Commit, store, sizes, readers
  <2> QED
    BY <1>t, <1>12, <2>1 DEF MapKept
<1>16. ASSUME NEW k \in todo, InlineKid(k) PROVE MapKept'
  <2>1. /\ pc = "spill" /\ pc' = pc /\ rwtx' = [rwtx EXCEPT !.kids = @ \ {k}]
        /\ UNCHANGED <<metas, dmetas, filesz, datasz, mmapR, snap>>
    BY <1>16 DEF InlineKid, store, sizes, readers
  <2>2. rwtx'.total = rwtx.total
    BY <1>t, <2>1 DEF Meta
  <2> QED
    BY <1>t, <1>12, <2>1, <2>2 DEF MapKept
<1>17. CASE UNCHANGED vars
  BY <1>t, <1>17 DEF MapKept, vars, writer, store, sizes, readers, cur, dcur, getMeta
<1> QED
  BY <1>1, <1>2, <1>3, <1>4, <1>5, <1>6, <1>7, <1>8, <1>9, <1>10, <1>11, <1>13, <1>14,
    <1>15, <1>16, <1>17 DEF Next, CommitStep, ReaderStep

---------------------------------------------------------------------------
(* The theorems.                                                           *)

\* A new database: four pages, all in use, all mapped.
LEMMA InitPageInv == Init => PageInv
<1> SUFFICES ASSUME Init PROVE PageInv
  OBVIOUS
<1>1. cur = InitMeta(1) /\ dcur = InitMeta(1)
  BY DEF Init, cur, dcur, getMeta, Newest, InitMeta
<1>2. cur.total = 4 /\ dcur.total = 4 /\ pc = "idle" /\ mmapR = {} /\ filesz = 4
  BY <1>1 DEF Init, InitMeta
<1>3. LivePages(InitMeta(1)) = 2 .. 3
  <2>1. AllRuns(InitMeta(1)) = {[first |-> 3, n |-> 1, by |-> 0], [first |-> 2, n |-> 1, by |-> 0]}
    BY DEF AllRuns, TreeRuns, InitMeta
  <2>2. PagesOf([first |-> 3, n |-> 1, by |-> 0]) = {3}
        /\ PagesOf([first |-> 2, n |-> 1, by |-> 0]) = {2}
    BY DEF PagesOf, Span
  <2> QED
    BY <2>1, <2>2 DEF LivePages
<1>4. PagesKept
  BY <1>1, <1>2, <1>3 DEF PagesKept, Complete
<1>5. datasz \in Nat /\ 4 <= datasz
  BY MmapSizeFits, PageAllocAssumption, DbAssumption DEF Init
<1>6. MapKept
  BY <1>2, <1>5 DEF MapKept
<1> QED
  BY <1>4, <1>6 DEF PageInv

\* PageInv holds at every step.
THEOREM PagesAccountedFor == Spec => []PageInv
<1>1. IInv /\ IInv' /\ PageInv /\ [Next]_vars => PageInv'
  BY NextPagesKept, NextMapKept DEF PageInv
<1> QED
  BY <1>1, InitPageInv, Inductive, PTL DEF Spec

\* Between transactions every page below the end of the file is in exactly
\* one place: in the committed version, free, or pending for one transaction.
THEOREM NoPageIsLost == Spec => []NoPageLost
<1>1. IInv /\ PageInv => NoPageLost
  <2> SUFFICES ASSUME IInv, PageInv, pc \in {"idle", "fn", "leaked"}
               PROVE  /\ LivePages(cur) \cup ids \cup AllPending(pending) = 2 .. (cur.total - 1)
                      /\ LivePages(cur) \cap (ids \cup AllPending(pending)) = {}
                      /\ ids \cap AllPending(pending) = {}
                      /\ \A j, k \in TxIds : j # k => pending[j] \cap pending[k] = {}
    BY DEF NoPageLost, cur
  <2>t. pending \in [TxIds -> SUBSET Pages] /\ cur.txid \in Nat /\ \A k \in TxIds : k \in Nat
    BY CurType, MetaType, DbAssumption DEF IInv, TxIds
  <2>1. \A k \in TxIds : k > cur.txid => pending[k] = {}
    BY DEF IInv, FreeSaved
  <2>2. \A r \in AllRuns(cur) : PagesOf(r) \cap ids = {}
          /\ \A k \in TxIds : PagesOf(r) \cap pending[k] = {}
    BY <2>t, <2>1 DEF IInv, FreeApart
  <2>3. /\ \A k \in TxIds : ids \cap pending[k] = {} /\ pending[k] \subseteq 2 .. (cur.total - 1)
        /\ ids \subseteq 2 .. (cur.total - 1)
        /\ \A j, k \in TxIds : j # k => pending[j] \cap pending[k] = {}
    BY DEF IInv, FreeApart
  <2>4. LivePages(cur) \subseteq 2 .. (cur.total - 1)
    BY DEF IInv, Committed, WellFormed, LivePages
  <2>5. LivePages(cur) \cap ids = {} /\ LivePages(cur) \cap AllPending(pending) = {}
    BY <2>t, <2>2 DEF LivePages, AllPending
  <2>6. ids \cap AllPending(pending) = {} /\ AllPending(pending) \subseteq 2 .. (cur.total - 1)
    BY <2>t, <2>3 DEF AllPending
  <2>7. 2 .. (cur.total - 1) \subseteq LivePages(cur) \cup ids \cup AllPending(pending)
    BY DEF PageInv, PagesKept, Complete, IInv, FreeSaved
  <2> QED
    BY <2>3, <2>4, <2>5, <2>6, <2>7
<1> QED
  BY <1>1, PagesAccountedFor, Inductive, PTL

\* No transaction, new or running, can follow a page id out of the mapping or
\* past the end of the file.
THEOREM MappingCovers == Spec => []MapCovers
<1>1. PageInv => MapCovers
  BY DEF PageInv, MapKept, MapCovers, cur
<1> QED
  BY <1>1, PagesAccountedFor, PTL

---------------------------------------------------------------------------
(* What a transaction reads.                                               *)

\* What Tx::getPage finds depends only on who wrote the pages of the buckets.
LEMMA ReadSame ==
  ASSUME NEW f, NEW g, NEW m, Intact(f, m), Intact(g, m)
  PROVE  Read(f, m) = Read(g, m)
<1>1. \A p \in TreePages(m) : f[p].by = g[p].by
  BY DEF TreePages, Intact
<1>2. {<<p, f[p].by>> : p \in TreePages(m)} = {<<p, g[p].by>> : p \in TreePages(m)}
  BY <1>1
<1> QED
  BY <1>2 DEF Read

\* What is read is a version of the store.
LEMMA ReadType ==
  ASSUME NEW f \in [Pages -> Content], NEW m \in Meta, m.txid >= 1
  PROVE  Read(f, m) \in [txid : 1 .. MaxTx, data : SUBSET (Pages \X TxIds)]
<1>1. m.txid \in 1 .. MaxTx
  BY MetaType, DbAssumption DEF TxIds
<1>2. TreePages(m) \subseteq Pages
  <2> SUFFICES ASSUME NEW r \in TreeRuns(m) PROVE PagesOf(r) \subseteq Pages
    BY DEF TreePages
  <2>1. r \in Run
    BY MetaType
  <2> QED
    BY <2>1 DEF Run, PagesOf
<1>3. \A p \in Pages : f[p].by \in TxIds
  BY DEF Content
<1>4. {<<p, f[p].by>> : p \in TreePages(m)} \subseteq Pages \X TxIds
  BY <1>2, <1>3
<1> QED
  BY <1>1, <1>4 DEF Read

\* The versions that can be read: the committed one, the durable one, from
\* the mapping and from the disk, and the readers'.
Visible ==
  /\ Intact(file, cur) /\ Intact(file, dcur) /\ Intact(disk, dcur)
  /\ \A t \in open : Intact(file, snap[t])

\* All of them hold what their transactions wrote.
LEMMA VersionsIntact == IInv => Visible
<1> SUFFICES ASSUME IInv PROVE Visible
  OBVIOUS
<1>1. Intact(file, cur) /\ Intact(file, dcur)
  BY DEF IInv, Committed, Readable, Intact, AllRuns
<1>2. \A r \in TreeRuns(dcur) : \A p \in PagesOf(r) : file[p] = disk[p]
  BY DEF IInv, Committed, AllRuns
<1>3. Intact(disk, dcur)
  BY <1>1, <1>2 DEF Intact
<1> QED
  BY <1>1, <1>3 DEF IInv, ReadersSafe, Visible

---------------------------------------------------------------------------
(* Steps nobody sees.                                                      *)

\* As long as the metas and the readers stay the same, so do all versions,
\* whatever pages Tx::write writes and fdatasync makes durable.
LEMMA Invisible ==
  ASSUME IInv, IInv', UNCHANGED <<metas, dmetas, open, snap>>
  PROVE  UNCHANGED Store!vars
<1>0. Visible /\ Visible'
  BY VersionsIntact, PTL
<1>1. cur' = cur /\ dcur' = dcur
  BY DEF cur, dcur, getMeta
<1>2. Intact(file, cur) /\ Intact(file', cur) /\ Intact(disk, dcur) /\ Intact(disk', dcur)
  BY <1>0, <1>1 DEF Visible
<1>3. Read(file, getMeta)' = Read(file, getMeta)
  BY <1>1, <1>2, ReadSame DEF cur
<1>4. Read(disk, Newest(dmetas))' = Read(disk, Newest(dmetas))
  BY <1>1, <1>2, ReadSame DEF dcur
<1>5. \A r \in open : Read(file', snap[r]) = Read(file, snap[r])
  BY <1>0, ReadSame DEF Visible
<1>6. [r \in Readers |-> IF r \in open THEN Read(file, snap[r]) ELSE NoView]'
      = [r \in Readers |-> IF r \in open THEN Read(file, snap[r]) ELSE NoView]
  BY <1>5
<1> QED
  BY <1>3, <1>4, <1>6 DEF Store!vars

---------------------------------------------------------------------------
(* Steps somebody sees.                                                    *)

\* The first version is the one DB::Init writes.
LEMMA InitRefines == Init => Store!Init
<1> SUFFICES ASSUME Init PROVE Store!Init
  OBVIOUS
<1>1. getMeta = InitMeta(1) /\ getMeta.txid = 1
  BY DEF Init, getMeta, Newest, InitMeta
<1>2. getMeta \in Meta /\ file \in [Pages -> Content]
  BY InitTypeOK, NewestType DEF TypeOK, getMeta
<1>3. Read(file, getMeta) \in [txid : 1 .. MaxTx, data : SUBSET (Pages \X TxIds)]
  BY <1>1, <1>2, ReadType
<1>4. Read(disk, Newest(dmetas)) = Read(file, getMeta)
  BY DEF Init, getMeta
<1>5. [r \in Readers |-> IF r \in open THEN Read(file, snap[r]) ELSE NoView]
      = [r \in Readers |-> NoView]
  BY DEF Init
<1> QED
  BY <1>3, <1>4, <1>5 DEF Store!Init

\* Tx::writeMeta is the commit point: only then does anybody see the pages
\* Tx::write has written.
LEMMA WriteMetaRefines ==
  ASSUME IInv, IInv', WriteMeta
  PROVE  Store!Commit
<1>0. Visible /\ Visible'
  BY VersionsIntact, PTL
<1>1. /\ pc = "meta" /\ metas' = [metas EXCEPT ![rwtx.txid % 2] = rwtx]
      /\ dmetas' = dmetas /\ file' = file /\ disk' = disk /\ open' = open /\ snap' = snap
  BY DEF WriteMeta, MetaPage, readers
<1>2. /\ dmetas = metas /\ dcur = cur /\ disk = file /\ rwtx \in Meta
      /\ rwtx.txid = cur.txid + 1
  BY <1>1, CurType, MetasOnDisk DEF IInv, TwoMetas, Committed, Building
<1>3. cur' = rwtx /\ dcur' = dcur
  BY <1>1, <1>2, NewMeta DEF cur, dcur, getMeta, IInv, TypeOK, TwoMetas
<1>4. Read(disk, Newest(dmetas)) = Read(file, getMeta)
  BY <1>2 DEF cur, dcur
<1>5. Read(file, getMeta)' = Read(file, rwtx)
  BY <1>1, <1>3 DEF cur
<1>6. cur.txid \in Nat
  BY CurType, MetaType DEF IInv
<1>7. Read(file, rwtx) \in [txid : 1 .. MaxTx, data : SUBSET (Pages \X TxIds)]
  BY <1>2, <1>6, ReadType DEF IInv, TypeOK
<1>8. Read(file, rwtx).txid = Read(file, getMeta).txid + 1
  BY <1>2 DEF Read, cur
<1>9. UNCHANGED Read(disk, Newest(dmetas))
  BY <1>1
<1>10. UNCHANGED [r \in Readers |-> IF r \in open THEN Read(file, snap[r]) ELSE NoView]
  BY <1>1
<1> QED
  BY <1>4, <1>5, <1>7, <1>8, <1>9, <1>10 DEF Store!Commit

\* Its fdatasync makes the version durable.
LEMMA SyncMetaRefines ==
  ASSUME IInv, IInv', SyncMeta
  PROVE  Store!Sync
<1>1. /\ metas' = metas /\ dmetas' = metas /\ file' = file /\ disk' = file
      /\ open' = open /\ snap' = snap
  BY DEF SyncMeta, readers
<1>2. Read(disk, Newest(dmetas))' = Read(file, getMeta)
  BY <1>1 DEF getMeta
<1>3. UNCHANGED Read(file, getMeta)
  BY <1>1 DEF getMeta
<1>4. UNCHANGED [r \in Readers |-> IF r \in open THEN Read(file, snap[r]) ELSE NoView]
  BY <1>1
<1> QED
  BY <1>2, <1>3, <1>4 DEF Store!Sync

\* DB::beginTx gives a reader the committed version.
LEMMA BeginTxRefines ==
  ASSUME IInv, NEW r \in Readers, BeginTx(r)
  PROVE  Store!Begin(r)
<1> DEFINE view == [t \in Readers |-> IF t \in open THEN Read(file, snap[t]) ELSE NoView]
<1>1. /\ r \notin open /\ open' = open \cup {r} /\ snap' = [snap EXCEPT ![r] = getMeta]
      /\ metas' = metas /\ dmetas' = dmetas /\ file' = file /\ disk' = disk
  BY DEF BeginTx, InitTx, store
<1>2. snap'[r] = getMeta /\ \A t \in Readers \ {r} : snap'[t] = snap[t]
  BY <1>1 DEF IInv, TypeOK
<1>3. view[r] = NoView
  BY <1>1
<1>4. view' = [view EXCEPT ![r] = Read(file, getMeta)]
  <2>1. view'[r] = Read(file, getMeta)
    BY <1>1, <1>2
  <2>2. \A t \in Readers \ {r} : view'[t] = view[t]
    BY <1>1, <1>2
  <2> HIDE DEF view
  <2>3. view = [t \in Readers |-> view[t]] /\ view' = [t \in Readers |-> view'[t]]
    BY DEF view
  <2> QED
    BY <2>1, <2>2, <2>3
<1>5. UNCHANGED Read(file, getMeta) /\ UNCHANGED Read(disk, Newest(dmetas))
  BY <1>1 DEF getMeta
<1> QED
  BY <1>3, <1>4, <1>5 DEF Store!Begin

\* DB::removeTx ends the view; the reader's mapping lock does not show.
LEMMA RemoveTxRefines ==
  ASSUME IInv, NEW r \in Readers, RemoveTx(r)
  PROVE  Store!End(r)
<1> DEFINE view == [t \in Readers |-> IF t \in open THEN Read(file, snap[t]) ELSE NoView]
<1>1. /\ open' = open \ {r} /\ snap' = [snap EXCEPT ![r] = InitMeta(1)]
      /\ metas' = metas /\ dmetas' = dmetas /\ file' = file /\ disk' = disk
  BY DEF RemoveTx, store
<1>2. \A t \in Readers \ {r} : snap'[t] = snap[t]
  BY <1>1 DEF IInv, TypeOK
<1>3. view' = [view EXCEPT ![r] = NoView]
  <2>1. view'[r] = NoView
    BY <1>1
  <2>2. \A t \in Readers \ {r} : view'[t] = view[t]
    BY <1>1, <1>2
  <2> HIDE DEF view
  <2>3. view = [t \in Readers |-> view[t]] /\ view' = [t \in Readers |-> view'[t]]
    BY DEF view
  <2> QED
    BY <2>1, <2>2, <2>3
<1>4. UNCHANGED Read(file, getMeta) /\ UNCHANGED Read(disk, Newest(dmetas))
  BY <1>1 DEF getMeta
<1> QED
  BY <1>3, <1>4 DEF Store!End

\* After a crash the store is at one of its two versions, and nobody reads.
LEMMA CrashRefines ==
  ASSUME IInv, IInv', Crash
  PROVE  Store!Crash
<1>0. Visible /\ Visible'
  BY VersionsIntact, PTL
<1>1. open' = {} /\ disk' = file' /\ dmetas' = metas'
  BY DEF Crash
<1>2. cur' \in {cur, dcur}
  BY CrashPicks DEF cur, dcur, getMeta
<1>3. Read(file, getMeta)' \in {Read(file, getMeta), Read(disk, Newest(dmetas))}
  <2>1. CASE cur' = cur
    BY <1>0, <2>1, ReadSame DEF Visible, cur
  <2>2. CASE cur' = dcur
    BY <1>0, <2>2, ReadSame DEF Visible, cur, dcur
  <2> QED
    BY <1>2, <2>1, <2>2
<1>4. Read(disk, Newest(dmetas))' = Read(file, getMeta)'
  BY <1>1 DEF getMeta
<1>5. [r \in Readers |-> IF r \in open THEN Read(file, snap[r]) ELSE NoView]'
      = [r \in Readers |-> NoView]
  BY <1>1
<1> QED
  BY <1>3, <1>4, <1>5 DEF Store!Crash

---------------------------------------------------------------------------
(* All together.                                                           *)

\* Every step of the database is a step of the abstract store or invisible.
LEMMA NextRefines ==
  IInv /\ IInv' /\ [Next]_vars => [Store!Next]_(Store!vars)
<1> SUFFICES ASSUME IInv, IInv', [Next]_vars PROVE [Store!Next]_(Store!vars)
  OBVIOUS
<1>1. CASE WriteMeta
  BY <1>1, WriteMetaRefines DEF Store!Next
<1>2. CASE SyncMeta
  BY <1>2, SyncMetaRefines DEF Store!Next
<1>3. ASSUME NEW r \in Readers, BeginTx(r)
      PROVE  [Store!Next]_(Store!vars)
  BY <1>3, BeginTxRefines DEF Store!Next
<1>4. ASSUME NEW r \in Readers, RemoveTx(r)
      PROVE  [Store!Next]_(Store!vars)
  BY <1>4, RemoveTxRefines DEF Store!Next
<1>5. CASE Crash
  BY <1>5, CrashRefines DEF Store!Next
<1>6. CASE SyncData
  <2>1. dmetas' = dmetas /\ UNCHANGED <<metas, open, snap>>
    BY <1>6 DEF SyncData, readers, IInv, TwoMetas
  <2> QED
    BY <2>1, Invisible
<1>7. CASE UNCHANGED <<metas, dmetas, open, snap>>
  BY <1>7, Invisible
<1>8. \/ WriteMeta \/ SyncMeta \/ Crash \/ SyncData
      \/ \E r \in Readers : BeginTx(r) \/ RemoveTx(r)
      \/ UNCHANGED <<metas, dmetas, open, snap>>
  <2>1. CASE BeginRWTx \/ Rollback \/ UpdateFails \/ CloseTx \/ DbClose \/ Open
    BY <2>1 DEF BeginRWTx, Rollback, UpdateFails, CloseTx, DbClose, Open, readers, store
  <2>2. CASE CommitStep
    BY <2>2 DEF CommitStep, Commit, SpillKid, InlineKid, InlineKidStale, SpillNew,
      SpillRoot, CommitFreelist, Write, readers, store
  <2>3. CASE ReaderStep
    BY <2>3 DEF ReaderStep, UnlockMmap, readers, store
  <2>4. CASE UNCHANGED vars
    BY <2>4 DEF vars, readers, store
  <2> QED
    BY <2>1, <2>2, <2>3, <2>4 DEF Next
<1> QED
  BY <1>1, <1>2, <1>3, <1>4, <1>5, <1>6, <1>7, <1>8

\* The page store implements the abstract store: whatever its transactions,
\* readers, mappings and crashes do, a user sees one version replaced as a
\* whole, snapshots that do not change, and at worst the loss of a commit
\* that was never acknowledged.
THEOREM DbImplementsStore == Spec => ImplementsStore
<1>1. Spec => []IInv
  BY Inductive
<1> QED
  BY <1>1, InitRefines, NextRefines, PTL DEF Spec, ImplementsStore, Store!Spec
=============================================================================
