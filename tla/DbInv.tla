------------------------------- MODULE DbInv -------------------------------
(***************************************************************************)
(* The inductive invariant of Db from which DbSafety.tla derives snapshot  *)
(* isolation, the integrity of the committed version, durability and the   *)
(* freshness of the pages a commit writes.                                 *)
(***************************************************************************)
EXTENDS Db

cur == getMeta
dcur == Newest(dmetas)

\* The runs of a meta: not empty, below the end of the file, disjoint.
WellFormed(m) ==
  /\ \A r \in AllRuns(m) : r.n >= 1 /\ PagesOf(r) \subseteq 2 .. (m.total - 1)
  /\ \A r, s \in AllRuns(m) : r # s => PagesOf(r) \cap PagesOf(s) = {}
  /\ m.root \notin m.kids
  /\ m.freelist \notin TreeRuns(m)

\* Every page of m holds what its transaction wrote, and the freelist in it
\* holds no page of m.
Readable(f, m) ==
  /\ \A r \in AllRuns(m) : \A p \in PagesOf(r) : f[p].by = r.by
  /\ Persisted(f, m) \subseteq 2 .. (m.total - 1)
  /\ \A r \in AllRuns(m) : PagesOf(r) \cap Persisted(f, m) = {}

\* The meta pages are written in turn.
Alternate(ms) ==
  /\ ms[0].txid % 2 = 0 /\ ms[1].txid % 2 = 1
  /\ ms[0].txid = ms[1].txid + 1 \/ ms[1].txid = ms[0].txid + 1

TwoMetas ==
  /\ Alternate(metas) /\ Alternate(dmetas)
  /\ pc # "syncmeta" => dmetas = metas
  /\ pc = "syncmeta" => /\ metas = [dmetas EXCEPT ![rwtx.txid % 2] = rwtx]
                        /\ rwtx.txid = dcur.txid + 1
  /\ acked <= dcur.txid

\* The committed version is readable, and so is the one on disk while the
\* new meta page is not; a crash cannot touch either.
Committed ==
  /\ WellFormed(cur) /\ WellFormed(dcur)
  /\ \A r \in AllRuns(cur) : r.by <= cur.txid
  /\ \A r \in AllRuns(dcur) : r.by <= dcur.txid
  /\ Readable(file, cur) /\ Readable(file, dcur)
  /\ \A r \in AllRuns(cur) \cup AllRuns(dcur) : \A p \in PagesOf(r) : file[p] = disk[p]
  /\ pc \in {"meta", "syncmeta"} => disk = file

\* The freelist: no page twice, none past the committed end of the file, no
\* page of the committed version unless the running transaction freed it.
FreeApart ==
  /\ ids \subseteq 2 .. (cur.total - 1)
  /\ \A k \in TxIds : pending[k] \subseteq 2 .. (cur.total - 1)
  /\ \A k \in TxIds : ids \cap pending[k] = {}
  /\ \A j, k \in TxIds : j # k => pending[j] \cap pending[k] = {}
  /\ \A r \in AllRuns(cur) :
       /\ PagesOf(r) \cap ids = {}
       /\ \A k \in TxIds : k <= cur.txid => PagesOf(r) \cap pending[k] = {}

\* Pages are pending only for transactions that have run; the freelist page
\* holds nothing else when no transaction has changed it.
FreeSaved ==
  /\ pc \in {"spill", "write", "sync", "meta", "stale"}
       => \A k \in TxIds : k > cur.txid + 1 => pending[k] = {}
  /\ pc \notin {"spill", "write", "sync", "meta", "stale"}
       => \A k \in TxIds : k > cur.txid => pending[k] = {}
  /\ pc \in {"idle", "fn", "close", "leaked", "syncmeta"}
       => Persisted(file, cur) \subseteq ids \cup AllPending(pending)
  /\ pc = "down" => ids = {} /\ pending = NoPending

\* The version a transaction builds: runs of the committed version it has
\* kept, and fresh ones that nobody else has.
Building ==
  pc \in {"fn", "spill", "write", "sync", "meta"} =>
    /\ rwtx.txid = cur.txid + 1
    /\ cur.total <= rwtx.total
    /\ WellFormed(rwtx)
    /\ \A r \in AllRuns(rwtx) :
         /\ PagesOf(r) \cap ids = {}
         /\ \A k \in TxIds : PagesOf(r) \cap pending[k] = {}
         /\ r.by = rwtx.txid =>
              /\ \A s \in AllRuns(cur) : PagesOf(r) \cap PagesOf(s) = {}
              /\ \A t \in open : \A s \in TreeRuns(snap[t]) : PagesOf(r) \cap PagesOf(s) = {}
         /\ r.by # rwtx.txid => r \in AllRuns(cur)

\* What is left to spill is what the committed version has.
Spilling ==
  /\ pc = "fn" => rwtx = [cur EXCEPT !.txid = @ + 1]
  /\ pc = "spill" =>
       /\ todo \subseteq rwtx.kids \cap cur.kids
       /\ rwtx.freelist = cur.freelist
       /\ rootT => rwtx.root = cur.root
  /\ pc \in {"write", "sync", "meta"} => rwtx.freelist.by = rwtx.txid
  /\ pc \in {"sync", "meta"} =>
       /\ \A r \in AllRuns(rwtx) : \A p \in PagesOf(r) : file[p].by = r.by
       /\ Persisted(file, rwtx) = ids \cup AllPending(pending)

\* An open reader's pages: below the end of the file, not free, and not
\* among the pages pending for a transaction it may be younger than.
ReadersSafe ==
  \A t \in open :
    /\ snap[t].txid <= cur.txid
    /\ Intact(file, snap[t])
    /\ \A s \in TreeRuns(snap[t]) :
         /\ PagesOf(s) \subseteq 2 .. (cur.total - 1)
         /\ PagesOf(s) \cap ids = {}
         /\ \A k \in TxIds : k <= snap[t].txid => PagesOf(s) \cap pending[k] = {}

\* What DB, Tx and freeList keep true between them at every step: the metas
\* alternate, the committed version survives a crash, free pages and fresh
\* pages are nobody else's, and a reader's pages are neither.
IInv ==
  /\ TypeOK
  /\ TwoMetas
  /\ Committed
  /\ FreeApart
  /\ FreeSaved
  /\ Building
  /\ Spilling
  /\ ReadersSafe

---------------------------------------------------------------------------
(* On top of IInv: no page is lost, and the mapping and the file cover     *)
(* every page a pointer leads to.                                          *)

\* A page below the end of the file belongs to the version or is in the
\* freelist saved with it.
Complete(f, m) == 2 .. (m.total - 1) \subseteq LivePages(m) \cup Persisted(f, m)

\* The same for the version being built, with the freelist in memory.
Covered == 2 .. (rwtx.total - 1) \subseteq LivePages(rwtx) \cup ids \cup AllPending(pending)

\* The committed version, the one on disk and the one a commit is building
\* each account for every page.
PagesKept ==
  /\ Complete(file, cur) /\ Complete(file, dcur)
  /\ pc \in {"spill", "write", "sync", "meta"} => Covered

\* The end of the file in a meta is within the mapping before the pages are
\* written, and within the file before the meta is.
MapKept ==
  /\ cur.total <= filesz /\ dcur.total <= filesz
  /\ pc # "down" => cur.total <= datasz
  /\ pc \in {"fn", "spill", "write", "sync", "meta"} => rwtx.total <= datasz
  /\ pc = "meta" => rwtx.total <= filesz
  /\ \A r \in mmapR : snap[r].total <= datasz /\ snap[r].total <= filesz

\* DB::allocate, DB::grow and freeList lose no page and hand out none that
\* cannot be read: every page is in a version or in a freelist, in memory and
\* on disk, at every step of a commit and after every crash.
PageInv == PagesKept /\ MapKept
=============================================================================
