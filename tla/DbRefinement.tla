--------------------------- MODULE DbRefinement ---------------------------
(***************************************************************************)
(* Db implements SnapshotStore.  A version is what a transaction that      *)
(* starts from a meta reads: the meta's txid and the pages of its buckets  *)
(* with what the file, not the meta, says is in them.                      *)
(***************************************************************************)
EXTENDS Db

\* What Tx::getPage finds under a meta's buckets.
Read(f, m) == [txid |-> m.txid, data |-> {<<p, f[p].by>> : p \in TreePages(m)}]

NoView == [txid |-> 0, data |-> {}]

Store == INSTANCE SnapshotStore WITH
  Versions <- [txid : 1 .. MaxTx, data : SUBSET (Pages \X TxIds)],
  version <- Read(file, getMeta),
  durable <- Read(disk, Newest(dmetas)),
  view <- [r \in Readers |-> IF r \in open THEN Read(file, snap[r]) ELSE NoView]

\* Through every interleaving of a commit's page writes with readers, and
\* every crash, the database behaves as one version replaced as a whole:
\* Tx::write changes nothing anybody can see, Tx::writeMeta is the commit
\* point, and its fdatasync the point of no return.
ImplementsStore == Store!Spec
=============================================================================
