--------------------------- MODULE SnapshotStore ---------------------------
(***************************************************************************)
(* What the store promises its users, with no pages, no freelist and no    *)
(* locks: one current version, replaced as a whole by a commit; readers    *)
(* that keep the version they began with; and a crash that falls back, at  *)
(* worst, to the last version made durable.  DbRefinement.tla shows that   *)
(* Db.tla implements it.                                                   *)
(***************************************************************************)
EXTENDS Integers

CONSTANTS
  Readers,      \* who reads
  Versions,     \* the versions there can be: records with a txid
  NoView        \* the view of a reader that has no transaction

VARIABLES
  version,   \* the version a new transaction sees
  durable,   \* the version that is safe on disk
  view       \* the version each reader sees

vars == <<version, durable, view>>

Init ==
  /\ version \in Versions
  /\ durable = version
  /\ view = [r \in Readers |-> NoView]

\* A commit replaces the version; there is never more than one version that
\* is not durable yet.
Commit ==
  /\ durable = version
  /\ version' \in Versions
  /\ version'.txid = version.txid + 1
  /\ UNCHANGED <<durable, view>>

Sync ==
  /\ durable' = version
  /\ UNCHANGED <<version, view>>

Begin(r) ==
  /\ view[r] = NoView
  /\ view' = [view EXCEPT ![r] = version]
  /\ UNCHANGED <<version, durable>>

End(r) ==
  /\ view' = [view EXCEPT ![r] = NoView]
  /\ UNCHANGED <<version, durable>>

\* Only the last commit can be lost, and only before it is durable.
Crash ==
  /\ version' \in {version, durable}
  /\ durable' = version'
  /\ view' = [r \in Readers |-> NoView]

Next ==
  \/ Commit
  \/ Sync
  \/ \E r \in Readers : Begin(r) \/ End(r)
  \/ Crash

Spec == Init /\ [][Next]_vars
=============================================================================
